------------------------------ MODULE Brackets ------------------------------
(***************************************************************************)
(* The draws of one Kyorugi competition: staff draw a group's first round, *)
(* number the matches of some weights mat by mat, and publish the table.   *)
(*                                                                         *)
(* Every service runs in one transaction and is one action.  The draw page *)
(* is two: it counts the entrants to size the table, and the service that  *)
(* it then calls reads them again.  Registrations may commit in between.   *)
(***************************************************************************)
EXTENDS FirstRound, FiniteSetsExt

CONSTANTS
    Groups,        \* belt group and weight category of a draw
    WeightOf,      \* weight category of a group, named by its min_weight rank
    Players, Pool, \* the players whose belt and weight put them in a group
    Mats,          \* mat numbers
    Assignments,   \* the sets of mats that staff assign to a weight
    Overrides,     \* sizes typed in the manual settings of the page
    MaxEntrants, MaxDraws   \* bounds

Weights == {WeightOf[g] : g \in Groups}

ASSUME BracketsAssumption ==
    /\ IsFiniteSet(Groups) /\ WeightOf \in [Groups -> Nat]
    /\ Pool \in [Groups -> SUBSET Players]
    /\ Mats \subseteq Nat \ {0}
    /\ Assignments \subseteq SUBSET Mats
    /\ NULL \notin Players \cup Nat
    /\ Overrides \subseteq Nat \ {0}
    /\ MaxEntrants \in Nat /\ MaxDraws \in Nat

VARIABLES
    entrants,    \* per group, its eligible enrollments in id order
    assigned,    \* per weight, the mats it is assigned to
    counted,     \* per group, what an open draw page counted, or NULL
    draws,       \* per group, its draw, or NoDraw
    lastId,      \* id of the newest draw
    history,     \* per group, pairs that met in a first round
    cleared,     \* id of the newest draw when the histories were last cleared
    published    \* bracket_published_at is set

vars == <<entrants, assigned, counted, draws, lastId, history, cleared, published>>

\* The ids of draws start at 1.
NoDraw == [id |-> 0, size |-> 0, matches |-> <<>>]
Drawn == {g \in Groups : draws[g] # NoDraw}

Init ==
    /\ entrants = [g \in Groups |-> <<>>]
    /\ assigned = [w \in Weights |-> {}]
    /\ counted = [g \in Groups |-> NULL]
    /\ draws = [g \in Groups |-> NoDraw]
    /\ lastId = 0
    /\ history = [g \in Groups |-> {}]
    /\ cleared = 0
    /\ published = FALSE

-----------------------------------------------------------------------------
(* A paid registration, and the assignment of weights to mats.             *)

Enroll(g, p) ==
    /\ p \in Pool[g] /\ Len(entrants[g]) < MaxEntrants
    /\ \A h \in Groups : p \notin Range(entrants[h])
    /\ entrants' = [entrants EXCEPT ![g] = Append(@, p)]
    /\ UNCHANGED <<assigned, counted, draws, lastId, history, cleared, published>>

AssignMats(w, mats) ==
    /\ assigned' = [assigned EXCEPT ![w] = mats]
    /\ UNCHANGED <<entrants, counted, draws, lastId, history, cleared, published>>

-----------------------------------------------------------------------------
(* The draw of a group.                                                    *)

\* The page counts; with nobody to draw it stops at an error message.
CountEntrants(g) ==
    /\ counted[g] = NULL /\ entrants[g] # <<>> /\ lastId < MaxDraws
    /\ counted' = [counted EXCEPT ![g] = Len(entrants[g])]
    /\ UNCHANGED <<entrants, assigned, draws, lastId, history, cleared, published>>

\* Mutation: match indices start at 1.
FirstRoundMatchesFromOne(size, seats) ==
    [k \in {1} \X (1..(size \div 2)) |->
        LET a == seats[2 * k[2] - 1]
            b == seats[2 * k[2]]
        IN [a |-> a, b |-> b, is_bye |-> NULL \in {a, b},
            mat_no |-> NULL, match_number |-> NULL]]

\* A match is [a, b, is_bye, mat_no, match_number]; matches are keyed by
\* <<round, index>>, and match i of a round feeds match i \div 2 of the next.
FirstRoundMatches(size, seats) ==
    [k \in {1} \X (0..(size \div 2 - 1)) |->
        LET a == seats[2 * k[2] + 1]
            b == seats[2 * k[2] + 2]
        IN [a |-> a, b |-> b, is_bye |-> NULL \in {a, b},
            mat_no |-> NULL, match_number |-> NULL]]

Bouts(matches) == {k \in DOMAIN matches : NULL \notin {matches[k].a, matches[k].b}}
Pairs(matches) == {{matches[k].a, matches[k].b} : k \in Bouts(matches)}

\* Mutation: the history is written from the draw about to be deleted.
CreateDrawStaleHistory(g, requested, order, newYear) ==
    LET size == DrawSize(requested, Len(entrants[g])) IN
    /\ draws' = [draws EXCEPT ![g] = [id |-> lastId + 1, size |-> size, matches |->
                    FirstRoundMatches(size, [s \in 1..size |-> Seat(size, order, s)])]]
    /\ lastId' = lastId + 1
    /\ history' = IF draws[g] = NoDraw THEN history
                  ELSE [history EXCEPT ![g] = @ \cup Pairs(draws[g].matches)]
    /\ cleared' = IF newYear THEN lastId + 1 ELSE cleared

\* The previous draw is deleted with its matches: no code ever locks one.  A
\* draw on 1 Farvardin empties all histories, with the pairs it just added.
CreateDraw(g, requested, order, newYear) ==
    LET size == DrawSize(requested, Len(entrants[g]))
        matches == FirstRoundMatches(size, [s \in 1..size |-> Seat(size, order, s)])
    IN
    /\ draws' = [draws EXCEPT ![g] = [id |-> lastId + 1, size |-> size, matches |-> matches]]
    /\ lastId' = lastId + 1
    /\ history' = [h \in Groups |->
         IF newYear THEN {} ELSE history[h] \cup IF h = g THEN Pairs(matches) ELSE {}]
    /\ cleared' = IF newYear THEN lastId + 1 ELSE cleared

StartDraw(g) ==
    /\ counted[g] # NULL /\ lastId < MaxDraws
    /\ \E requested \in {AdminSize(counted[g])} \cup Overrides :
         IF IsPow2(requested)
         THEN \E order \in Orders(entrants[g]), newYear \in BOOLEAN :
                CreateDraw(g, requested, order, newYear)
         ELSE UNCHANGED <<draws, lastId, history, cleared>>
    /\ counted' = [counted EXCEPT ![g] = NULL]
    /\ UNCHANGED <<entrants, assigned, published>>

-----------------------------------------------------------------------------
(* Numbering the matches of a set of weights.                              *)

MatOf(g) == Min(assigned[WeightOf[g]])
Of(ws) == {g \in Drawn : WeightOf[g] \in ws}

Rounds(size) == CHOOSE r \in 0..size : 2^r = size
Keys(size) == {k \in (1..Rounds(size)) \X (0..(size - 1)) : k[2] < size \div 2^k[1]}

\* _ensure_rounds_exist, after clearing the old numbers if asked to.
Prepared(g, clear) ==
    [k \in Keys(draws[g].size) |->
        IF k \notin DOMAIN draws[g].matches
        THEN [a |-> NULL, b |-> NULL, is_bye |-> FALSE, mat_no |-> NULL, match_number |-> NULL]
        ELSE IF clear THEN [draws[g].matches[k] EXCEPT !.match_number = NULL]
        ELSE draws[g].matches[k]]

Seated(g) == (UNION {{m.a, m.b} : m \in Range(draws[g].matches)}) \ {NULL}

\* A draw with one player has no real match, and a BYE gets no number.
Numberable(ws, mat) ==
    LET called == {g \in Of(ws) : MatOf(g) = mat /\ Cardinality(Seated(g)) >= 2} IN
    UNION {LET ms == Prepared(g, FALSE) IN {g} \X {k \in DOMAIN ms : ~ms[k].is_bye} : g \in called}

\* Mutations: a draw is called match by match; or finals are not held back.
RankByIndex(x) ==
    LET g == x[1] IN <<1, WeightOf[g], draws[g].id, x[2][2], x[2][1]>>
RankByRound(x) ==
    LET g == x[1] IN <<1, x[2][1], WeightOf[g], draws[g].id, x[2][2]>>

\* The order on a mat: round by round, in each round draw by draw, and the
\* finals of all draws after everything else.  Draws go by weight, then id.
Rank(x) ==
    LET g == x[1] round == x[2][1] index == x[2][2]
        final == round = Rounds(draws[g].size)
    IN <<IF final THEN 2 ELSE 1, IF final THEN 0 ELSE round, WeightOf[g], draws[g].id, index>>

Before(x, y) ==
    LET r == Rank(x)
        s == Rank(y)
    IN \E i \in 1..5 : r[i] < s[i] /\ \A j \in 1..(i - 1) : r[j] = s[j]

Position(x, queue) == Cardinality({y \in queue : Before(y, x)}) + 1

\* A match keeps the mat it already has, whatever the assignment says now.
NumberedMatches(g, ws, clear) ==
    LET prepared == Prepared(g, clear)
        queue == Numberable(ws, MatOf(g))
    IN [k \in DOMAIN prepared |->
          IF <<g, k>> \notin queue THEN prepared[k]
          ELSE [prepared[k] EXCEPT !.mat_no = IF @ = NULL THEN MatOf(g) ELSE @,
                                   !.match_number = Position(<<g, k>>, queue)]]

Number(ws, clear) ==
    /\ Of(ws) # {} /\ \A w \in ws : assigned[w] # {}
    /\ draws' = [g \in Groups |->
         IF g \in Of(ws) THEN [draws[g] EXCEPT !.matches = NumberedMatches(g, ws, clear)]
         ELSE draws[g]]
    /\ UNCHANGED <<entrants, assigned, counted, lastId, history, cleared, published>>

ClearNumbers(ws) ==
    /\ draws' = [g \in Groups |->
         IF g \in Of(ws)
         THEN [draws[g] EXCEPT !.matches =
                 [k \in DOMAIN @ |-> [@[k] EXCEPT !.match_number = NULL]]]
         ELSE draws[g]]
    /\ UNCHANGED <<entrants, assigned, counted, lastId, history, cleared, published>>

-----------------------------------------------------------------------------
(* Publication.                                                            *)

Unnumbered(g) == {k \in DOMAIN draws[g].matches :
                    ~draws[g].matches[k].is_bye /\ draws[g].matches[k].match_number = NULL}

Publish ==
    /\ \A g \in Drawn : Unnumbered(g) \cap Bouts(draws[g].matches) = {}
    /\ published' = TRUE
    /\ UNCHANGED <<entrants, assigned, counted, draws, lastId, history, cleared>>

Unpublish ==
    /\ published' = FALSE
    /\ UNCHANGED <<entrants, assigned, counted, draws, lastId, history, cleared>>

\* What the bracket pages show.
Shown == {g \in Drawn : published /\ Unnumbered(g) = {}}

-----------------------------------------------------------------------------
Next ==
    \/ \E g \in Groups, p \in Players : Enroll(g, p)
    \/ \E w \in Weights, mats \in Assignments : AssignMats(w, mats)
    \/ \E g \in Groups : CountEntrants(g) \/ StartDraw(g)
    \/ \E ws \in SUBSET Weights \ {{}} :
         \/ \E clear \in BOOLEAN : Number(ws, clear)
         \/ ClearNumbers(ws)
    \/ Publish \/ Unpublish

Spec == Init /\ [][Next]_vars

-----------------------------------------------------------------------------
(* Properties                                                              *)

Maybe(S) == S \cup {NULL}
Match == [a : Maybe(Players), b : Maybe(Players), is_bye : BOOLEAN,
          mat_no : Maybe(Mats), match_number : Maybe(Nat)]

TypeOK ==
    /\ entrants \in [Groups -> Seq(Players)]
    /\ assigned \in [Weights -> SUBSET Mats]
    /\ counted \in [Groups -> Maybe(Nat)]
    /\ lastId \in 0..MaxDraws /\ cleared \in 0..lastId
    /\ history \in [Groups -> SUBSET SUBSET Players]
    /\ published \in BOOLEAN
    /\ DOMAIN draws = Groups
    /\ \A g \in Drawn : /\ draws[g].id \in 1..lastId
                        /\ IsPow2(draws[g].size)
                        /\ DOMAIN draws[g].matches \subseteq Keys(draws[g].size)
                        /\ Range(draws[g].matches) \subseteq Match

MatchAt(x) == draws[x[1]].matches[x[2]]
OnMat(mat) == {x \in UNION {{g} \X DOMAIN draws[g].matches : g \in Drawn} :
                 MatchAt(x).mat_no = mat /\ MatchAt(x).match_number # NULL}

\* A match is called after the two matches that decide who fights in it: its
\* number is above its feeders' numbers, after any sequence of numberings of
\* any weights, re-draws and clearings.
BoutsInOrder ==
    \A g \in Drawn : LET ms == draws[g].matches IN
        \A k \in DOMAIN ms, f \in DOMAIN ms :
            /\ f[1] + 1 = k[1] /\ f[2] \div 2 = k[2]
            /\ ms[f].match_number # NULL /\ ms[k].match_number # NULL
            => ms[f].match_number < ms[k].match_number

\* Every entrant gets exactly one seat of a new draw that is large enough, and
\* nobody else gets any.
EveryoneSeatedOnce ==
    [][\A g \in Groups :
         draws'[g] # NoDraw /\ lastId' > lastId /\ draws'[g].id = lastId'
         /\ draws'[g].size >= Len(entrants[g])
         => LET ms == draws'[g].matches
                seats == {k \in DOMAIN ms : ms[k].a # NULL} \X {1}
                         \cup {k \in DOMAIN ms : ms[k].b # NULL} \X {2}
            IN /\ (UNION {{m.a, m.b} : m \in Range(ms)}) \ {NULL} = Range(entrants[g])
               /\ Cardinality(seats) = Len(entrants[g])]_vars

\* The history knows the first-round pairs of every draw that stands and was
\* made since the histories were last cleared, so that the next draw of the
\* group can avoid them; drawing on 1 Farvardin forgets those of all groups.
PairsRemembered ==
    \A g \in Drawn :
        IF draws[g].id > cleared THEN Pairs(draws[g].matches) \subseteq history[g]
        ELSE history[g] = {}

\* When all drawn weights are numbered together, before any match was put on a
\* mat, the numbers of each mat are 1, 2, ..., n without gap or repetition,
\* and the finals come last.
WholeScheduleInOrder ==
    [][\A clear \in BOOLEAN :
         /\ draws' # draws /\ lastId' = lastId
         /\ \A g \in Drawn : \A m \in Range(draws[g].matches) : m.mat_no = NULL
         /\ Number({WeightOf[g] : g \in Drawn}, clear)
         => \A mat \in Mats :
              /\ {MatchAt(x)' : x \in OnMat(mat)'} # {} =>
                   {MatchAt(x)'.match_number : x \in OnMat(mat)'} = 1..Cardinality(OnMat(mat)')
              /\ \A x, y \in OnMat(mat)' :
                   /\ x[2][1] = Rounds(draws[x[1]].size)
                   /\ y[2][1] # Rounds(draws[y[1]].size)
                   => MatchAt(x)'.match_number > MatchAt(y)'.match_number]_vars
=============================================================================
