--------------------------- MODULE KyorugiResults ---------------------------
(***************************************************************************)
(* The results service of Kyorugi competitions: announcing the podium of a *)
(* weight takes back the points and medals of its previous announcement    *)
(* and gives those of the new one, in one transaction.                     *)
(*                                                                         *)
(* The page that called it is gone from the repository (its template       *)
(* announce_results.html and an unused import in admin.py remain); it      *)
(* saved the result row and called the service.                            *)
(*                                                                         *)
(* Points are counted in quarters: 7.0 is 28 and 0.25 is 1.                *)
(***************************************************************************)
EXTENDS Integers, Sequences, FiniteSets, FiniteSetsExt

CONSTANTS
    Players, Coaches, Clubs, Boards,
    Enrollments,
    Snapshot,      \* per enrollment, the [player, coach, club, board] it was made with
    Results,       \* the result rows, one per competition and weight
    ResultOf,      \* the result whose form offers an enrollment
    NULL,
    Podiums        \* choices of the form: who is placed first to fourth, or NULL

Places == 1..4

\* Who can hold points: a column of a row, named by the table's role and the row.
Subjects == ({"player"} \X Players) \cup ({"coach"} \X Coaches)
            \cup ({"club"} \X Clubs) \cup ({"board"} \X Boards)
MedalHolders == {s \in Subjects : s[1] \in {"player", "club"}}

ASSUME ResultsAssumption ==
    /\ NULL \notin Players \cup Coaches \cup Clubs \cup Boards \cup Enrollments
    /\ Snapshot \in [Enrollments -> [player : Players, coach : Coaches \cup {NULL},
                                     club : Clubs \cup {NULL}, board : Boards \cup {NULL}]]
    /\ IsFiniteSet(Results)
    /\ ResultOf \in [Enrollments -> Results]
    /\ Podiums \subseteq [Places -> Enrollments \cup {NULL}]

VARIABLES
    removed,       \* clubs and boards that staff deleted
    podium,        \* per result row, the enrollments on its places
    transactions,  \* per result row, its RankingTransactions as <<place, subject>>
    score,         \* ranking_competition of players, ranking_total of the others
    medals,        \* gold_medals, silver_medals, bronze_medals of players and clubs
    medal          \* Enrollment.medal

resultVars == <<removed, podium, transactions, score, medals, medal>>

Medals == {"gold", "silver", "bronze"}

ResultsInit ==
    /\ removed = {}
    /\ podium = [r \in Results |-> [pl \in Places |-> NULL]]
    /\ transactions = [r \in Results |-> {}]
    /\ score = [s \in Subjects |-> 0]
    /\ medals = [s \in MedalHolders |-> [m \in Medals |-> 0]]
    /\ medal = [e \in Enrollments |-> ""]

-----------------------------------------------------------------------------
MedalOf(pl) == CASE pl = 1 -> "gold" [] pl = 2 -> "silver" [] OTHER -> "bronze"

\* PLAYER_POINTS, COACH_POINTS and ORG_POINTS.
PointsOf(role, m) ==
    CASE role = "player" -> (CASE m = "gold" -> 28 [] m = "silver" -> 12 [] OTHER -> 4)
      [] role = "coach"  -> (CASE m = "gold" -> 4  [] m = "silver" -> 3  [] OTHER -> 2)
      [] OTHER           -> (CASE m = "gold" -> 3  [] m = "silver" -> 2  [] OTHER -> 1)

\* Who earns with an enrollment now: deleting a club or a board clears the
\* foreign key of the snapshot.
Earners(e) ==
    {s \in Subjects \ removed : Snapshot[e][s[1]] = s[2]}

Placed(pod) == {pl \in Places : pod[pl] # NULL}
RowsFor(pod) == UNION {{pl} \X Earners(pod[pl]) : pl \in Placed(pod)}

Count(rows, s, m) == Cardinality({row \in rows : row[2] = s /\ MedalOf(row[1]) = m})

\* What so many medals of each colour are worth to a role.
Worth(role, count) ==
    PointsOf(role, "gold") * count["gold"] + PointsOf(role, "silver") * count["silver"]
    + PointsOf(role, "bronze") * count["bronze"]
Total(rows, s) == Worth(s[1], [m \in Medals |-> Count(rows, s, m)])

\* Mutations: a counter may go below zero; or goes down by one whatever the count.
LoweredUnfloored(n, count) == n - count
LoweredByOne(n, count) == IF count = 0 \/ n = 0 THEN n ELSE n - 1

\* A counter is lowered no further than zero.
Lowered(n, count) == IF n <= count THEN 0 ELSE n - count

\* The form lets an enrollment take several places.  Each place loads its own
\* copy of the row before the first is saved, and saves it if that medal differs.
NewMedal(pod, e) ==
    LET saved == {pl \in Placed(pod) : pod[pl] = e /\ MedalOf(pl) # medal[e]}
    IN IF saved = {} THEN medal[e] ELSE MedalOf(Max(saved))

\* Mutation: the points of the previous announcement are not taken back.
AnnounceOnTop(r, pod) ==
    LET old == transactions[r]
        new == RowsFor(pod)
    IN
    /\ \A pl \in Placed(pod) : ResultOf[pod[pl]] = r
    /\ podium' = [podium EXCEPT ![r] = pod]
    /\ transactions' = [transactions EXCEPT ![r] = new]
    /\ score' = [s \in Subjects |-> IF s \in removed THEN score[s] ELSE score[s] + Total(new, s)]
    /\ medals' = [s \in MedalHolders |-> IF s \in removed THEN medals[s] ELSE
                    [m \in Medals |-> Lowered(medals[s][m], Count(old, s, m)) + Count(new, s, m)]]
    /\ medal' = [e \in Enrollments |-> NewMedal(pod, e)]
    /\ UNCHANGED removed

\* Updates of a deleted account's row change nothing.
Announce(r, pod) ==
    LET old == transactions[r]
        new == RowsFor(pod)
    IN
    /\ \A pl \in Placed(pod) : ResultOf[pod[pl]] = r
    /\ podium' = [podium EXCEPT ![r] = pod]
    /\ transactions' = [transactions EXCEPT ![r] = new]
    /\ score' = [s \in Subjects |-> IF s \in removed THEN score[s]
                                    ELSE score[s] - Total(old, s) + Total(new, s)]
    /\ medals' = [s \in MedalHolders |-> IF s \in removed THEN medals[s] ELSE
                    [m \in Medals |-> Lowered(medals[s][m], Count(old, s, m)) + Count(new, s, m)]]
    /\ medal' = [e \in Enrollments |-> NewMedal(pod, e)]
    /\ UNCHANGED removed

\* Staff delete a club or a board in the admin site.
RemoveAccount(s) ==
    /\ s[1] \in {"club", "board"} /\ s \notin removed
    /\ removed' = removed \cup {s}
    /\ UNCHANGED <<podium, transactions, score, medals, medal>>

ResultsNext ==
    \/ \E r \in Results, pod \in Podiums : Announce(r, pod)
    \/ \E s \in Subjects : RemoveAccount(s)
=============================================================================
