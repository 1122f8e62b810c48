---------------------------- MODULE BracketsProofs ----------------------------
(***************************************************************************)
(* For any groups, weights, mats and table sizes: no sequence of draws,    *)
(* numberings and clearings ever calls a match before the two that decide  *)
(* who fights in it, the history of first-round pairs is never behind the  *)
(* draws, a new table seats every entrant once, and a numbering of         *)
(* everything leaves no gap on a mat.  The client's board shows the table, *)
(* and the search that orders the entrants keeps the best order it tries.  *)
(*                                                                         *)
(* A numbering gives every match its position in the queue of its mat.     *)
(* The order of the queue is lexicographic, so that a position grows       *)
(* strictly with the rank (EarlierPosition), and a match ranks after its   *)
(* feeders; what is not in the queue has no number left (TableOK).  Slots  *)
(* and entrants are matched by counting: a table has an even number of     *)
(* slots (Doubling), no slot is left empty twice (ByeOrderIsInjective), so *)
(* there are as many open slots as entrants (OpenSlots).  The board is     *)
(* drawn from names, so it takes that the first round is the only one with *)
(* players and that nobody has two seats (BoardInv).  The price of an      *)
(* order is a sum over the pairs that meet, and so a count of repeats and  *)
(* of clashes (CostIsWeighted).                                            *)
(***************************************************************************)
EXTENDS BracketBoard, OrderSearch, FiniteSetTheorems, FunctionTheorems, WellFoundedInduction, TLAPS

\* The shape of a match; one that is passed without fighting has no number.
MatchOK(m) ==
    /\ m \in [a : {m.a}, b : {m.b}, is_bye : BOOLEAN, mat_no : {m.mat_no},
              match_number : Maybe(Nat)]
    /\ m.is_bye => m.match_number = NULL

SeatsOf(ms) == (UNION {{m.a, m.b} : m \in Range(ms)}) \ {NULL}
Feeds(f, k) == f[1] + 1 = k[1] /\ f[2] \div 2 = k[2]

InOrder(ms) ==
    \A k \in DOMAIN ms, f \in DOMAIN ms :
        /\ Feeds(f, k) /\ ms[f].match_number # NULL /\ ms[k].match_number # NULL
        => ms[f].match_number < ms[k].match_number

Sizes == {n \in Nat : n >= 2 /\ IsPow2(n)}

TableOK(d) ==
    /\ d \in [id : Nat, size : Sizes, matches : {d.matches}]
    /\ d.matches = [k \in DOMAIN d.matches |-> d.matches[k]]
    /\ DOMAIN d.matches \subseteq Keys(d.size)
    /\ \A k \in DOMAIN d.matches : MatchOK(d.matches[k])
    /\ \A k \in DOMAIN d.matches :
          d.matches[k].match_number # NULL => Cardinality(SeatsOf(d.matches)) >= 2
    /\ InOrder(d.matches)

TablesOK ==
    /\ draws = [g \in Groups |-> draws[g]]
    /\ \A g \in Drawn : TableOK(draws[g])

-----------------------------------------------------------------------------
(* Keys.                                                                   *)

LEMMA RoundsIs ==
    ASSUME NEW size \in Sizes
    PROVE  Rounds(size) \in 1..size
<1>1. \E r \in 0..size : 2^r = size
  BY DEF Sizes, IsPow2
<1>2. Rounds(size) \in 0..size /\ 2^Rounds(size) = size
  BY <1>1 DEF Rounds
<1>3. \A r : r = 0 => 2^r = 1
  OBVIOUS
<1> QED BY <1>2, <1>3 DEF Sizes

LEMMA KeysAre ==
    ASSUME NEW size \in Sizes
    PROVE  /\ Keys(size) \subseteq (1..Rounds(size)) \X Nat
           /\ IsFiniteSet(Keys(size))
           /\ {1} \X (0..(size \div 2 - 1)) \subseteq Keys(size)
<1>1. Rounds(size) \in 1..size /\ size \in Nat /\ size >= 2
  BY RoundsIs DEF Sizes
<1>2. Keys(size) \subseteq (1..Rounds(size)) \X (0..(size - 1))
  BY DEF Keys
<1>3. IsFiniteSet((1..Rounds(size)) \X (0..(size - 1)))
  <2>1. IsFiniteSet(1..Rounds(size)) /\ IsFiniteSet(0..(size - 1))
    BY <1>1, FS_Interval
  <2> QED BY <2>1, FS_Product
<1>4. ASSUME NEW k \in {1} \X (0..(size \div 2 - 1)) PROVE k \in Keys(size)
  <2>1. k[1] = 1 /\ k[2] \in 0..(size \div 2 - 1) /\ k = <<k[1], k[2]>>
    OBVIOUS
  <2>2. size \div 2 <= size
    BY <1>1
  <2>3. k \in (1..Rounds(size)) \X (0..(size - 1))
    BY <1>1, <2>1, <2>2
  <2>4. \A r : r = 1 => 2^r = 2
    OBVIOUS
  <2> QED BY <1>1, <2>1, <2>3, <2>4 DEF Keys
<1> QED BY <1>1, <1>2, <1>3, <1>4, FS_Subset

-----------------------------------------------------------------------------
(* The order of a queue.                                                   *)

Less(r, s) ==
    \/ r[1] < s[1]
    \/ r[1] = s[1] /\ r[2] < s[2]
    \/ r[1] = s[1] /\ r[2] = s[2] /\ r[3] < s[3]
    \/ r[1] = s[1] /\ r[2] = s[2] /\ r[3] = s[3] /\ r[4] < s[4]
    \/ r[1] = s[1] /\ r[2] = s[2] /\ r[3] = s[3] /\ r[4] = s[4] /\ r[5] < s[5]

Ranks == Int \X Int \X Int \X Int \X Int

LEMMA BeforeIsLess ==
    ASSUME NEW x, NEW y, Rank(x) \in Ranks, Rank(y) \in Ranks
    PROVE  Before(x, y) <=> Less(Rank(x), Rank(y))
<1> DEFINE r == Rank(x) s == Rank(y)
<1>1. Before(x, y) <=> \E i \in 1..5 : r[i] < s[i] /\ \A j \in 1..(i - 1) : r[j] = s[j]
  BY DEF Before
<1> HIDE DEF r, s
<1>2. (\E i \in 1..5 : r[i] < s[i] /\ \A j \in 1..(i - 1) : r[j] = s[j]) <=> Less(r, s)
  <2>1. ASSUME Less(r, s)
        PROVE  \E i \in 1..5 : r[i] < s[i] /\ \A j \in 1..(i - 1) : r[j] = s[j]
    <3>1. CASE r[1] < s[1]
      <4>1. \A j \in 1..(1 - 1) : r[j] = s[j]
        OBVIOUS
      <4> QED BY <3>1, <4>1
    <3>2. CASE r[1] = s[1] /\ r[2] < s[2]
      <4>1. \A j \in 1..(2 - 1) : r[j] = s[j]
        BY <3>2
      <4> QED BY <3>2, <4>1
    <3>3. CASE r[1] = s[1] /\ r[2] = s[2] /\ r[3] < s[3]
      <4>1. \A j \in 1..(3 - 1) : r[j] = s[j]
        BY <3>3
      <4> QED BY <3>3, <4>1
    <3>4. CASE r[1] = s[1] /\ r[2] = s[2] /\ r[3] = s[3] /\ r[4] < s[4]
      <4>1. \A j \in 1..(4 - 1) : r[j] = s[j]
        BY <3>4
      <4> QED BY <3>4, <4>1
    <3>5. CASE r[1] = s[1] /\ r[2] = s[2] /\ r[3] = s[3] /\ r[4] = s[4] /\ r[5] < s[5]
      <4>1. \A j \in 1..(5 - 1) : r[j] = s[j]
        BY <3>5
      <4> QED BY <3>5, <4>1
    <3> QED BY <2>1, <3>1, <3>2, <3>3, <3>4, <3>5 DEF Less
  <2>2. ASSUME NEW i \in 1..5, r[i] < s[i], \A j \in 1..(i - 1) : r[j] = s[j]
        PROVE  Less(r, s)
    <3>1. i \in {1, 2, 3, 4, 5}
      OBVIOUS
    <3>2. \A j \in {1, 2, 3, 4} : j < i => r[j] = s[j]
      BY <2>2
    <3> QED BY <2>2, <3>1, <3>2 DEF Less
  <2> QED BY <2>1, <2>2
<1> QED BY <1>1, <1>2 DEF r, s

LEMMA LessIsOrder ==
    ASSUME NEW r \in Ranks, NEW s \in Ranks, NEW t \in Ranks
    PROVE  ~Less(r, r) /\ (Less(r, s) /\ Less(s, t) => Less(r, t))
BY DEF Less, Ranks

\* In a finite queue a greater rank is a greater position.
LEMMA EarlierPosition ==
    ASSUME NEW queue, IsFiniteSet(queue), \A x \in queue : Rank(x) \in Ranks,
           NEW x \in queue, NEW y \in queue, Before(x, y)
    PROVE  Position(x, queue) \in Nat /\ Position(y, queue) \in Nat
           /\ Position(x, queue) < Position(y, queue)
<1> DEFINE before(z) == {w \in queue : Before(w, z)}
<1>1. before(x) \subseteq before(y)
  BY BeforeIsLess, LessIsOrder
<1>2. x \in before(y) /\ x \notin before(x)
  BY BeforeIsLess, LessIsOrder
<1>3. IsFiniteSet(before(x)) /\ IsFiniteSet(before(y))
  BY FS_Subset
<1>4. /\ Cardinality(before(x)) \in Nat /\ Cardinality(before(y)) \in Nat
      /\ Cardinality(before(x)) <= Cardinality(before(y))
      /\ Cardinality(before(x)) # Cardinality(before(y))
  BY <1>1, <1>2, <1>3, FS_CardinalityType, FS_Subset
<1> QED BY <1>4 DEF Position

-----------------------------------------------------------------------------
(* The queue of a mat.                                                     *)

LEMMA RankIs ==
    ASSUME TablesOK, NEW g \in Drawn, NEW k \in Keys(draws[g].size)
    PROVE  /\ Rank(<<g, k>>) =
                <<IF k[1] = Rounds(draws[g].size) THEN 2 ELSE 1,
                  IF k[1] = Rounds(draws[g].size) THEN 0 ELSE k[1],
                  WeightOf[g], draws[g].id, k[2]>>
           /\ Rank(<<g, k>>) \in Ranks
<1>1. draws[g].size \in Sizes /\ draws[g].id \in Nat /\ WeightOf[g] \in Nat
  BY BracketsAssumption DEF TablesOK, TableOK, Drawn
<1>2. k[1] \in Nat /\ k[2] \in Nat
  BY <1>1, RoundsIs, KeysAre DEF Sizes
<1> QED BY <1>1, <1>2 DEF Rank, Ranks

\* A match ranks after its feeders: the final is in the last round.
LEMMA FeederFirst ==
    ASSUME TablesOK, NEW g \in Drawn,
           NEW f \in Keys(draws[g].size), NEW k \in Keys(draws[g].size), Feeds(f, k)
    PROVE  Before(<<g, f>>, <<g, k>>)
<1>1. draws[g].size \in Sizes
  BY DEF TablesOK, TableOK, Drawn
<1>2. f[1] \in 1..Rounds(draws[g].size) /\ k[1] \in 1..Rounds(draws[g].size)
      /\ Rounds(draws[g].size) \in Nat
  BY <1>1, RoundsIs, KeysAre DEF Sizes
<1>3. f[1] + 1 = k[1]
  BY DEF Feeds
<1>4. Less(Rank(<<g, f>>), Rank(<<g, k>>))
  BY <1>2, <1>3, RankIs DEF Less
<1> QED BY <1>4, RankIs, BeforeIsLess

LEMMA PreparedIs ==
    ASSUME TablesOK, NEW g \in Drawn, NEW clear
    PROVE  LET ms == draws[g].matches  p == Prepared(g, clear) IN
           /\ p = [k \in Keys(draws[g].size) |-> p[k]]
           /\ \A k \in Keys(draws[g].size) :
                /\ MatchOK(p[k])
                /\ k \in DOMAIN ms => /\ p[k].a = ms[k].a /\ p[k].b = ms[k].b
                                      /\ p[k].is_bye = ms[k].is_bye
                                      /\ p[k].mat_no = ms[k].mat_no
                                      /\ p[k].match_number \in {NULL, ms[k].match_number}
                /\ k \notin DOMAIN ms => /\ p[k].a = NULL /\ p[k].b = NULL
                                         /\ ~p[k].is_bye /\ p[k].match_number = NULL
                                         /\ p[k].mat_no = NULL
<1> DEFINE ms == draws[g].matches
           empty == [a |-> NULL, b |-> NULL, is_bye |-> FALSE, mat_no |-> NULL, match_number |-> NULL]
           cleared2(k) == [ms[k] EXCEPT !.match_number = NULL]
<1>1. MatchOK(empty)
  BY DEF MatchOK, Maybe
<1>2. ASSUME NEW k \in DOMAIN ms
      PROVE  /\ MatchOK(ms[k]) /\ MatchOK(cleared2(k))
             /\ cleared2(k).a = ms[k].a /\ cleared2(k).b = ms[k].b
             /\ cleared2(k).is_bye = ms[k].is_bye /\ cleared2(k).match_number = NULL
             /\ cleared2(k).mat_no = ms[k].mat_no
  <2> DEFINE m == ms[k]  c == [m EXCEPT !.match_number = NULL]
  <2>1. MatchOK(m)
    BY DEF TablesOK, TableOK
  <2> HIDE DEF m
  <2>2. c \in [a : {m.a}, b : {m.b}, is_bye : {m.is_bye}, mat_no : {m.mat_no}, match_number : {NULL}]
    BY <2>1 DEF MatchOK
  <2> HIDE DEF c
  <2>3. /\ MatchOK(c) /\ c.a = m.a /\ c.b = m.b /\ c.mat_no = m.mat_no
        /\ c.is_bye = m.is_bye /\ c.match_number = NULL
    BY <2>1, <2>2 DEF MatchOK, Maybe
  <2> QED BY <2>1, <2>3 DEF c, m
<1>3. ASSUME NEW k \in Keys(draws[g].size)
      PROVE  Prepared(g, clear)[k] = IF k \notin DOMAIN ms THEN empty
                                     ELSE IF clear THEN cleared2(k) ELSE ms[k]
  BY <1>3 DEF Prepared
<1>4. Prepared(g, clear) = [k \in Keys(draws[g].size) |-> Prepared(g, clear)[k]]
  BY DEF Prepared
<1>5. /\ empty.a = NULL /\ empty.b = NULL /\ ~empty.is_bye
      /\ empty.mat_no = NULL /\ empty.match_number = NULL
  OBVIOUS
<1> HIDE DEF empty, cleared2
<1> QED BY <1>1, <1>2, <1>3, <1>4, <1>5

\* Every match of a draw in the call is in the queue of its mat, unless it is
\* passed without fighting or the draw has fewer than two players.
LEMMA QueueIs ==
    ASSUME TablesOK, NEW ws, NEW mat
    PROVE  /\ IsFiniteSet(Numberable(ws, mat))
           /\ \A x \in Numberable(ws, mat) : Rank(x) \in Ranks
           /\ \A g \in Of(ws) : \A k \in Keys(draws[g].size) :
                MatOf(g) = mat =>
                  (<<g, k>> \in Numberable(ws, mat) <=>
                     (Cardinality(Seated(g)) >= 2 /\ ~Prepared(g, FALSE)[k].is_bye))
<1> DEFINE called == {g \in Of(ws) : MatOf(g) = mat /\ Cardinality(Seated(g)) >= 2}
           part(g) == {g} \X {k \in Keys(draws[g].size) : ~Prepared(g, FALSE)[k].is_bye}
<1>1. called \subseteq Groups /\ \A g \in called : g \in Drawn
  BY DEF Of, Drawn
<1>2. \A g \in called : DOMAIN Prepared(g, FALSE) = Keys(draws[g].size)
  BY DEF Prepared
<1>3. Numberable(ws, mat) = UNION {part(g) : g \in called}
  BY <1>2 DEF Numberable
<1>4. ASSUME NEW g \in called PROVE IsFiniteSet(part(g))
  <2>1. IsFiniteSet(Keys(draws[g].size))
    BY <1>1, KeysAre DEF TablesOK, TableOK
  <2>2. IsFiniteSet({g}) /\ IsFiniteSet({k \in Keys(draws[g].size) : ~Prepared(g, FALSE)[k].is_bye})
    BY <2>1, FS_Singleton, FS_Subset
  <2> QED BY <2>2, FS_Product
<1> HIDE DEF part
<1>5. IsFiniteSet({part(g) : g \in called})
  <2> DEFINE f == [g \in called |-> part(g)]
  <2>1. IsFiniteSet(called)
    BY <1>1, BracketsAssumption, FS_Subset
  <2>2. f \in Surjection(called, {part(g) : g \in called})
    BY DEF Surjection
  <2> QED BY <2>1, <2>2, FS_Surjection
<1>6. IsFiniteSet(Numberable(ws, mat))
  <2>1. \A T \in {part(g) : g \in called} : IsFiniteSet(T)
    BY <1>4
  <2> QED BY <1>3, <1>5, <2>1, FS_UNION
<1>7. ASSUME NEW x \in Numberable(ws, mat) PROVE Rank(x) \in Ranks
  <2>1. PICK g \in called : x \in part(g)
    BY <1>3
  <2>2. PICK k \in Keys(draws[g].size) : x = <<g, k>>
    BY <2>1 DEF part
  <2> QED BY <1>1, <2>2, RankIs
<1>8. ASSUME NEW g \in Of(ws), NEW k \in Keys(draws[g].size), MatOf(g) = mat
      PROVE  <<g, k>> \in Numberable(ws, mat) <=>
                (Cardinality(Seated(g)) >= 2 /\ ~Prepared(g, FALSE)[k].is_bye)
  <2>1. \A h \in called : <<g, k>> \in part(h) <=> (h = g /\ ~Prepared(g, FALSE)[k].is_bye)
    BY DEF part
  <2>2. g \in called <=> Cardinality(Seated(g)) >= 2
    BY <1>8
  <2> QED BY <1>3, <2>1, <2>2
<1> QED BY <1>6, <1>7, <1>8
-----------------------------------------------------------------------------
(* What a numbering or a clearing makes of a table.                        *)

\* Two versions of a table with the same players; rounds may have been added.
SameSeats(ms, new) ==
    /\ DOMAIN ms \subseteq DOMAIN new
    /\ \A k \in DOMAIN ms : new[k].a = ms[k].a /\ new[k].b = ms[k].b
    /\ \A k \in DOMAIN new \ DOMAIN ms : new[k].a = NULL /\ new[k].b = NULL

LEMMA SameSeatsAreSame ==
    ASSUME NEW ms, NEW new, SameSeats(ms, new)
    PROVE  SeatsOf(new) = SeatsOf(ms) /\ Pairs(new) = Pairs(ms)
<1>1. \A k \in DOMAIN ms : {new[k].a, new[k].b} = {ms[k].a, ms[k].b}
  BY DEF SameSeats
<1>2. \A k \in DOMAIN new \ DOMAIN ms : {new[k].a, new[k].b} = {NULL}
  BY DEF SameSeats
<1>3. SeatsOf(new) = SeatsOf(ms)
  BY <1>1, <1>2 DEF SameSeats, SeatsOf, Range
<1>4. Bouts(new) = Bouts(ms)
  BY <1>1, <1>2 DEF SameSeats, Bouts
<1>5. Pairs(new) = Pairs(ms)
  BY <1>1, <1>4 DEF SameSeats, Pairs, Bouts
<1> QED BY <1>3, <1>5

LEMMA NumberedIs ==
    ASSUME TablesOK, NEW ws, NEW g \in Of(ws), NEW clear \in BOOLEAN
    PROVE  LET ms == draws[g].matches
               new == NumberedMatches(g, ws, clear)
               queue == Numberable(ws, MatOf(g))
           IN /\ new = [k \in Keys(draws[g].size) |-> new[k]]
              /\ SameSeats(ms, new)
              /\ \A k \in Keys(draws[g].size) :
                   /\ MatchOK(new[k])
                   /\ new[k].match_number =
                        IF <<g, k>> \in queue THEN Position(<<g, k>>, queue) ELSE NULL
                   /\ new[k].mat_no =
                        LET old == IF k \in DOMAIN ms THEN ms[k].mat_no ELSE NULL
                        IN IF <<g, k>> \in queue /\ old = NULL THEN MatOf(g) ELSE old
<1> DEFINE ms == draws[g].matches
           new == NumberedMatches(g, ws, clear)
           queue == Numberable(ws, MatOf(g))
           p == Prepared(g, clear)
<1>0. g \in Drawn /\ DOMAIN ms \subseteq Keys(draws[g].size)
  BY DEF Of, TablesOK, TableOK
<1>1. DOMAIN p = Keys(draws[g].size)
  BY DEF Prepared
<1>2. new = [k \in Keys(draws[g].size) |-> new[k]]
  BY <1>1 DEF NumberedMatches
<1>3. ASSUME NEW k \in Keys(draws[g].size)
      PROVE  /\ MatchOK(new[k]) /\ new[k].a = p[k].a /\ new[k].b = p[k].b
             /\ new[k].match_number =
                  IF <<g, k>> \in queue THEN Position(<<g, k>>, queue) ELSE NULL
             /\ new[k].mat_no = IF <<g, k>> \in queue /\ p[k].mat_no = NULL THEN MatOf(g) ELSE p[k].mat_no
  <2> DEFINE m == p[k]
             mat == IF m.mat_no = NULL THEN MatOf(g) ELSE m.mat_no
             number == Position(<<g, k>>, queue)
             c == [m EXCEPT !.mat_no = IF @ = NULL THEN MatOf(g) ELSE @, !.match_number = number]
  <2>1. MatchOK(m)
    BY <1>0, PreparedIs
  <2>2. new[k] = IF <<g, k>> \in queue THEN c ELSE m
    BY <1>1 DEF NumberedMatches
  <2>3. <<g, k>> \in queue <=> (Cardinality(SeatsOf(ms)) >= 2 /\ ~m.is_bye)
    <3>1. Prepared(g, FALSE)[k].is_bye <=> m.is_bye
      <4>1. Prepared(g, FALSE)[k].is_bye <=> k \in DOMAIN ms /\ ms[k].is_bye
        BY <1>0, PreparedIs
      <4>2. p[k].is_bye <=> k \in DOMAIN ms /\ ms[k].is_bye
        BY <1>0, PreparedIs
      <4> HIDE DEF ms, p
      <4> QED BY <4>1, <4>2
    <3>2. Seated(g) = SeatsOf(ms)
      BY DEF Seated, SeatsOf
    <3>3. <<g, k>> \in queue <=> (Cardinality(Seated(g)) >= 2 /\ ~Prepared(g, FALSE)[k].is_bye)
      BY QueueIs
    <3> HIDE DEF queue, m
    <3> QED BY <3>1, <3>2, <3>3
  <2>4. number \in Nat
    <3> DEFINE earlier == {y \in queue : Before(y, <<g, k>>)}
    <3>1. IsFiniteSet(earlier)
      BY QueueIs, FS_Subset
    <3>2. Cardinality(earlier) \in Nat
      BY <3>1, FS_CardinalityType
    <3> QED BY <3>2 DEF Position
  <2>5. <<g, k>> \notin queue => m.match_number = NULL
    <3>1. m.match_number # NULL => k \in DOMAIN ms /\ ms[k].match_number = m.match_number
      BY <1>0, PreparedIs
    <3>2. m.match_number # NULL => Cardinality(SeatsOf(ms)) >= 2
      BY <1>0, <3>1 DEF TablesOK, TableOK
    <3> QED BY <2>1, <2>3, <3>2 DEF MatchOK
  <2> HIDE DEF m, number, mat
  <2>6. c \in [a : {m.a}, b : {m.b}, is_bye : {m.is_bye}, mat_no : {mat}, match_number : {number}]
    BY <2>1 DEF MatchOK, mat
  <2> HIDE DEF c
  <2>7. /\ c.a = m.a /\ c.b = m.b /\ c.match_number = number /\ c.mat_no = mat
        /\ ~m.is_bye => MatchOK(c)
    BY <2>1, <2>4, <2>6 DEF MatchOK, Maybe
  <2> QED BY <2>1, <2>2, <2>3, <2>5, <2>7 DEF m, number, mat
<1>4. SameSeats(ms, new)
  <2>1. DOMAIN new = Keys(draws[g].size)
    BY <1>2
  <2>2. \A k \in DOMAIN ms : p[k].a = ms[k].a /\ p[k].b = ms[k].b
    BY <1>0, PreparedIs
  <2>3. \A k \in Keys(draws[g].size) \ DOMAIN ms : p[k].a = NULL /\ p[k].b = NULL
    BY <1>0, PreparedIs
  <2> HIDE DEF new, p, ms
  <2> QED BY <1>0, <1>3, <2>1, <2>2, <2>3 DEF SameSeats, ms
<1>5. \A k \in Keys(draws[g].size) : p[k].mat_no = IF k \in DOMAIN ms THEN ms[k].mat_no ELSE NULL
  BY <1>0, PreparedIs
<1> HIDE DEF new, p, ms, queue
<1>6. \A k \in Keys(draws[g].size) :
        new[k].mat_no = LET old == IF k \in DOMAIN ms THEN ms[k].mat_no ELSE NULL
                        IN IF <<g, k>> \in queue /\ old = NULL THEN MatOf(g) ELSE old
  BY <1>3, <1>5
<1> QED BY <1>2, <1>3, <1>4, <1>6 DEF new, ms, queue

\* In one numbering the positions in the queue agree with the tree.
LEMMA NumberedInOrder ==
    ASSUME TablesOK, NEW ws, NEW g \in Of(ws), NEW clear \in BOOLEAN
    PROVE  InOrder(NumberedMatches(g, ws, clear))
<1> DEFINE new == NumberedMatches(g, ws, clear)
           queue == Numberable(ws, MatOf(g))
<1>1. g \in Drawn /\ DOMAIN new = Keys(draws[g].size)
  BY NumberedIs DEF Of
<1>2. ASSUME NEW k \in DOMAIN new, NEW f \in DOMAIN new, Feeds(f, k),
             new[f].match_number # NULL, new[k].match_number # NULL
      PROVE  new[f].match_number < new[k].match_number
  <2>1. /\ <<g, f>> \in queue /\ new[f].match_number = Position(<<g, f>>, queue)
        /\ <<g, k>> \in queue /\ new[k].match_number = Position(<<g, k>>, queue)
    BY <1>1, <1>2, NumberedIs
  <2>2. Before(<<g, f>>, <<g, k>>)
    BY <1>1, <1>2, FeederFirst
  <2> QED BY <2>1, <2>2, QueueIs, EarlierPosition
<1> QED BY <1>2 DEF InOrder

\* A table that only has its matches replaced.
LEMMA ReplacedTable ==
    ASSUME NEW d, TableOK(d), NEW new, new = [k \in DOMAIN new |-> new[k]],
           DOMAIN new \subseteq Keys(d.size), \A k \in DOMAIN new : MatchOK(new[k]),
           SameSeats(d.matches, new), InOrder(new),
           \A k \in DOMAIN new : new[k].match_number # NULL => Cardinality(SeatsOf(d.matches)) >= 2
    PROVE  LET e == [d EXCEPT !.matches = new] IN
           /\ TableOK(e) /\ e.id = d.id /\ e.matches = new /\ Pairs(e.matches) = Pairs(d.matches)
<1> DEFINE e == [d EXCEPT !.matches = new]
<1>1. e \in [id : {d.id}, size : {d.size}, matches : {new}] /\ d.id \in Nat /\ d.size \in Sizes
  BY DEF TableOK
<1> HIDE DEF e
<1>2. e.id = d.id /\ e.size = d.size /\ e.matches = new
  BY <1>1
<1>3. SeatsOf(new) = SeatsOf(d.matches) /\ Pairs(new) = Pairs(d.matches)
  BY SameSeatsAreSame
<1>4. TableOK(e)
  BY <1>1, <1>2, <1>3 DEF TableOK
<1> QED BY <1>2, <1>3, <1>4 DEF e
LEMMA ClearedTable ==
    ASSUME NEW d, TableOK(d)
    PROVE  LET new == [k \in DOMAIN d.matches |-> [d.matches[k] EXCEPT !.match_number = NULL]]
               e == [d EXCEPT !.matches = new]
           IN TableOK(e) /\ e.id = d.id /\ Pairs(e.matches) = Pairs(d.matches)
<1> DEFINE ms == d.matches
           new == [k \in DOMAIN ms |-> [ms[k] EXCEPT !.match_number = NULL]]
<1>1. ASSUME NEW k \in DOMAIN ms
      PROVE  /\ MatchOK(new[k]) /\ new[k].match_number = NULL
             /\ new[k].a = ms[k].a /\ new[k].b = ms[k].b
  <2> DEFINE m == ms[k]  c == [m EXCEPT !.match_number = NULL]
  <2>1. MatchOK(m)
    BY DEF TableOK
  <2> HIDE DEF m
  <2>2. c \in [a : {m.a}, b : {m.b}, is_bye : {m.is_bye}, mat_no : {m.mat_no}, match_number : {NULL}]
    BY <2>1 DEF MatchOK
  <2> HIDE DEF c
  <2>3. MatchOK(c) /\ c.match_number = NULL /\ c.a = m.a /\ c.b = m.b
    BY <2>1, <2>2 DEF MatchOK, Maybe
  <2> QED BY <2>3 DEF c, m
<1>2. new = [k \in DOMAIN new |-> new[k]] /\ DOMAIN new = DOMAIN ms /\ DOMAIN ms \subseteq Keys(d.size)
  BY DEF TableOK
<1> HIDE DEF new
<1>3. InOrder(new) /\ SameSeats(ms, new)
  BY <1>1, <1>2 DEF InOrder, SameSeats
<1>4. TableOK([d EXCEPT !.matches = new])
      /\ [d EXCEPT !.matches = new].id = d.id
      /\ Pairs([d EXCEPT !.matches = new].matches) = Pairs(ms)
  BY <1>1, <1>2, <1>3, ReplacedTable
<1> QED BY <1>4 DEF new

LEMMA NumberedTable ==
    ASSUME TablesOK, NEW ws, NEW g \in Of(ws), NEW clear \in BOOLEAN
    PROVE  LET e == [draws[g] EXCEPT !.matches = NumberedMatches(g, ws, clear)]
           IN TableOK(e) /\ e.id = draws[g].id /\ Pairs(e.matches) = Pairs(draws[g].matches)
<1> DEFINE new == NumberedMatches(g, ws, clear)
           queue == Numberable(ws, MatOf(g))
<1>1. /\ new = [k \in DOMAIN new |-> new[k]] /\ DOMAIN new = Keys(draws[g].size)
      /\ \A k \in DOMAIN new : MatchOK(new[k])
      /\ SameSeats(draws[g].matches, new) /\ InOrder(new)
      /\ TableOK(draws[g])
  <2>1. /\ new = [k \in Keys(draws[g].size) |-> new[k]]
        /\ \A k \in Keys(draws[g].size) : MatchOK(new[k])
        /\ SameSeats(draws[g].matches, new)
    <3>1. new = [k \in Keys(draws[g].size) |-> new[k]]
      BY NumberedIs
    <3>2. SameSeats(draws[g].matches, new)
      BY NumberedIs
    <3>3. ASSUME NEW k \in Keys(draws[g].size) PROVE MatchOK(new[k])
      <4> HIDE DEF queue
      <4> QED BY NumberedIs
    <3> HIDE DEF new
    <3> QED BY <3>1, <3>2, <3>3
  <2>2. InOrder(new) /\ TableOK(draws[g])
    BY NumberedInOrder DEF Of, TablesOK
  <2> HIDE DEF new
  <2> QED BY <2>1, <2>2
<1>2. ASSUME NEW k \in DOMAIN new, new[k].match_number # NULL
      PROVE  Cardinality(SeatsOf(draws[g].matches)) >= 2
  <2>1. <<g, k>> \in queue
    BY <1>1, <1>2, NumberedIs
  <2>2. Cardinality(Seated(g)) >= 2
    BY <1>1, <2>1, QueueIs
  <2> QED BY <2>2 DEF Seated, SeatsOf
<1> HIDE DEF new
<1>3. LET e == [draws[g] EXCEPT !.matches = new]
      IN TableOK(e) /\ e.id = draws[g].id /\ Pairs(e.matches) = Pairs(draws[g].matches)
  BY <1>1, <1>2, ReplacedTable
<1> QED BY <1>3 DEF new

-----------------------------------------------------------------------------
(* A new draw.                                                             *)

LEMMA SizeIs ==
    ASSUME NEW requested, IsPow2(requested), NEW count
    PROVE  DrawSize(requested, count) \in Sizes
<1>1. IsPow2(2) /\ IsPow2(4)
  <2>1. PICK r, s : r = 1 /\ s = 2
    OBVIOUS
  <2>2. r \in 0..2 /\ 2^r = 2 /\ s \in 0..4 /\ 2^s = 4
    BY <2>1
  <2> QED BY <2>2 DEF IsPow2
<1>2. requested \in Nat
  BY DEF IsPow2
<1> QED BY <1>1, <1>2 DEF DrawSize, Sizes

LEMMA NewTable ==
    ASSUME NEW size \in Sizes, NEW seats, NEW id \in Nat
    PROVE  TableOK([id |-> id, size |-> size, matches |-> FirstRoundMatches(size, seats)])
<1> DEFINE ms == FirstRoundMatches(size, seats)
           d == [id |-> id, size |-> size, matches |-> ms]
<1>1. DOMAIN ms = {1} \X (0..(size \div 2 - 1)) /\ ms = [k \in DOMAIN ms |-> ms[k]]
  BY DEF FirstRoundMatches
<1>2. ASSUME NEW k \in DOMAIN ms PROVE MatchOK(ms[k]) /\ ms[k].match_number = NULL
  <2> DEFINE x == seats[2 * k[2] + 1]  y == seats[2 * k[2] + 2]
             m == [a |-> x, b |-> y, is_bye |-> NULL \in {x, y}, mat_no |-> NULL, match_number |-> NULL]
  <2>1. ms[k] = m
    BY <1>1 DEF FirstRoundMatches
  <2>2. (NULL \in {x, y}) \in BOOLEAN
    OBVIOUS
  <2>3. MatchOK(m) /\ m.match_number = NULL
    BY <2>2 DEF MatchOK, Maybe
  <2> QED BY <2>1, <2>3
<1> HIDE DEF ms
<1>3. InOrder(ms)
  BY <1>2 DEF InOrder
<1>4. DOMAIN ms \subseteq Keys(size)
  BY <1>1, KeysAre
<1> QED BY <1>1, <1>2, <1>3, <1>4 DEF TableOK, ms

-----------------------------------------------------------------------------
(* The invariant.                                                          *)

HistoryOK ==
    /\ lastId \in Nat /\ cleared \in 0..lastId
    /\ \A g \in Drawn : draws[g].id <= lastId
    /\ history = [g \in Groups |-> history[g]]
    /\ PairsRemembered

TablesInv == TablesOK /\ HistoryOK

\* A step that changes nothing of a table but its numbers.
LEMMA SamePairs ==
    ASSUME TablesInv, UNCHANGED <<lastId, history, cleared>>,
           draws' = [g \in Groups |-> draws'[g]],
           \A g \in Groups : draws'[g] # draws[g] =>
               /\ g \in Drawn /\ TableOK(draws'[g]) /\ draws'[g].id = draws[g].id
               /\ Pairs(draws'[g].matches) = Pairs(draws[g].matches)
    PROVE  TablesInv'
<1>1. Drawn' \subseteq Drawn
  BY DEF Drawn
<1>2. \A g \in Drawn' : /\ TableOK(draws'[g]) /\ draws'[g].id = draws[g].id
                        /\ Pairs(draws'[g].matches) = Pairs(draws[g].matches)
  BY <1>1 DEF TablesInv, TablesOK, Drawn
<1>3. TablesOK'
  BY <1>2 DEF TablesOK, Drawn
<1>4. HistoryOK'
  BY <1>1, <1>2 DEF TablesInv, HistoryOK, PairsRemembered
<1> QED BY <1>3, <1>4 DEF TablesInv
LEMMA CreateDrawKeeps ==
    ASSUME TablesInv, NEW g \in Groups, NEW requested, IsPow2(requested), NEW order,
           NEW newYear \in BOOLEAN, CreateDraw(g, requested, order, newYear)
    PROVE  TablesInv'
<1> DEFINE size == DrawSize(requested, Len(entrants[g]))
           ms == FirstRoundMatches(size, [s \in 1..size |-> Seat(size, order, s)])
           d == [id |-> lastId + 1, size |-> size, matches |-> ms]
<1>1. TableOK(d) /\ lastId \in Nat
  BY SizeIs, NewTable DEF TablesInv, HistoryOK
<1>2. /\ draws' = [draws EXCEPT ![g] = d] /\ lastId' = lastId + 1
      /\ history' = [h \in Groups |->
            IF newYear THEN {} ELSE history[h] \cup IF h = g THEN Pairs(ms) ELSE {}]
      /\ cleared' = IF newYear THEN lastId + 1 ELSE cleared
  BY DEF CreateDraw
<1>3. d.id = lastId + 1 /\ d.matches = ms
  OBVIOUS
<1> HIDE DEF d, ms
<1>4. /\ draws' = [h \in Groups |-> draws'[h]] /\ draws'[g] = d
      /\ \A h \in Groups \ {g} : draws'[h] = draws[h]
  BY <1>2 DEF TablesInv, TablesOK
<1>5. TablesOK'
  BY <1>1, <1>4 DEF TablesInv, TablesOK, Drawn
<1>6. ASSUME NEW h \in Drawn'
      PROVE  /\ draws'[h].id <= lastId'
             /\ IF draws'[h].id > cleared' THEN Pairs(draws'[h].matches) \subseteq history'[h]
                ELSE history'[h] = {}
  <2>1. CASE h = g
    BY <1>1, <1>2, <1>3, <1>4, <2>1 DEF TablesInv, HistoryOK, Drawn
  <2>2. CASE h # g
    <3>1. h \in Drawn /\ draws'[h] = draws[h] /\ draws[h].id \in Nat
      BY <1>4, <2>2 DEF Drawn, TablesInv, TablesOK, TableOK
    <3> QED BY <1>1, <1>2, <2>2, <3>1 DEF TablesInv, HistoryOK, PairsRemembered, Drawn
  <2> QED BY <2>1, <2>2
<1>7. HistoryOK'
  BY <1>1, <1>2, <1>6 DEF TablesInv, HistoryOK, PairsRemembered
<1> QED BY <1>5, <1>7 DEF TablesInv

LEMMA NumberKeeps ==
    ASSUME TablesInv, NEW ws, NEW clear \in BOOLEAN, Number(ws, clear)
    PROVE  TablesInv'
<1>1. ASSUME NEW g \in Groups, draws'[g] # draws[g]
      PROVE  /\ g \in Drawn /\ TableOK(draws'[g]) /\ draws'[g].id = draws[g].id
             /\ Pairs(draws'[g].matches) = Pairs(draws[g].matches)
  <2>1. g \in Of(ws) /\ draws'[g] = [draws[g] EXCEPT !.matches = NumberedMatches(g, ws, clear)]
    BY <1>1 DEF Number
  <2> QED BY <2>1, NumberedTable DEF Of, TablesInv
<1> QED BY <1>1, SamePairs DEF Number

LEMMA ClearKeeps == ASSUME TablesInv, NEW ws, ClearNumbers(ws) PROVE TablesInv'
<1>1. ASSUME NEW g \in Groups, draws'[g] # draws[g]
      PROVE  /\ g \in Drawn /\ TableOK(draws'[g]) /\ draws'[g].id = draws[g].id
             /\ Pairs(draws'[g].matches) = Pairs(draws[g].matches)
  <2> DEFINE d == draws[g]
  <2>1. g \in Of(ws)
        /\ draws'[g] = [d EXCEPT !.matches =
                          [k \in DOMAIN d.matches |-> [d.matches[k] EXCEPT !.match_number = NULL]]]
    BY <1>1 DEF ClearNumbers
  <2>2. TableOK(d) /\ g \in Drawn
    BY <2>1 DEF Of, TablesInv, TablesOK
  <2> HIDE DEF d
  <2>3. TableOK(draws'[g]) /\ draws'[g].id = d.id /\ Pairs(draws'[g].matches) = Pairs(d.matches)
    BY <2>1, <2>2, ClearedTable
  <2> QED BY <2>2, <2>3 DEF d
<1> QED BY <1>1, SamePairs DEF ClearNumbers

-----------------------------------------------------------------------------
\* At every moment of a competition the tables are well formed, what has a
\* number was in the queue of a mat, and the history is up to date
\* (draw_service.py 169-348, numbering_service.py 114-244).
THEOREM TablesInductive == Spec => []TablesInv
<1>1. Init => TablesInv
  BY DEF Init, TablesInv, TablesOK, HistoryOK, PairsRemembered, Drawn
<1>2. TablesInv /\ [Next]_vars => TablesInv'
  <2> SUFFICES ASSUME TablesInv, [Next]_vars PROVE TablesInv'
    OBVIOUS
  <2>1. CASE UNCHANGED <<draws, lastId, history, cleared>>
    <3>1. draws = [g \in Groups |-> draws[g]]
      BY DEF TablesInv, TablesOK
    <3> QED BY <2>1, <3>1, SamePairs
  <2>2. ASSUME NEW g \in Groups, StartDraw(g) PROVE TablesInv'
    BY <2>1, <2>2, CreateDrawKeeps DEF StartDraw
  <2>3. ASSUME NEW ws, (\E clear \in BOOLEAN : Number(ws, clear)) \/ ClearNumbers(ws)
        PROVE  TablesInv'
    BY <2>3, NumberKeeps, ClearKeeps
  <2>4. CASE \/ UNCHANGED vars \/ Publish \/ Unpublish
             \/ \E g \in Groups, p \in Players : Enroll(g, p)
             \/ \E w \in Weights, mats \in Assignments : AssignMats(w, mats)
             \/ \E g \in Groups : CountEntrants(g)
    BY <2>1, <2>4 DEF vars, Publish, Unpublish, Enroll, AssignMats, CountEntrants
  <2> QED BY <2>2, <2>3, <2>4 DEF Next
<1> QED BY <1>1, <1>2, PTL DEF Spec

\* BoutsInOrder: whatever weights are numbered together, however often and in
\* which order, no match is ever called before the two matches that feed it,
\* for tables of every size (numbering_service.py 185-235).
THEOREM CalledInOrder == Spec => []BoutsInOrder
<1>1. TablesInv => BoutsInOrder
  BY DEF TablesInv, TablesOK, TableOK, InOrder, Feeds, BoutsInOrder
<1> QED BY <1>1, TablesInductive, PTL

\* PairsRemembered: the next draw of a group knows the pairs of every draw that
\* stands, since the last 1 Farvardin (draw_service.py 320-347).
THEOREM HistoryUpToDate == Spec => []PairsRemembered
<1>1. TablesInv => PairsRemembered
  BY DEF TablesInv, HistoryOK
<1> QED BY <1>1, TablesInductive, PTL

-----------------------------------------------------------------------------
(* Tables have an even number of slots, and no slot is left empty twice.   *)

\* A power of two above 1 is even: half of the subsets of 1..k leave k out.
LEMMA Doubling ==
    ASSUME NEW k \in Nat, k >= 1
    PROVE  2^(k - 1) \in Nat /\ 2^k = 2^(k - 1) + 2^(k - 1)
<1> DEFINE without == SUBSET (1..(k - 1))
           with == {T \cup {k} : T \in without}
           f == [T \in without |-> T \cup {k}]
<1>1. IsFiniteSet(1..k) /\ Cardinality(1..k) = k /\ IsFiniteSet(1..(k - 1)) /\ Cardinality(1..(k - 1)) = k - 1
  BY FS_Interval
<1>2. /\ Cardinality(SUBSET (1..k)) = 2^k
      /\ IsFiniteSet(without) /\ Cardinality(without) = 2^(k - 1) /\ Cardinality(without) \in Nat
  BY <1>1, FS_SUBSET, FS_CardinalityType
<1>3. f \in Bijection(without, with)
  <2>1. f \in [without -> with]
    OBVIOUS
  <2>2. ASSUME NEW S \in without, NEW T \in without, f[S] = f[T] PROVE S = T
    <3>1. S \cup {k} = T \cup {k} /\ k \notin S /\ k \notin T
      BY <2>2
    <3> QED BY <3>1
  <2>3. \A U \in with : \E T \in without : f[T] = U
    OBVIOUS
  <2> QED BY <2>1, <2>2, <2>3, Fun_IsBij
<1>4. IsFiniteSet(with) /\ Cardinality(with) = 2^(k - 1)
  <2> HIDE DEF f, with, without
  <2>1. ExistsBijection(without, with)
    BY <1>3, Fun_ExistsBij
  <2> QED BY <1>2, <2>1, FS_Bijection
<1>5. without \cap with = {}
  <2>1. ASSUME NEW T \in without PROVE T \notin with
    <3>1. k \notin T
      OBVIOUS
    <3> QED BY <3>1
  <2> QED BY <2>1
<1>6. SUBSET (1..k) = without \cup with
  <2>1. ASSUME NEW T \in SUBSET (1..k), T \notin without PROVE T \in with
    <3>1. k \in T /\ T \ {k} \in without
      BY <2>1
    <3>2. T = (T \ {k}) \cup {k}
      BY <3>1
    <3> QED BY <3>1, <3>2
  <2>2. \A T \in without \cup with : T \in SUBSET (1..k)
    OBVIOUS
  <2> QED BY <2>1, <2>2
<1> HIDE DEF without, with
<1>7. Cardinality(without \cup with) = Cardinality(without) + Cardinality(with) - Cardinality({})
  BY <1>2, <1>4, <1>5, FS_Union
<1>8. Cardinality({}) = 0
  BY FS_EmptySet
<1> DEFINE p == 2^(k - 1)
<1>9. p \in Nat /\ 2^k = p + p
  <2> HIDE DEF p
  <2>1. Cardinality(without) = p /\ Cardinality(with) = p
    BY <1>2, <1>4 DEF p
  <2>2. 2^k = Cardinality(without \cup with)
    BY <1>2, <1>6
  <2>3. p \in Nat
    BY <1>2 DEF p
  <2> QED BY <1>7, <1>8, <2>1, <2>2, <2>3
<1> QED BY <1>9

LEMMA SizesAreEven == ASSUME NEW size \in Sizes PROVE size % 2 = 0
<1>1. PICK r \in 0..size : 2^r = size
  BY DEF Sizes, IsPow2
<1>2. r # 0
  <2>1. \A q : q = 0 => 2^q = 1
    OBVIOUS
  <2> QED BY <1>1, <2>1 DEF Sizes
<1>3. PICK h \in Nat : size = h + h
  BY <1>1, <1>2, Doubling
<1> QED BY <1>3

LEMMA ByeOrder64 ==
    /\ \A k \in 1..64 : ByeOrderMap[64][k] \in 1..64
    /\ \A j, k \in 1..64 : ByeOrderMap[64][j] = ByeOrderMap[64][k] => j = k
<1>1. ASSUME NEW k \in 1..64 PROVE ByeOrderMap[64][k] \in 1..64
  BY DEF ByeOrderMap
<1>2. ASSUME NEW j \in 1..64, NEW k \in 1..64, ByeOrderMap[64][j] = ByeOrderMap[64][k] PROVE j = k
  BY <1>2 DEF ByeOrderMap
<1> QED BY <1>1, <1>2

\* The slots left empty are pairwise different, in a table of any even size.
LEMMA ByeOrderIsInjective ==
    ASSUME NEW size \in Nat, size >= 2, size % 2 = 0
    PROVE  /\ \A k \in 1..size : ByeOrder(size)[k] \in 1..size
           /\ \A j, k \in 1..size : ByeOrder(size)[j] = ByeOrder(size)[k] => j = k
<1>1. CASE size \notin {2, 4, 8, 16, 32, 64}
  <2> DEFINE slot(k) == IF k % 2 = 1 THEN size - k \div 2 ELSE k \div 2
  <2>1. \A k \in 1..size : ByeOrder(size)[k] = slot(k)
    BY <1>1 DEF ByeOrder, ByeOrderMap
  <2>2. PICK half \in Nat : size = 2 * half
    BY Z3
  <2>3. ASSUME NEW k \in 1..size
        PROVE  \E h \in Nat : \/ k = 2 * h /\ slot(k) = h /\ h \in 1..half
                              \/ k = 2 * h + 1 /\ slot(k) = size - h /\ h < half
    <3>1. CASE k % 2 = 1
      BY <2>2, <3>1
    <3>2. CASE k % 2 = 0
      BY <2>2, <3>2
    <3> QED BY <3>1, <3>2
  <2>4. \A k \in 1..size : slot(k) \in 1..size
    BY <2>2, <2>3
  <2>5. ASSUME NEW j \in 1..size, NEW k \in 1..size, slot(j) = slot(k) PROVE j = k
    <3>1. PICK g \in Nat : \/ j = 2 * g /\ slot(j) = g /\ g \in 1..half
                           \/ j = 2 * g + 1 /\ slot(j) = size - g /\ g < half
      BY <2>3
    <3>2. PICK h \in Nat : \/ k = 2 * h /\ slot(k) = h /\ h \in 1..half
                           \/ k = 2 * h + 1 /\ slot(k) = size - h /\ h < half
      BY <2>3
    <3> HIDE DEF slot
    <3> QED BY <2>2, <2>5, <3>1, <3>2
  <2> QED BY <2>1, <2>4, <2>5
<1>2. CASE size \in {2, 4, 8}
  <2>1. CASE size = 2
    BY <2>1 DEF ByeOrder, ByeOrderMap
  <2>2. CASE size = 4
    BY <2>2 DEF ByeOrder, ByeOrderMap
  <2>3. CASE size = 8
    BY <2>3 DEF ByeOrder, ByeOrderMap
  <2> QED BY <1>2, <2>1, <2>2, <2>3
<1>3. CASE size = 16
  BY <1>3 DEF ByeOrder, ByeOrderMap
<1>4. CASE size = 32
  BY <1>4 DEF ByeOrder, ByeOrderMap
<1>5. CASE size = 64
  <2>1. ByeOrder(size) = ByeOrderMap[64]
    BY <1>5 DEF ByeOrder, ByeOrderMap
  <2>2. 1..size = 1..64
    BY <1>5
  <2> DEFINE slots == 1..64  m == ByeOrderMap[64]
  <2>3. (\A k \in slots : m[k] \in slots) /\ (\A j, k \in slots : m[j] = m[k] => j = k)
    BY ByeOrder64
  <2>4. 1..size = slots /\ ByeOrder(size) = m
    BY <2>1, <2>2
  <2> HIDE DEF slots, m
  <2> QED BY <2>3, <2>4
<1> QED BY <1>1, <1>2, <1>3, <1>4, <1>5

-----------------------------------------------------------------------------
(* Dealing an order to the open slots.                                     *)

\* The open slots of a table that holds the order, and how many there are up
\* to a slot.
Open(size, n) == (1..size) \ ByeSlots(size, size - n)
Nth(size, n) == [s \in Open(size, n) |-> Cardinality({t \in 1..s : t \notin ByeSlots(size, size - n)})]

\* There are as many open slots as players, and counting them from the top
\* meets each player once.
LEMMA OpenSlots ==
    ASSUME NEW size \in Sizes, NEW n \in 0..size
    PROVE  /\ IsFiniteSet(Open(size, n)) /\ Cardinality(Open(size, n)) = n
           /\ Nth(size, n) \in Bijection(Open(size, n), 1..n)
           /\ \A s, t \in Open(size, n) : s < t => Nth(size, n)[s] < Nth(size, n)[t]
           /\ ByeSlots(size, size - n) \subseteq 1..size
           /\ Cardinality(ByeSlots(size, size - n)) = size - n
<1> DEFINE E == ByeSlots(size, size - n)
           open == (1..size) \ E
           above(s) == {t \in 1..s : t \notin E}
           nth == [s \in open |-> Cardinality(above(s))]
<1>1. size \in Nat /\ size >= 2 /\ size % 2 = 0 /\ n \in Nat /\ size - n \in 0..size
  BY SizesAreEven DEF Sizes
<1>2. E \subseteq 1..size /\ IsFiniteSet(E) /\ Cardinality(E) = size - n
  <2> DEFINE f == [k \in 1..(size - n) |-> ByeOrder(size)[k]]
  <2>1. /\ \A k \in 1..(size - n) : ByeOrder(size)[k] \in 1..size
        /\ \A j, k \in 1..(size - n) : ByeOrder(size)[j] = ByeOrder(size)[k] => j = k
    BY <1>1, ByeOrderIsInjective
  <2>2. E = {ByeOrder(size)[k] : k \in 1..(size - n)}
    BY DEF ByeSlots
  <2>3. f \in Bijection(1..(size - n), E)
    <3>1. f \in [1..(size - n) -> E] /\ \A t \in E : \E k \in 1..(size - n) : f[k] = t
      BY <2>2
    <3>2. \A j, k \in 1..(size - n) : f[j] = f[k] => j = k
      BY <2>1
    <3> HIDE DEF f, E
    <3> QED BY <3>1, <3>2, Fun_IsBij
  <2>4. ExistsBijection(1..(size - n), E)
    <3> HIDE DEF f, E
    <3> QED BY <2>3, Fun_ExistsBij
  <2>5. IsFiniteSet(1..(size - n)) /\ Cardinality(1..(size - n)) = size - n
    BY <1>1, FS_Interval
  <2>6. IsFiniteSet(E) /\ Cardinality(E) = size - n
    <3> HIDE DEF E
    <3> QED BY <2>4, <2>5, FS_Bijection
  <2> QED BY <2>1, <2>2, <2>6
<1> HIDE DEF E
<1>3. IsFiniteSet(1..size) /\ Cardinality(1..size) = size
  BY <1>1, FS_Interval
<1>4. IsFiniteSet(open) /\ Cardinality(open) = n
  <2>1. (1..size) \cap E = E
    BY <1>2
  <2>2. IsFiniteSet(open) /\ Cardinality(open) = Cardinality(1..size) - Cardinality((1..size) \cap E)
    BY <1>3, FS_Difference
  <2>3. Cardinality((1..size) \cap E) = size - n /\ Cardinality(1..size) = size
    BY <1>2, <1>3, <2>1
  <2> HIDE DEF open
  <2> QED BY <1>1, <2>2, <2>3
<1>5. ASSUME NEW s \in open
      PROVE  /\ above(s) \in SUBSET open /\ s \in above(s) /\ IsFiniteSet(above(s))
             /\ Cardinality(above(s)) \in 1..n
  <2>1. above(s) \in SUBSET open /\ s \in above(s)
    BY <1>1
  <2>2. IsFiniteSet(above(s)) /\ Cardinality(above(s)) <= n
    BY <1>4, <2>1, FS_Subset
  <2>3. Cardinality(above(s)) \in Nat /\ Cardinality(above(s)) # 0
    BY <2>1, <2>2, FS_CardinalityType, FS_EmptySet
  <2> QED BY <1>1, <2>1, <2>2, <2>3
<1>6. ASSUME NEW s \in open, NEW t \in open, s < t
      PROVE  Cardinality(above(s)) < Cardinality(above(t))
  <2>1. above(s) \in SUBSET above(t) /\ t \notin above(s) /\ t \in above(t) /\ IsFiniteSet(above(t))
    BY <1>1, <1>5, <1>6
  <2>2. Cardinality(above(s)) \in Nat /\ Cardinality(above(t)) \in Nat
    BY <1>5
  <2> HIDE DEF above
  <2>3. above(s) # above(t)
    BY <2>1
  <2>4. Cardinality(above(s)) <= Cardinality(above(t)) /\ Cardinality(above(s)) # Cardinality(above(t))
    BY <2>1, <2>3, FS_Subset
  <2> QED BY <2>2, <2>4
<1> HIDE DEF above
<1>7. nth \in Injection(open, 1..n)
  <2>1. nth \in [open -> 1..n]
    BY <1>5
  <2>2. ASSUME NEW s \in open, NEW t \in open, nth[s] = nth[t] PROVE s = t
    <3>1. s \in Int /\ t \in Int /\ Cardinality(above(s)) = Cardinality(above(t))
      BY <1>1, <2>2
    <3>2. Cardinality(above(s)) \in Nat /\ ~(s < t) /\ ~(t < s)
      BY <1>5, <1>6, <3>1
    <3> QED BY <3>1, <3>2
  <2> HIDE DEF nth, open
  <2> QED BY <2>1, <2>2, Fun_IsInj
<1>8. \A s, t \in open : s < t => nth[s] < nth[t]
  BY <1>6
<1> HIDE DEF nth
<1>9. nth \in Surjection(open, 1..n)
  <2>1. IsFiniteSet(1..n) /\ Cardinality(1..n) = n
    BY <1>1, FS_Interval
  <2> HIDE DEF open
  <2> QED BY <1>4, <1>7, <2>1, FS_Injection
<1>10. nth \in Bijection(open, 1..n)
  <2> HIDE DEF open
  <2> QED BY <1>7, <1>9, Fun_IsBij
<1> QED BY <1>2, <1>4, <1>8, <1>10 DEF Open, Nth, open, nth, above, E

\* Dealt to the open slots, an order meets each of its entries once.
LEMMA SeatIs ==
    ASSUME NEW size \in Sizes, NEW S, NEW order \in Seq(S), NEW s \in 1..size
    PROVE  LET n == Len(order) IN
           /\ Seat(size, order, s) \in S \cup {NULL}
           /\ n <= size =>
                Seat(size, order, s) =
                  IF s \in Open(size, n) THEN order[Nth(size, n)[s]] ELSE NULL
           /\ n > size => Seat(size, order, s) = order[s]
<1> DEFINE n == Len(order)
           E == ByeSlots(size, size - n)
           above == {t \in 1..s : t \notin E}
<1>1. size \in Nat /\ n \in Nat
  BY DEF Sizes
<1>2. Seat(size, order, s) = IF s \in E THEN NULL ELSE order[Cardinality(above)]
  BY DEF Seat
<1>3. CASE n <= size
  <2>1. n \in 0..size
    BY <1>1, <1>3
  <2>2. Nth(size, n) \in [Open(size, n) -> 1..n]
    <3> HIDE DEF n
    <3> QED BY <2>1, OpenSlots, Fun_BijectionProperties
  <2>3. s \in Open(size, n) <=> s \notin E
    BY DEF Open
  <2>4. s \in Open(size, n) => Nth(size, n)[s] = Cardinality(above)
    BY DEF Nth
  <2>5. Seat(size, order, s) = IF s \in Open(size, n) THEN order[Nth(size, n)[s]] ELSE NULL
    BY <1>2, <2>3, <2>4
  <2>6. s \in Open(size, n) => order[Nth(size, n)[s]] \in S
    BY <2>2
  <2> QED BY <1>1, <1>3, <2>5, <2>6
<1>4. CASE n > size
  <2>1. E = {}
    <3>1. 1..(size - n) = {}
      BY <1>1, <1>4
    <3> QED BY <3>1 DEF ByeSlots
  <2>2. above = 1..s
    BY <2>1
  <2>3. Cardinality(above) = s
    <3>1. Cardinality(1..s) = s
      BY <1>1, FS_Interval
    <3> QED BY <2>2, <3>1
  <2> QED BY <1>1, <1>2, <1>4, <2>1, <2>3
<1> QED BY <1>1, <1>3, <1>4

\* An order the search can settle on is a permutation of the entrants.
LEMMA OrdersPermute ==
    ASSUME NEW entries \in Seq(Players), NEW order \in Orders(entries)
    PROVE  /\ order \in Seq(Players) /\ Len(order) = Len(entries)
           /\ Range(order) = Range(entries)
<1> DEFINE n == Len(entries)
<1>1. n \in Nat /\ entries \in [1..n -> Players] /\ DOMAIN entries = 1..n
  OBVIOUS
<1>2. CASE order = entries
  BY <1>1, <1>2
<1>3. CASE order # entries
  <2>1. PICK f \in [1..n -> 1..n] : /\ \A i, j \in 1..n : f[i] = f[j] => i = j
                                    /\ order = [i \in 1..n |-> entries[f[i]]]
    BY <1>3 DEF Orders
  <2> HIDE DEF n
  <2>2. f \in Injection(1..n, 1..n)
    BY <2>1, Fun_IsInj
  <2>3. f \in Surjection(1..n, 1..n)
    BY <1>1, <2>2, FS_Interval, FS_Injection
  <2>4. \A j \in 1..n : \E i \in 1..n : f[i] = j
    BY <2>3 DEF Surjection
  <2>5. order \in [1..n -> Players] /\ order \in Seq(Players) /\ Len(order) = n
    BY <1>1, <2>1
  <2>6. Range(order) = Range(entries)
    BY <1>1, <2>1, <2>4, <2>5 DEF Range
  <2> QED BY <2>5, <2>6 DEF n
<1> QED BY <1>2, <1>3

\* The seats of a first round, by the slot they come from.
SeatedAt(ms) == {k \in DOMAIN ms : ms[k].a # NULL} \X {1} \cup {k \in DOMAIN ms : ms[k].b # NULL} \X {2}

LEMMA FirstRoundIs ==
    ASSUME NEW size \in Sizes, NEW seats
    PROVE  /\ DOMAIN FirstRoundMatches(size, seats) = {1} \X (0..(size \div 2 - 1))
           /\ \A k \in {1} \X (0..(size \div 2 - 1)) :
                FirstRoundMatches(size, seats)[k] =
                   [a |-> seats[2 * k[2] + 1], b |-> seats[2 * k[2] + 2],
                    is_bye |-> NULL \in {seats[2 * k[2] + 1], seats[2 * k[2] + 2]},
                    mat_no |-> NULL, match_number |-> NULL]
BY DEF FirstRoundMatches

LEMMA SlotsAreSeats ==
    ASSUME NEW size \in Sizes, NEW seats
    PROVE  LET ms == FirstRoundMatches(size, seats)
               taken == {s \in 1..size : seats[s] # NULL}
           IN /\ SeatsOf(ms) = {seats[s] : s \in taken}
              /\ Cardinality(SeatedAt(ms)) = Cardinality(taken)
<1> DEFINE ms == FirstRoundMatches(size, seats)
           taken == {s \in 1..size : seats[s] # NULL}
           f == [x \in SeatedAt(ms) |-> 2 * x[1][2] + x[2]]
<1>1. PICK half \in Nat : size = 2 * half /\ size \div 2 = half /\ size \in Nat
  BY SizesAreEven, Z3 DEF Sizes
<1>2. /\ DOMAIN ms = {1} \X (0..(half - 1))
      /\ \A k \in DOMAIN ms : ms[k].a = seats[2 * k[2] + 1] /\ ms[k].b = seats[2 * k[2] + 2]
  <2>1. DOMAIN ms = {1} \X (0..(half - 1))
    BY <1>1, FirstRoundIs
  <2>2. ASSUME NEW k \in DOMAIN ms
        PROVE  ms[k].a = seats[2 * k[2] + 1] /\ ms[k].b = seats[2 * k[2] + 2]
    <3>1. ms[k] = [a |-> seats[2 * k[2] + 1], b |-> seats[2 * k[2] + 2],
                   is_bye |-> NULL \in {seats[2 * k[2] + 1], seats[2 * k[2] + 2]},
                   mat_no |-> NULL, match_number |-> NULL]
      <4>1. k \in {1} \X (0..(size \div 2 - 1))
        BY FirstRoundIs
      <4> HIDE DEF ms
      <4> QED BY <4>1, FirstRoundIs DEF ms
    <3> QED BY <3>1
  <2> QED BY <2>1, <2>2
<1> HIDE DEF ms
<1>3. ASSUME NEW s \in 1..size PROVE \E i \in 0..(half - 1) : s = 2 * i + 1 \/ s = 2 * i + 2
  <2>1. CASE s % 2 = 1
    <3>1. (s - 1) \div 2 \in 0..(half - 1) /\ s = 2 * ((s - 1) \div 2) + 1
      BY <1>1, <2>1
    <3> QED BY <3>1
  <2>2. CASE s % 2 = 0
    <3>1. (s - 1) \div 2 \in 0..(half - 1) /\ s = 2 * ((s - 1) \div 2) + 2
      BY <1>1, <2>2
    <3> QED BY <3>1
  <2> QED BY <1>1, <2>1, <2>2
<1>4. SeatsOf(ms) = {seats[s] : s \in taken}
  <2>1. ASSUME NEW s \in taken PROVE seats[s] \in SeatsOf(ms)
    <3>1. PICK i \in 0..(half - 1) : s = 2 * i + 1 \/ s = 2 * i + 2
      BY <1>3
    <3>2. <<1, i>> \in DOMAIN ms
      BY <1>2, <3>1
    <3>3. ms[<<1, i>>].a = seats[2 * i + 1] /\ ms[<<1, i>>].b = seats[2 * i + 2]
      BY <1>2, <3>2
    <3> QED BY <2>1, <3>1, <3>2, <3>3 DEF SeatsOf, Range
  <2>2. ASSUME NEW p \in SeatsOf(ms) PROVE \E s \in taken : p = seats[s]
    <3>1. PICK k \in DOMAIN ms : p \in {ms[k].a, ms[k].b} /\ p # NULL
      BY DEF SeatsOf, Range
    <3>2. k[2] \in 0..(half - 1) /\ ms[k].a = seats[2 * k[2] + 1] /\ ms[k].b = seats[2 * k[2] + 2]
      BY <1>2
    <3>3. 2 * k[2] + 1 \in 1..size /\ 2 * k[2] + 2 \in 1..size
      BY <1>1, <3>2
    <3> QED BY <3>1, <3>2, <3>3
  <2> QED BY <2>1, <2>2
<1>5. f \in Bijection(SeatedAt(ms), taken)
  <2>1. ASSUME NEW x \in SeatedAt(ms)
        PROVE  \E i \in 0..(half - 1) :
                 \/ x = <<<<1, i>>, 1>> /\ f[x] = 2 * i + 1 /\ 2 * i + 1 \in taken
                 \/ x = <<<<1, i>>, 2>> /\ f[x] = 2 * i + 2 /\ 2 * i + 2 \in taken
    <3>1. PICK k \in DOMAIN ms : \/ x = <<k, 1>> /\ ms[k].a # NULL
                                 \/ x = <<k, 2>> /\ ms[k].b # NULL
      BY DEF SeatedAt
    <3>2. PICK i \in 0..(half - 1) : k = <<1, i>> /\ k[2] = i
      BY <1>2
    <3>3. ms[k].a = seats[2 * i + 1] /\ ms[k].b = seats[2 * i + 2]
      BY <1>2, <3>2
    <3>4. 2 * i + 1 \in 1..size /\ 2 * i + 2 \in 1..size
      BY <1>1, <3>2
    <3> QED BY <3>1, <3>2, <3>3, <3>4
  <2>2. f \in [SeatedAt(ms) -> taken]
    BY <2>1
  <2>3. ASSUME NEW x \in SeatedAt(ms), NEW y \in SeatedAt(ms), f[x] = f[y] PROVE x = y
    <3>1. PICK i \in 0..(half - 1) : \/ x = <<<<1, i>>, 1>> /\ f[x] = 2 * i + 1
                                     \/ x = <<<<1, i>>, 2>> /\ f[x] = 2 * i + 2
      BY <2>1
    <3>2. PICK j \in 0..(half - 1) : \/ y = <<<<1, j>>, 1>> /\ f[y] = 2 * j + 1
                                     \/ y = <<<<1, j>>, 2>> /\ f[y] = 2 * j + 2
      BY <2>1
    <3> HIDE DEF f
    <3> QED BY <1>1, <2>3, <3>1, <3>2
  <2>4. ASSUME NEW s \in taken PROVE \E x \in SeatedAt(ms) : f[x] = s
    <3>1. PICK i \in 0..(half - 1) : s = 2 * i + 1 \/ s = 2 * i + 2
      BY <1>3
    <3>2. <<1, i>> \in DOMAIN ms
      BY <1>2, <3>1
    <3>3. ms[<<1, i>>].a = seats[2 * i + 1] /\ ms[<<1, i>>].b = seats[2 * i + 2]
      BY <1>2, <3>2
    <3>4. CASE s = 2 * i + 1
      <4>1. <<<<1, i>>, 1>> \in SeatedAt(ms)
        BY <2>4, <3>2, <3>3, <3>4 DEF SeatedAt
      <4>2. f[<<<<1, i>>, 1>>] = s
        BY <3>4, <4>1
      <4> QED BY <4>1, <4>2
    <3>5. CASE s = 2 * i + 2
      <4>1. <<<<1, i>>, 2>> \in SeatedAt(ms)
        BY <2>4, <3>2, <3>3, <3>5 DEF SeatedAt
      <4>2. f[<<<<1, i>>, 2>>] = s
        BY <3>5, <4>1
      <4> QED BY <4>1, <4>2
    <3> QED BY <3>1, <3>4, <3>5
  <2> HIDE DEF f, taken
  <2> QED BY <2>2, <2>3, <2>4, Fun_IsBij
<1>6. Cardinality(SeatedAt(ms)) = Cardinality(taken)
  <2>1. IsFiniteSet(1..size)
    BY <1>1, FS_Interval
  <2>2. IsFiniteSet(taken)
    BY <2>1, FS_Subset
  <2>3. ExistsBijection(taken, SeatedAt(ms))
    <3> HIDE DEF f, taken
    <3> QED BY <1>5, Fun_ExistsBij, Fun_ExistsBijSymmetric
  <2> HIDE DEF taken
  <2> QED BY <2>2, <2>3, FS_Bijection
<1> QED BY <1>4, <1>6 DEF ms

\* A table that is large enough seats each entrant once.
LEMMA SeatedOnce ==
    ASSUME NEW size \in Sizes, NEW entries \in Seq(Players), Len(entries) <= size,
           NEW order \in Orders(entries)
    PROVE  LET ms == FirstRoundMatches(size, [s \in 1..size |-> Seat(size, order, s)]) IN
           SeatsOf(ms) = Range(entries) /\ Cardinality(SeatedAt(ms)) = Len(entries)
<1> DEFINE n == Len(entries)
           seats == [s \in 1..size |-> Seat(size, order, s)]
           nth == Nth(size, n)
<1>1. /\ order \in Seq(Players) /\ Len(order) = n /\ Range(order) = Range(entries)
      /\ DOMAIN order = 1..n /\ n \in 0..size
  BY OrdersPermute DEF Sizes
<1>2. /\ nth \in [Open(size, n) -> 1..n] /\ \A j \in 1..n : \E s \in Open(size, n) : nth[s] = j
      /\ Cardinality(Open(size, n)) = n
  <2> HIDE DEF n
  <2>1. nth \in Bijection(Open(size, n), 1..n) /\ Cardinality(Open(size, n)) = n
    BY <1>1, OpenSlots
  <2> HIDE DEF nth
  <2> QED BY <2>1 DEF Bijection, Injection, Surjection
<1>3. \A s \in 1..size : seats[s] = IF s \in Open(size, n) THEN order[nth[s]] ELSE NULL
  BY <1>1, SeatIs
<1>4. \A s \in Open(size, n) : s \in 1..size /\ order[nth[s]] \in Players /\ NULL \notin Players
  BY <1>1, <1>2, BracketsAssumption DEF Open
<1> HIDE DEF seats, nth, n
<1>5. {s \in 1..size : seats[s] # NULL} = Open(size, n)
  BY <1>3, <1>4
<1>6. {seats[s] : s \in Open(size, n)} = Range(order)
  <2>1. \A s \in Open(size, n) : seats[s] = order[nth[s]]
    BY <1>3, <1>4
  <2> QED BY <1>1, <1>2, <2>1 DEF Range
<1>7. /\ SeatsOf(FirstRoundMatches(size, seats)) = {seats[s] : s \in Open(size, n)}
      /\ Cardinality(SeatedAt(FirstRoundMatches(size, seats))) = Cardinality(Open(size, n))
  BY <1>5, SlotsAreSeats
<1> QED BY <1>1, <1>2, <1>6, <1>7 DEF n, seats

-----------------------------------------------------------------------------
(* Types.                                                                  *)

LEMMA MinIs ==
    ASSUME NEW S \in SUBSET Nat, S # {}
    PROVE  Min(S) \in S
<1> DEFINE R == OpToRel(<, Nat)
<1>1. IsWellFoundedOn(R, Nat)
  BY NatLessThanWellFounded
<1> HIDE DEF R
<1>2. PICK x \in S : \A y \in S : <<y, x>> \notin R
  BY <1>1, WFMin
<1>3. ASSUME NEW y \in S, y < x PROVE FALSE
  <2>1. <<y, x>> \in R
    BY <1>3 DEF R, OpToRel
  <2> QED BY <1>2, <2>1
<1>4. \A y \in S : x <= y
  BY <1>3
<1> QED BY <1>4 DEF Min

\* Who and where a match is.
Placed(m) == m.a \in Maybe(Players) /\ m.b \in Maybe(Players) /\ m.mat_no \in Maybe(Mats)
AllPlaced(ms) == \A k \in DOMAIN ms : Placed(ms[k])

\* Besides the tables: what else the services read, and that a draw is known
\* by its id.
StateTyped ==
    /\ entrants \in [Groups -> Seq(Players)] /\ assigned \in [Weights -> SUBSET Mats]
    /\ counted \in [Groups -> Maybe(Nat)] /\ published \in BOOLEAN
    /\ history \in [Groups -> SUBSET SUBSET Players]
    /\ lastId <= MaxDraws

DrawsKnown ==
    /\ \A g \in Drawn : draws[g].id >= 1 /\ AllPlaced(draws[g].matches)
    /\ \A g, h \in Drawn : draws[g].id = draws[h].id => g = h

BracketsInv == TablesInv /\ StateTyped /\ DrawsKnown

LEMMA ReplacedMatches ==
    ASSUME NEW d, TableOK(d), NEW new
    PROVE  LET e == [d EXCEPT !.matches = new] IN e.id = d.id /\ e.size = d.size /\ e.matches = new
<1> DEFINE e == [d EXCEPT !.matches = new]
<1>1. e \in [id : {d.id}, size : {d.size}, matches : {new}]
  BY DEF TableOK
<1> HIDE DEF e
<1>2. e.id = d.id /\ e.size = d.size /\ e.matches = new
  BY <1>1
<1> QED BY <1>2 DEF e

\* The tables of a step that only replaces matches.
LEMMA SameDraws ==
    ASSUME BracketsInv, UNCHANGED lastId, draws' = [g \in Groups |-> draws'[g]],
           \A g \in Groups : draws'[g] # draws[g] =>
               g \in Drawn /\ draws'[g].id = draws[g].id /\ AllPlaced(draws'[g].matches)
    PROVE  DrawsKnown'
BY DEF BracketsInv, DrawsKnown, Drawn, AllPlaced, Placed

LEMMA NumberPlaces ==
    ASSUME BracketsInv, NEW ws \in SUBSET Weights, NEW clear \in BOOLEAN, Number(ws, clear)
    PROVE  DrawsKnown'
<1> USE DEF BracketsInv
<1>1. ASSUME NEW g \in Groups, draws'[g] # draws[g]
      PROVE  g \in Drawn /\ draws'[g].id = draws[g].id /\ AllPlaced(draws'[g].matches)
  <2> DEFINE new == NumberedMatches(g, ws, clear)
             queue == Numberable(ws, MatOf(g))
             ms == draws[g].matches
  <2>1. g \in Of(ws) /\ g \in Drawn /\ draws'[g] = [draws[g] EXCEPT !.matches = new]
    BY <1>1 DEF Number, Of
  <2>2. TablesOK /\ TableOK(draws[g])
    BY <2>1 DEF TablesInv, TablesOK
  <2>3. draws'[g].id = draws[g].id /\ draws'[g].matches = new
    BY <2>1, <2>2, ReplacedMatches
  <2>4. MatOf(g) \in Mats
    <3>1. assigned[WeightOf[g]] \in SUBSET Mats /\ assigned[WeightOf[g]] # {}
      BY <2>1 DEF Of, Number, StateTyped
    <3>2. Mats \subseteq Nat
      BY BracketsAssumption
    <3> QED BY <3>1, <3>2, MinIs DEF MatOf
  <2>5. \A k \in DOMAIN ms : Placed(ms[k])
    BY <2>1 DEF DrawsKnown, AllPlaced
  <2>6. ASSUME NEW k \in DOMAIN new PROVE Placed(new[k])
    <3>1. k \in Keys(draws[g].size)
      BY <2>1, <2>2, NumberedIs
    <3>2. /\ SameSeats(ms, new) /\ DOMAIN new = Keys(draws[g].size)
      BY <2>1, <2>2, NumberedIs
    <3>3. new[k].mat_no = LET old == IF k \in DOMAIN ms THEN ms[k].mat_no ELSE NULL
                          IN IF <<g, k>> \in queue /\ old = NULL THEN MatOf(g) ELSE old
      BY <2>1, <2>2, <3>1, NumberedIs
    <3> HIDE DEF new, queue, ms
    <3>4. new[k].mat_no \in Maybe(Mats)
      BY <2>4, <2>5, <3>3 DEF Placed, Maybe
    <3>5. new[k].a \in Maybe(Players) /\ new[k].b \in Maybe(Players)
      BY <2>5, <3>2 DEF SameSeats, Placed, Maybe
    <3> QED BY <3>4, <3>5 DEF Placed
  <2> HIDE DEF new
  <2> QED BY <2>1, <2>3, <2>6 DEF AllPlaced
<1> QED BY <1>1, SameDraws DEF Number

LEMMA ClearPlaces ==
    ASSUME BracketsInv, NEW ws, ClearNumbers(ws)
    PROVE  DrawsKnown'
<1> USE DEF BracketsInv
<1>1. ASSUME NEW g \in Groups, draws'[g] # draws[g]
      PROVE  g \in Drawn /\ draws'[g].id = draws[g].id /\ AllPlaced(draws'[g].matches)
  <2> DEFINE ms == draws[g].matches
             new == [k \in DOMAIN ms |-> [ms[k] EXCEPT !.match_number = NULL]]
  <2>1. g \in Drawn /\ draws'[g] = [draws[g] EXCEPT !.matches = new]
    BY <1>1 DEF ClearNumbers, Of
  <2>2. TableOK(draws[g])
    BY <2>1 DEF TablesInv, TablesOK
  <2>3. draws'[g].id = draws[g].id /\ draws'[g].matches = new
    BY <2>1, <2>2, ReplacedMatches
  <2>4. ASSUME NEW k \in DOMAIN new PROVE Placed(new[k])
    <3> DEFINE m == ms[k]  c == [m EXCEPT !.match_number = NULL]
    <3>1. MatchOK(m) /\ Placed(m)
      BY <2>1, <2>2 DEF TableOK, DrawsKnown, AllPlaced
    <3>2. new[k] = c
      OBVIOUS
    <3> HIDE DEF m
    <3>3. c \in [a : {m.a}, b : {m.b}, is_bye : {m.is_bye}, mat_no : {m.mat_no}, match_number : {NULL}]
      BY <3>1 DEF MatchOK
    <3> HIDE DEF c
    <3>4. Placed(c)
      BY <3>1, <3>3 DEF Placed
    <3> HIDE DEF new
    <3> QED BY <3>2, <3>4
  <2> HIDE DEF new
  <2> QED BY <2>1, <2>3, <2>4 DEF AllPlaced
<1> QED BY <1>1, SameDraws DEF ClearNumbers

LEMMA CreatePlaces ==
    ASSUME BracketsInv, NEW g \in Groups, NEW requested, IsPow2(requested), lastId < MaxDraws,
           NEW order \in Orders(entrants[g]), NEW newYear \in BOOLEAN,
           CreateDraw(g, requested, order, newYear)
    PROVE  DrawsKnown' /\ history' \in [Groups -> SUBSET SUBSET Players] /\ lastId' <= MaxDraws
<1> USE DEF BracketsInv
<1> DEFINE size == DrawSize(requested, Len(entrants[g]))
           seats == [s \in 1..size |-> Seat(size, order, s)]
           ms == FirstRoundMatches(size, seats)
           d == [id |-> lastId + 1, size |-> size, matches |-> ms]
<1>1. /\ draws' = [draws EXCEPT ![g] = d] /\ lastId' = lastId + 1
      /\ history' = [h \in Groups |->
            IF newYear THEN {} ELSE history[h] \cup IF h = g THEN Pairs(ms) ELSE {}]
  BY DEF CreateDraw
<1>2. size \in Sizes /\ lastId \in Nat /\ entrants[g] \in Seq(Players) /\ MaxDraws \in Nat
  BY SizeIs, BracketsAssumption DEF TablesInv, HistoryOK, StateTyped
<1>3. d.id = lastId + 1 /\ d.matches = ms
  OBVIOUS
<1>4. \A s \in 1..size : seats[s] \in Maybe(Players)
  <2>1. order \in Seq(Players)
    BY <1>2, OrdersPermute
  <2> HIDE DEF size
  <2>2. \A s \in 1..size : Seat(size, order, s) \in Players \cup {NULL}
    BY <1>2, <2>1, SeatIs
  <2> QED BY <2>2 DEF Maybe
<1> HIDE DEF seats, size
<1>5. ASSUME NEW k \in DOMAIN ms
      PROVE  /\ ms[k].mat_no = NULL /\ ms[k].a \in Maybe(Players) /\ ms[k].b \in Maybe(Players)
  <2>1. k \in {1} \X (0..(size \div 2 - 1)) /\ size \in Nat
    BY <1>2, FirstRoundIs DEF Sizes
  <2>2. ms[k] = [a |-> seats[2 * k[2] + 1], b |-> seats[2 * k[2] + 2],
                 is_bye |-> NULL \in {seats[2 * k[2] + 1], seats[2 * k[2] + 2]},
                 mat_no |-> NULL, match_number |-> NULL]
    <3> HIDE DEF ms
    <3>1. FirstRoundMatches(size, seats)[k] =
             [a |-> seats[2 * k[2] + 1], b |-> seats[2 * k[2] + 2],
              is_bye |-> NULL \in {seats[2 * k[2] + 1], seats[2 * k[2] + 2]},
              mat_no |-> NULL, match_number |-> NULL]
      BY <2>1 DEF FirstRoundMatches
    <3> QED BY <3>1 DEF ms
  <2>3. 2 * k[2] + 1 \in 1..size /\ 2 * k[2] + 2 \in 1..size
    BY <2>1
  <2> HIDE DEF ms
  <2> QED BY <1>4, <2>2, <2>3
<1> HIDE DEF ms, d
<1>6. AllPlaced(ms) /\ Pairs(ms) \subseteq SUBSET Players
  BY <1>5 DEF AllPlaced, Placed, Maybe, Pairs, Bouts
<1>7. /\ draws'[g] = d /\ \A h \in Groups \ {g} : draws'[h] = draws[h]
      /\ DOMAIN draws' = Groups
  BY <1>1 DEF TablesInv, TablesOK
<1>8. \A h \in Drawn : draws[h].id <= lastId /\ draws[h].id \in Nat
  BY DEF TablesInv, HistoryOK, TablesOK, TableOK
<1>9. DrawsKnown'
  <2>1. ASSUME NEW h \in Drawn' PROVE draws'[h].id >= 1 /\ AllPlaced(draws'[h].matches)
    BY <1>1, <1>2, <1>3, <1>6, <1>7 DEF DrawsKnown, Drawn, AllPlaced, Placed
  <2>2. ASSUME NEW h \in Drawn', NEW i \in Drawn', draws'[h].id = draws'[i].id PROVE h = i
    BY <1>2, <1>3, <1>7, <1>8, <2>2 DEF DrawsKnown, Drawn
  <2> QED BY <2>1, <2>2 DEF DrawsKnown
<1>10. history' \in [Groups -> SUBSET SUBSET Players]
  BY <1>1, <1>6 DEF StateTyped
<1> QED BY <1>1, <1>2, <1>9, <1>10

\* Everything the services keep has its type; who is seated is a player, and
\* where a match is called is a mat (draw_service.py 169-348,
\* numbering_service.py 114-244).
THEOREM BracketsInductive == Spec => [](StateTyped /\ DrawsKnown)
<1>1. Init => StateTyped /\ DrawsKnown
  <2>1. MaxDraws >= 0
    BY BracketsAssumption
  <2>2. Init => DrawsKnown
    BY DEF Init, DrawsKnown, Drawn
  <2>3. <<>> \in Seq(Players) /\ {} \in SUBSET Mats /\ {} \in SUBSET SUBSET Players
    OBVIOUS
  <2>4. Init => /\ entrants \in [Groups -> Seq(Players)] /\ assigned \in [Weights -> SUBSET Mats]
                /\ history \in [Groups -> SUBSET SUBSET Players]
    BY <2>3, Zenon DEF Init
  <2>5. Init => counted \in [Groups -> Maybe(Nat)] /\ published \in BOOLEAN /\ lastId <= MaxDraws
    BY <2>1 DEF Init, Maybe
  <2> QED BY <2>2, <2>4, <2>5 DEF StateTyped
<1>2. TablesInv /\ StateTyped /\ DrawsKnown /\ [Next]_vars => StateTyped' /\ DrawsKnown'
  <2> SUFFICES ASSUME BracketsInv, [Next]_vars PROVE StateTyped' /\ DrawsKnown'
    BY DEF BracketsInv
  <2> USE DEF BracketsInv
  <2>1. ASSUME UNCHANGED <<draws, lastId>> PROVE DrawsKnown'
    BY <2>1, SameDraws DEF TablesInv, TablesOK
  <2>2. CASE UNCHANGED vars
    BY <2>1, <2>2 DEF vars, StateTyped
  <2>3. ASSUME NEW g \in Groups, NEW p \in Players, Enroll(g, p) PROVE StateTyped' /\ DrawsKnown'
    <3>1. Append(entrants[g], p) \in Seq(Players)
      BY DEF StateTyped
    <3>2. entrants' \in [Groups -> Seq(Players)]
      BY <2>3, <3>1 DEF Enroll, StateTyped
    <3> QED BY <2>1, <2>3, <3>2 DEF Enroll, StateTyped
  <2>4. ASSUME NEW w \in Weights, NEW mats \in Assignments, AssignMats(w, mats)
        PROVE  StateTyped' /\ DrawsKnown'
    <3>1. assigned' \in [Weights -> SUBSET Mats]
      BY <2>4, BracketsAssumption DEF AssignMats, StateTyped
    <3> QED BY <2>1, <2>4, <3>1 DEF AssignMats, StateTyped
  <2>5. ASSUME NEW g \in Groups, CountEntrants(g) PROVE StateTyped' /\ DrawsKnown'
    <3>1. Len(entrants[g]) \in Maybe(Nat)
      BY DEF StateTyped, Maybe
    <3>2. counted' \in [Groups -> Maybe(Nat)]
      BY <2>5, <3>1 DEF CountEntrants, StateTyped
    <3> QED BY <2>1, <2>5, <3>2 DEF CountEntrants, StateTyped
  <2>6. ASSUME NEW g \in Groups, StartDraw(g) PROVE StateTyped' /\ DrawsKnown'
    <3>1. counted' \in [Groups -> Maybe(Nat)] /\ UNCHANGED <<entrants, assigned, published>>
      BY <2>6 DEF StartDraw, StateTyped, Maybe
    <3>2. CASE UNCHANGED <<draws, lastId, history, cleared>>
      BY <2>1, <3>1, <3>2 DEF StateTyped
    <3>3. ASSUME NEW requested, IsPow2(requested), NEW order \in Orders(entrants[g]),
                 NEW newYear \in BOOLEAN, CreateDraw(g, requested, order, newYear)
          PROVE  StateTyped' /\ DrawsKnown'
      <4>1. lastId < MaxDraws
        BY <2>6 DEF StartDraw
      <4> QED BY <3>1, <3>3, <4>1, CreatePlaces DEF StateTyped
    <3> QED BY <2>6, <3>2, <3>3 DEF StartDraw
  <2>7. ASSUME NEW ws \in SUBSET Weights, NEW clear \in BOOLEAN, Number(ws, clear)
        PROVE  StateTyped' /\ DrawsKnown'
    BY <2>7, NumberPlaces DEF Number, StateTyped
  <2>8. ASSUME NEW ws, ClearNumbers(ws) PROVE StateTyped' /\ DrawsKnown'
    BY <2>8, ClearPlaces DEF ClearNumbers, StateTyped
  <2>9. CASE Publish \/ Unpublish
    BY <2>1, <2>9 DEF Publish, Unpublish, StateTyped
  <2> QED BY <2>2, <2>3, <2>4, <2>5, <2>6, <2>7, <2>8, <2>9 DEF Next
<1> QED BY <1>1, <1>2, TablesInductive, PTL DEF Spec

\* TypeOK (models.py 688-827 of competitions, draw_service.py 169-348).
THEOREM BracketsTyped == Spec => []TypeOK
<1>1. TablesInv /\ StateTyped /\ DrawsKnown => TypeOK
  <2> SUFFICES ASSUME TablesInv, StateTyped, DrawsKnown PROVE TypeOK
    OBVIOUS
  <2>1. ASSUME NEW g \in Drawn
        PROVE  /\ draws[g].id \in 1..lastId /\ IsPow2(draws[g].size)
               /\ DOMAIN draws[g].matches \subseteq Keys(draws[g].size)
               /\ Range(draws[g].matches) \subseteq Match
    <3>1. TableOK(draws[g]) /\ draws[g].id <= lastId /\ lastId \in Nat
      BY DEF TablesInv, TablesOK, HistoryOK
    <3>2. draws[g].id \in 1..lastId /\ IsPow2(draws[g].size)
      BY <3>1 DEF TableOK, Sizes, DrawsKnown
    <3>3. ASSUME NEW k \in DOMAIN draws[g].matches PROVE draws[g].matches[k] \in Match
      <4> DEFINE m == draws[g].matches[k]
      <4>1. MatchOK(m) /\ Placed(m)
        BY <3>1 DEF TableOK, DrawsKnown, AllPlaced
      <4> HIDE DEF m
      <4> QED BY <4>1 DEF MatchOK, Placed, Match, m
    <3> QED BY <3>1, <3>2, <3>3 DEF TableOK, Range
  <2>2. DOMAIN draws = Groups /\ lastId \in 0..MaxDraws /\ cleared \in 0..lastId
    BY BracketsAssumption DEF TablesInv, TablesOK, HistoryOK, StateTyped
  <2> QED BY <2>1, <2>2 DEF StateTyped, TypeOK
<1> QED BY <1>1, TablesInductive, BracketsInductive, PTL

-----------------------------------------------------------------------------
\* EveryoneSeatedOnce: whatever was counted when the page was opened, whoever
\* registered since and whichever order the search settles on, a new table that
\* is large enough seats each entrant once and nobody else, for tables of
\* every size, with and without a stored pattern of BYEs (draw_service.py
\* 48-131, 216-318).
THEOREM SeatedOncePerDraw == Spec => EveryoneSeatedOnce
<1> DEFINE Seated1(g) ==
      draws'[g] # NoDraw /\ lastId' > lastId /\ draws'[g].id = lastId'
      /\ draws'[g].size >= Len(entrants[g])
      => LET ms == draws'[g].matches
             seats == {k \in DOMAIN ms : ms[k].a # NULL} \X {1}
                      \cup {k \in DOMAIN ms : ms[k].b # NULL} \X {2}
         IN /\ (UNION {{m.a, m.b} : m \in Range(ms)}) \ {NULL} = Range(entrants[g])
            /\ Cardinality(seats) = Len(entrants[g])
<1>1. BracketsInv /\ [Next]_vars => \A g \in Groups : Seated1(g)
  <2> SUFFICES ASSUME BracketsInv, [Next]_vars, NEW g \in Groups,
                      draws'[g] # NoDraw, lastId' > lastId, draws'[g].id = lastId',
                      draws'[g].size >= Len(entrants[g])
               PROVE  /\ SeatsOf(draws'[g].matches) = Range(entrants[g])
                      /\ Cardinality(SeatedAt(draws'[g].matches)) = Len(entrants[g])
    BY DEF SeatsOf, SeatedAt
  <2> USE DEF BracketsInv
  <2>1. PICK h \in Groups : StartDraw(h)
    <3>1. lastId' # lastId
      BY DEF TablesInv, HistoryOK
    <3> QED BY <3>1 DEF Next, vars, Enroll, AssignMats, CountEntrants, Number, ClearNumbers, Publish, Unpublish
  <2>2. PICK requested \in {AdminSize(counted[h])} \cup Overrides :
          /\ IsPow2(requested)
          /\ \E order \in Orders(entrants[h]), newYear \in BOOLEAN : CreateDraw(h, requested, order, newYear)
    <3>1. lastId' # lastId
      BY DEF TablesInv, HistoryOK
    <3> QED BY <2>1, <3>1 DEF StartDraw
  <2>8. PICK order \in Orders(entrants[h]), newYear \in BOOLEAN :
          CreateDraw(h, requested, order, newYear)
    BY <2>2
  <2> DEFINE size == DrawSize(requested, Len(entrants[h]))
             ms == FirstRoundMatches(size, [s \in 1..size |-> Seat(size, order, s)])
             d == [id |-> lastId + 1, size |-> size, matches |-> ms]
  <2>3. draws' = [draws EXCEPT ![h] = d] /\ lastId' = lastId + 1
    BY <2>8 DEF CreateDraw
  <2>4. lastId \in Nat /\ size \in Sizes /\ entrants[h] \in Seq(Players)
    BY <2>2, SizeIs DEF TablesInv, HistoryOK, StateTyped
  <2> HIDE DEF ms, size
  <2>5. g = h
    <3>1. CASE g # h
      <4>1. g \in Drawn /\ draws'[g] = draws[g]
        BY <2>3, <3>1 DEF Drawn, TablesInv, TablesOK
      <4>2. draws[g].id <= lastId
        BY <4>1 DEF TablesInv, HistoryOK
      <4> QED BY <2>3, <2>4, <4>1, <4>2
    <3> QED BY <3>1
  <2>6. draws'[g].matches = ms /\ draws'[g].size = size
    BY <2>3, <2>5 DEF TablesInv, TablesOK
  <2>7. SeatsOf(ms) = Range(entrants[h]) /\ Cardinality(SeatedAt(ms)) = Len(entrants[h])
    BY <2>4, <2>5, <2>6, SeatedOnce DEF ms
  <2> QED BY <2>5, <2>6, <2>7
<1>2. BracketsInv /\ [Next]_vars => [\A g \in Groups : Seated1(g)]_vars
  BY <1>1
<1>3. Spec => [][Next]_vars
  BY PTL DEF Spec
<1>4. TablesInv /\ StateTyped /\ DrawsKnown => BracketsInv
  BY DEF BracketsInv
<1>5. EveryoneSeatedOnce <=> [][\A g \in Groups : Seated1(g)]_vars
  BY DEF EveryoneSeatedOnce
<1> QED BY <1>2, <1>3, <1>4, <1>5, TablesInductive, BracketsInductive, PTL

-----------------------------------------------------------------------------
(* A numbering of everything.                                              *)

LEMMA LessIsTotal ==
    ASSUME NEW r \in Ranks, NEW s \in Ranks, r # s
    PROVE  Less(r, s) \/ Less(s, r)
<1>1. /\ \A i \in 1..5 : r[i] \in Int /\ s[i] \in Int
      /\ r = <<r[1], r[2], r[3], r[4], r[5]>> /\ s = <<s[1], s[2], s[3], s[4], s[5]>>
  BY DEF Ranks
<1>2. r[1] # s[1] \/ r[2] # s[2] \/ r[3] # s[3] \/ r[4] # s[4] \/ r[5] # s[5]
  BY <1>1
<1> QED BY <1>1, <1>2 DEF Less

\* The positions in a queue without ties are 1, 2, ..., n.
LEMMA PositionsAreDense ==
    ASSUME NEW queue, IsFiniteSet(queue), \A x \in queue : Rank(x) \in Ranks,
           \A x, y \in queue : Rank(x) = Rank(y) => x = y
    PROVE  {Position(x, queue) : x \in queue} = 1..Cardinality(queue)
<1> DEFINE n == Cardinality(queue)
           before(z) == {w \in queue : Before(w, z)}
           f == [x \in queue |-> Position(x, queue)]
<1>1. n \in Nat
  BY FS_CardinalityType
<1>2. ASSUME NEW x \in queue PROVE Position(x, queue) \in 1..n
  <2>1. x \notin before(x) /\ before(x) \in SUBSET queue
    BY BeforeIsLess, LessIsOrder
  <2> HIDE DEF before
  <2>2. IsFiniteSet(before(x)) /\ Cardinality(before(x)) <= n /\ Cardinality(before(x)) # n
    BY <2>1, FS_Subset
  <2>3. Cardinality(before(x)) \in Nat
    BY <2>2, FS_CardinalityType
  <2>4. Position(x, queue) = Cardinality(before(x)) + 1
    BY DEF Position, before
  <2> HIDE DEF n
  <2> QED BY <1>1, <2>2, <2>3, <2>4
<1>3. ASSUME NEW x \in queue, NEW y \in queue, x # y PROVE Position(x, queue) # Position(y, queue)
  <2>1. Before(x, y) \/ Before(y, x)
    BY <1>3, LessIsTotal, BeforeIsLess
  <2>2. ASSUME Before(x, y) PROVE Position(x, queue) # Position(y, queue)
    <3>1. /\ Position(x, queue) \in Nat /\ Position(y, queue) \in Nat
          /\ Position(x, queue) < Position(y, queue)
      BY <2>2, EarlierPosition
    <3> QED BY <3>1
  <2>3. ASSUME Before(y, x) PROVE Position(x, queue) # Position(y, queue)
    <3>1. /\ Position(x, queue) \in Nat /\ Position(y, queue) \in Nat
          /\ Position(y, queue) < Position(x, queue)
      BY <2>3, EarlierPosition
    <3> QED BY <3>1
  <2> QED BY <2>1, <2>2, <2>3
<1> HIDE DEF n
<1>4. f \in Injection(queue, 1..n)
  <2>1. f \in [queue -> 1..n] /\ \A x, y \in queue : f[x] = f[y] => x = y
    BY <1>2, <1>3
  <2> HIDE DEF f
  <2> QED BY <2>1, Fun_IsInj
<1>5. IsFiniteSet(1..n) /\ Cardinality(1..n) = n
  BY <1>1, FS_Interval
<1>6. f \in Surjection(queue, 1..n)
  <2> HIDE DEF f
  <2> QED BY <1>4, <1>5, FS_Injection DEF n
<1>7. \A i \in 1..n : \E x \in queue : f[x] = i
  <2> HIDE DEF f
  <2> QED BY <1>6 DEF Surjection
<1> QED BY <1>2, <1>7 DEF n

\* No two matches of a queue have the same rank: a draw is known by its id.
LEMMA RanksDiffer ==
    ASSUME TablesOK, DrawsKnown, NEW g \in Drawn, NEW h \in Drawn,
           NEW k \in Keys(draws[g].size), NEW j \in Keys(draws[h].size),
           Rank(<<g, k>>) = Rank(<<h, j>>)
    PROVE  g = h /\ k = j
<1>1. /\ draws[g].id = draws[h].id /\ k[2] = j[2]
      /\ IF k[1] = Rounds(draws[g].size) THEN j[1] = Rounds(draws[h].size)
         ELSE j[1] # Rounds(draws[h].size) /\ k[1] = j[1]
  <2> DEFINE m == Rounds(draws[g].size) n == Rounds(draws[h].size)
  <2>1. <<IF k[1] = m THEN 2 ELSE 1, IF k[1] = m THEN 0 ELSE k[1], WeightOf[g], draws[g].id, k[2]>>
      = <<IF j[1] = n THEN 2 ELSE 1, IF j[1] = n THEN 0 ELSE j[1], WeightOf[h], draws[h].id, j[2]>>
    BY RankIs
  <2> HIDE DEF m, n
  <2>2. draws[g].id = draws[h].id /\ k[2] = j[2]
    BY <2>1
  <2>3. (IF k[1] = m THEN 2 ELSE 1) = (IF j[1] = n THEN 2 ELSE 1)
    BY <2>1
  <2>4. (IF k[1] = m THEN 0 ELSE k[1]) = (IF j[1] = n THEN 0 ELSE j[1])
    BY <2>1
  <2> QED BY <2>2, <2>3, <2>4 DEF m, n
<1>2. g = h
  BY <1>1 DEF DrawsKnown
<1>3. k[1] = j[1]
  BY <1>1, <1>2
<1>4. k = <<k[1], k[2]>> /\ j = <<j[1], j[2]>>
  <2>1. draws[g].size \in Sizes /\ draws[h].size \in Sizes
    BY DEF TablesOK, TableOK
  <2>2. k \in (1..Rounds(draws[g].size)) \X Nat /\ j \in (1..Rounds(draws[h].size)) \X Nat
    BY <2>1, KeysAre
  <2> QED BY <2>2
<1> QED BY <1>1, <1>2, <1>3, <1>4

\* What is in a queue.
LEMMA QueueMembers ==
    ASSUME TablesOK, NEW ws, NEW mat
    PROVE  \A x \in Numberable(ws, mat) : \E g \in Of(ws) : \E k \in Keys(draws[g].size) :
              x = <<g, k>> /\ MatOf(g) = mat /\ g \in Drawn
<1> DEFINE called == {g \in Of(ws) : MatOf(g) = mat /\ Cardinality(Seated(g)) >= 2}
           part(g) == {g} \X {k \in Keys(draws[g].size) : ~Prepared(g, FALSE)[k].is_bye}
<1>1. \A g \in called : DOMAIN Prepared(g, FALSE) = Keys(draws[g].size)
  BY DEF Prepared
<1>2. Numberable(ws, mat) = UNION {part(g) : g \in called}
  BY <1>1 DEF Numberable
<1>3. ASSUME NEW x \in Numberable(ws, mat)
      PROVE  \E g \in Of(ws) : \E k \in Keys(draws[g].size) :
                x = <<g, k>> /\ MatOf(g) = mat /\ g \in Drawn
  <2> HIDE DEF part
  <2>1. PICK g \in called : x \in part(g)
    BY <1>2
  <2>2. PICK k \in Keys(draws[g].size) : x = <<g, k>>
    BY <2>1 DEF part
  <2>3. g \in Of(ws) /\ MatOf(g) = mat /\ g \in Drawn
    BY DEF Of
  <2> QED BY <2>2, <2>3
<1> QED BY <1>3

\* Numbered together with no match on a mat yet, the matches on a mat are its
\* queue, and each has its position in it for a number.
LEMMA WholeQueue ==
    ASSUME BracketsInv, NEW clear \in BOOLEAN,
           \A g \in Drawn : \A m \in Range(draws[g].matches) : m.mat_no = NULL,
           Number({WeightOf[g] : g \in Drawn}, clear), NEW mat \in Mats
    PROVE  LET queue == Numberable({WeightOf[g] : g \in Drawn}, mat) IN
           /\ OnMat(mat)' = queue
           /\ \A x \in queue : draws'[x[1]].matches[x[2]].match_number = Position(x, queue)
<1> USE DEF BracketsInv
<1> DEFINE ws == {WeightOf[g] : g \in Drawn}
           queue == Numberable(ws, mat)
           number(x) == draws'[x[1]].matches[x[2]].match_number
           place(x) == draws'[x[1]].matches[x[2]].mat_no
<1>1. Of(ws) = Drawn
  BY DEF Of
<1>2. TablesOK /\ mat # NULL /\ NULL \notin Nat
  BY BracketsAssumption DEF TablesInv
<1>3. ASSUME NEW g \in Drawn
      PROVE  /\ draws'[g] # NoDraw
             /\ DOMAIN draws'[g].matches = Keys(draws[g].size)
             /\ \A k \in Keys(draws[g].size) :
                  LET x == <<g, k>> q == Numberable(ws, MatOf(g)) IN
                  /\ number(x) = IF x \in q THEN Position(x, q) ELSE NULL
                  /\ place(x) = IF x \in q THEN MatOf(g) ELSE NULL
                  /\ x \in q => Position(x, q) \in Nat
  <2> DEFINE new == NumberedMatches(g, ws, clear)
             q == Numberable(ws, MatOf(g))
             ms == draws[g].matches
  <2>1. g \in Of(ws) /\ TableOK(draws[g]) /\ g \in Groups
    BY <1>1, <1>2 DEF TablesOK, Drawn
  <2>2. draws'[g] = [draws[g] EXCEPT !.matches = new]
    BY <2>1 DEF Number
  <2>3. draws'[g].matches = new /\ draws'[g].id \in Nat /\ draws'[g].id = draws[g].id
    BY <2>1, <2>2, ReplacedMatches DEF TableOK
  <2>4. new = [k \in Keys(draws[g].size) |-> new[k]]
    BY <1>2, <2>1, NumberedIs
  <2>5. \A k \in DOMAIN ms : ms[k].mat_no = NULL
    BY DEF Range
  <2>6. ASSUME NEW k \in Keys(draws[g].size)
        PROVE  /\ new[k].match_number = IF <<g, k>> \in q THEN Position(<<g, k>>, q) ELSE NULL
               /\ new[k].mat_no = IF <<g, k>> \in q THEN MatOf(g) ELSE NULL
    <3>1. new[k].match_number = IF <<g, k>> \in q THEN Position(<<g, k>>, q) ELSE NULL
      BY <1>2, <2>1, NumberedIs
    <3>2. new[k].mat_no = LET old == IF k \in DOMAIN ms THEN ms[k].mat_no ELSE NULL
                          IN IF <<g, k>> \in q /\ old = NULL THEN MatOf(g) ELSE old
      BY <1>2, <2>1, NumberedIs
    <3> HIDE DEF new, q, ms
    <3> QED BY <2>5, <3>1, <3>2
  <2>7. ASSUME NEW x \in q PROVE Position(x, q) \in Nat
    <3>1. IsFiniteSet({y \in q : Before(y, x)})
      BY <1>2, QueueIs, FS_Subset
    <3> HIDE DEF q
    <3>2. Cardinality({y \in q : Before(y, x)}) \in Nat
      BY <3>1, FS_CardinalityType
    <3> QED BY <3>2 DEF Position
  <2>8. draws'[g] # NoDraw
    BY <2>3 DEF NoDraw, DrawsKnown
  <2> HIDE DEF new, q
  <2> QED BY <2>3, <2>4, <2>6, <2>7, <2>8 DEF q
<1>4. Drawn' = Drawn
  <2>1. DOMAIN draws' = Groups /\ \A g \in Groups \ Drawn : draws'[g] = NoDraw
    BY <1>1 DEF Number, Drawn
  <2> QED BY <1>3, <2>1 DEF Drawn
<1> HIDE DEF ws
<1>5. ASSUME NEW x \in queue
      PROVE  x \in OnMat(mat)' /\ number(x) = Position(x, queue)
  <2>1. PICK g \in Drawn : \E k \in Keys(draws[g].size) : x = <<g, k>> /\ MatOf(g) = mat
    BY <1>2, QueueMembers
  <2>2. PICK k \in Keys(draws[g].size) : x = <<g, k>> /\ MatOf(g) = mat
    BY <2>1
  <2>3. /\ number(x) = Position(x, queue) /\ place(x) = mat /\ Position(x, queue) \in Nat
        /\ k \in DOMAIN draws'[g].matches
    BY <1>3, <1>5, <2>2
  <2>4. x \in UNION {{h} \X DOMAIN draws'[h].matches : h \in Drawn'}
    BY <1>4, <2>2, <2>3
  <2> HIDE DEF queue
  <2> QED BY <1>2, <2>3, <2>4 DEF OnMat, MatchAt
<1>6. ASSUME NEW x \in OnMat(mat)' PROVE x \in queue
  <2>1. PICK g \in Drawn : \E k \in DOMAIN draws'[g].matches : x = <<g, k>>
    BY <1>4 DEF OnMat
  <2>2. PICK k \in Keys(draws[g].size) : x = <<g, k>>
    BY <1>3, <2>1
  <2>3. place(x) = mat
    BY DEF OnMat, MatchAt
  <2> QED BY <1>2, <1>3, <2>2, <2>3
<1> QED BY <1>5, <1>6 DEF ws

\* WholeScheduleInOrder: numbered together, before any match was put on a mat,
\* the matches of a mat are called 1, 2, ..., n, each once, and the finals of
\* all draws last, for any groups, weights, sizes and assignments of mats
\* (numbering_service.py 114-244).
THEOREM ScheduleIsWhole == Spec => WholeScheduleInOrder
<1> DEFINE whole(clear) ==
        /\ draws' # draws /\ lastId' = lastId
        /\ \A g \in Drawn : \A m \in Range(draws[g].matches) : m.mat_no = NULL
        /\ Number({WeightOf[g] : g \in Drawn}, clear)
      => \A mat \in Mats :
           /\ {MatchAt(x)' : x \in OnMat(mat)'} # {} =>
                {MatchAt(x)'.match_number : x \in OnMat(mat)'} = 1..Cardinality(OnMat(mat)')
           /\ \A x, y \in OnMat(mat)' :
                /\ x[2][1] = Rounds(draws[x[1]].size)
                /\ y[2][1] # Rounds(draws[y[1]].size)
                => MatchAt(x)'.match_number > MatchAt(y)'.match_number
<1>1. BracketsInv => \A clear \in BOOLEAN : whole(clear)
  <2> SUFFICES ASSUME BracketsInv, NEW clear \in BOOLEAN,
                      \A g \in Drawn : \A m \in Range(draws[g].matches) : m.mat_no = NULL,
                      Number({WeightOf[g] : g \in Drawn}, clear), NEW mat \in Mats
               PROVE  /\ {MatchAt(x)'.match_number : x \in OnMat(mat)'} = 1..Cardinality(OnMat(mat)')
                      /\ \A x, y \in OnMat(mat)' :
                           /\ x[2][1] = Rounds(draws[x[1]].size)
                           /\ y[2][1] # Rounds(draws[y[1]].size)
                           => MatchAt(x)'.match_number > MatchAt(y)'.match_number
    OBVIOUS
  <2> DEFINE ws == {WeightOf[g] : g \in Drawn}
             queue == Numberable(ws, mat)
  <2>1. /\ OnMat(mat)' = queue
        /\ \A x \in queue : MatchAt(x)'.match_number = Position(x, queue)
    BY WholeQueue DEF MatchAt
  <2>2. TablesOK /\ DrawsKnown
    BY DEF BracketsInv, TablesInv
  <2> HIDE DEF ws
  <2>3. IsFiniteSet(queue) /\ \A x \in queue : Rank(x) \in Ranks
    BY <2>2, QueueIs
  <2>4. ASSUME NEW x \in queue, NEW y \in queue, Rank(x) = Rank(y) PROVE x = y
    <3>1. PICK g \in Drawn : \E k \in Keys(draws[g].size) : x = <<g, k>>
      BY <2>2, QueueMembers
    <3>2. PICK h \in Drawn : \E j \in Keys(draws[h].size) : y = <<h, j>>
      BY <2>2, QueueMembers
    <3> QED BY <2>2, <2>4, <3>1, <3>2, RanksDiffer
  <2>5. {Position(x, queue) : x \in queue} = 1..Cardinality(queue)
    <3> HIDE DEF queue
    <3> QED BY <2>3, <2>4, PositionsAreDense
  <2>6. ASSUME NEW x \in queue, NEW y \in queue,
               x[2][1] = Rounds(draws[x[1]].size), y[2][1] # Rounds(draws[y[1]].size)
        PROVE  Position(x, queue) > Position(y, queue)
    <3>1. PICK g \in Drawn : \E k \in Keys(draws[g].size) : x = <<g, k>>
      BY <2>2, QueueMembers
    <3>2. PICK h \in Drawn : \E j \in Keys(draws[h].size) : y = <<h, j>>
      BY <2>2, QueueMembers
    <3>3. Less(Rank(y), Rank(x))
      BY <2>2, <2>6, <3>1, <3>2, RankIs DEF Less
    <3>4. Before(y, x)
      BY <2>3, <3>3, BeforeIsLess
    <3>5. /\ Position(x, queue) \in Nat /\ Position(y, queue) \in Nat
          /\ Position(y, queue) < Position(x, queue)
      <4> HIDE DEF queue
      <4> QED BY <2>3, <3>4, EarlierPosition
    <3> QED BY <3>5
  <2> HIDE DEF queue
  <2> QED BY <2>1, <2>5, <2>6
<1>2. TablesInv /\ StateTyped /\ DrawsKnown => BracketsInv
  BY DEF BracketsInv
<1>3. WholeScheduleInOrder <=> [][\A clear \in BOOLEAN : whole(clear)]_vars
  BY DEF WholeScheduleInOrder
<1>4. (\A clear \in BOOLEAN : whole(clear)) => [\A clear \in BOOLEAN : whole(clear)]_vars
  OBVIOUS
<1> QED BY <1>1, <1>2, <1>3, <1>4, TablesInductive, BracketsInductive, PTL

-----------------------------------------------------------------------------
(* The table the client's board is drawn from.                             *)

\* Nobody has two seats.
SeatsApart(ms) ==
    \A k, l \in DOMAIN ms, x, y \in {"a", "b"} :
        ms[k][x] # NULL /\ ms[k][x] = ms[l][y] => k = l /\ x = y

\* The first round is there, the players are in it, and who meets nobody
\* there has a BYE.
ShapeOK(d) ==
    /\ {1} \X (0..(d.size \div 2 - 1)) \subseteq DOMAIN d.matches
    /\ \A k \in DOMAIN d.matches :
          LET m == d.matches[k] IN
          IF k[1] = 1 THEN m.is_bye <=> NULL \in {m.a, m.b}
          ELSE m.a = NULL /\ m.b = NULL /\ ~m.is_bye
    /\ SeatsApart(d.matches)

\* Nobody is entered twice.
EntrantsApart ==
    \A g \in Groups : \A i, j \in 1..Len(entrants[g]) : entrants[g][i] = entrants[g][j] => i = j

BoardInv == EntrantsApart /\ \A g \in Drawn : ShapeOK(draws[g])

\* The sides of a match by name and by letter.
LEMMA SideIs ==
    /\ \A m : m["a"] = m.a /\ m["b"] = m.b
    /\ \A m : \A x \in {"a", "b"} : m[x] = IF x = "a" THEN m.a ELSE m.b
OBVIOUS

\* The keys of the first round.
LEMMA FirstKeys ==
    ASSUME NEW size \in Sizes, NEW k \in Keys(size), k[1] = 1
    PROVE  k \in {1} \X (0..(size \div 2 - 1)) /\ k = <<1, k[2]>>
<1>1. size \in Nat /\ k[2] < size \div 2^k[1] /\ k \in (1..Rounds(size)) \X (0..(size - 1))
  BY DEF Keys, Sizes
<1>2. \A r : r = 1 => 2^r = 2
  OBVIOUS
<1>3. k[2] < size \div 2 /\ k[2] \in Nat /\ k = <<k[1], k[2]>>
  BY <1>1, <1>2
<1> QED BY <1>1, <1>3

\* A table whose matches are replaced without touching seats and BYEs.
LEMMA SameShape ==
    ASSUME NEW d, TableOK(d), ShapeOK(d), NEW new, DOMAIN new \subseteq Keys(d.size),
           SameSeats(d.matches, new),
           \A k \in DOMAIN d.matches : new[k].is_bye = d.matches[k].is_bye,
           \A k \in DOMAIN new \ DOMAIN d.matches : ~new[k].is_bye
    PROVE  ShapeOK([d EXCEPT !.matches = new])
<1> DEFINE ms == d.matches
           e == [d EXCEPT !.matches = new]
<1>1. e.size = d.size /\ e.matches = new /\ d.size \in Sizes
  BY ReplacedMatches DEF TableOK
<1> HIDE DEF e
<1>2. /\ DOMAIN ms \subseteq DOMAIN new
      /\ \A k \in DOMAIN ms : new[k].a = ms[k].a /\ new[k].b = ms[k].b
      /\ \A k \in DOMAIN new \ DOMAIN ms : new[k].a = NULL /\ new[k].b = NULL
  BY DEF SameSeats
<1>3. {1} \X (0..(d.size \div 2 - 1)) \subseteq DOMAIN new
  BY <1>2 DEF ShapeOK
<1>4. ASSUME NEW k \in DOMAIN new
      PROVE  IF k[1] = 1 THEN new[k].is_bye <=> NULL \in {new[k].a, new[k].b}
             ELSE new[k].a = NULL /\ new[k].b = NULL /\ ~new[k].is_bye
  <2>1. CASE k \in DOMAIN ms
    BY <1>2, <2>1 DEF ShapeOK
  <2>2. CASE k \notin DOMAIN ms
    <3>1. k[1] # 1
      BY <1>1, <2>2, FirstKeys DEF ShapeOK
    <3>2. k \in DOMAIN new \ DOMAIN ms
      BY <2>2
    <3>3. new[k].a = NULL /\ new[k].b = NULL /\ ~new[k].is_bye
      BY <1>2, <3>2
    <3> QED BY <3>1, <3>3
  <2> QED BY <2>1, <2>2
<1>5. SeatsApart(new)
  <2>1. ASSUME NEW k \in DOMAIN new, NEW x \in {"a", "b"}, new[k][x] # NULL
        PROVE  k \in DOMAIN ms /\ ms[k][x] = new[k][x]
    <3>1. new[k][x] = (IF x = "a" THEN new[k].a ELSE new[k].b)
          /\ ms[k][x] = (IF x = "a" THEN ms[k].a ELSE ms[k].b)
      BY SideIs
    <3> QED BY <1>2, <2>1, <3>1
  <2> QED BY <2>1 DEF ShapeOK, SeatsApart
<1>6. ShapeOK(e)
  BY <1>1, <1>3, <1>4, <1>5 DEF ShapeOK
<1> QED BY <1>6 DEF e

\* A numbering adds rounds without players and gives nobody a BYE.
LEMMA NumberShapes ==
    ASSUME TablesOK, NEW ws, NEW g \in Of(ws), NEW clear \in BOOLEAN, ShapeOK(draws[g])
    PROVE  ShapeOK([draws[g] EXCEPT !.matches = NumberedMatches(g, ws, clear)])
<1> DEFINE ms == draws[g].matches
           p == Prepared(g, clear)
           new == NumberedMatches(g, ws, clear)
           queue == Numberable(ws, MatOf(g))
<1>1. g \in Drawn /\ TableOK(draws[g]) /\ DOMAIN ms \subseteq Keys(draws[g].size)
  BY DEF Of, TablesOK, TableOK
<1>2. DOMAIN new = Keys(draws[g].size) /\ SameSeats(ms, new)
  <2>1. new = [k \in Keys(draws[g].size) |-> new[k]]
    BY NumberedIs
  <2>2. SameSeats(ms, new)
    BY NumberedIs
  <2> HIDE DEF new
  <2> QED BY <2>1, <2>2
<1>3. ASSUME NEW k \in Keys(draws[g].size) PROVE new[k].is_bye = p[k].is_bye
  <2> DEFINE m == p[k]
             c == [m EXCEPT !.mat_no = IF @ = NULL THEN MatOf(g) ELSE @,
                            !.match_number = Position(<<g, k>>, queue)]
  <2>1. MatchOK(m)
    BY <1>1, PreparedIs
  <2>2. new[k] = IF <<g, k>> \in queue THEN c ELSE m
    <3>1. DOMAIN p = Keys(draws[g].size)
      BY DEF Prepared
    <3> QED BY <3>1 DEF NumberedMatches
  <2> HIDE DEF m
  <2>3. c \in [a : {m.a}, b : {m.b}, is_bye : {m.is_bye}, mat_no : {c.mat_no}, match_number : {c.match_number}]
    BY <2>1 DEF MatchOK
  <2> HIDE DEF c
  <2>4. c.is_bye = m.is_bye
    BY <2>3
  <2> HIDE DEF new
  <2> QED BY <2>2, <2>4 DEF m
<1>4. \A k \in DOMAIN ms : p[k].is_bye = ms[k].is_bye
  BY <1>1, PreparedIs
<1>5. \A k \in Keys(draws[g].size) \ DOMAIN ms : ~p[k].is_bye
  BY <1>1, PreparedIs
<1> HIDE DEF new, p
<1> QED BY <1>1, <1>2, <1>3, <1>4, <1>5, SameShape DEF new

\* Clearing the numbers changes no seat.
LEMMA ClearShapes ==
    ASSUME NEW d, TableOK(d), ShapeOK(d)
    PROVE  ShapeOK([d EXCEPT !.matches = [k \in DOMAIN d.matches |->
                                            [d.matches[k] EXCEPT !.match_number = NULL]]])
<1> DEFINE ms == d.matches
           new == [k \in DOMAIN ms |-> [ms[k] EXCEPT !.match_number = NULL]]
<1>1. ASSUME NEW k \in DOMAIN ms
      PROVE  new[k].a = ms[k].a /\ new[k].b = ms[k].b /\ new[k].is_bye = ms[k].is_bye
  <2> DEFINE m == ms[k]  c == [m EXCEPT !.match_number = NULL]
  <2>1. MatchOK(m)
    BY DEF TableOK
  <2> HIDE DEF m
  <2>2. c \in [a : {m.a}, b : {m.b}, is_bye : {m.is_bye}, mat_no : {m.mat_no}, match_number : {NULL}]
    BY <2>1 DEF MatchOK
  <2> HIDE DEF c
  <2>3. c.a = m.a /\ c.b = m.b /\ c.is_bye = m.is_bye
    BY <2>2
  <2> QED BY <2>3 DEF c, m
<1>2. DOMAIN new = DOMAIN ms /\ DOMAIN ms \subseteq Keys(d.size)
  BY DEF TableOK
<1> HIDE DEF new
<1>3. SameSeats(ms, new)
  BY <1>1, <1>2 DEF SameSeats
<1>4. ShapeOK([d EXCEPT !.matches = new])
  BY <1>1, <1>2, <1>3, SameShape
<1> QED BY <1>4 DEF new

\* An order the search can settle on has nobody twice either.
LEMMA OrdersApart ==
    ASSUME NEW entries \in Seq(Players), NEW order \in Orders(entries),
           \A i, j \in 1..Len(entries) : entries[i] = entries[j] => i = j
    PROVE  \A i, j \in 1..Len(order) : order[i] = order[j] => i = j
<1> DEFINE n == Len(entries)
<1>1. n \in Nat /\ entries \in [1..n -> Players] /\ Len(order) = n
  BY OrdersPermute
<1>2. CASE order = entries
  BY <1>2
<1>3. CASE order # entries
  <2>1. PICK f \in [1..n -> 1..n] : /\ \A i, j \in 1..n : f[i] = f[j] => i = j
                                    /\ order = [i \in 1..n |-> entries[f[i]]]
    BY <1>3 DEF Orders
  <2> QED BY <1>1, <2>1
<1> QED BY <1>2, <1>3

\* So a new table has nobody in two slots, whatever its size.
LEMMA SlotsApart ==
    ASSUME NEW size \in Sizes, NEW order \in Seq(Players),
           \A i, j \in 1..Len(order) : order[i] = order[j] => i = j,
           NEW s \in 1..size, NEW t \in 1..size,
           Seat(size, order, s) # NULL, Seat(size, order, s) = Seat(size, order, t)
    PROVE  s = t
<1> DEFINE n == Len(order)
<1>1. n \in Nat /\ size \in Nat /\ s \in Nat /\ t \in Nat
  BY DEF Sizes
<1>2. CASE n <= size
  <2> DEFINE open == Open(size, n)  nth == Nth(size, n)
  <2>1. /\ Seat(size, order, s) = IF s \in open THEN order[nth[s]] ELSE NULL
        /\ Seat(size, order, t) = IF t \in open THEN order[nth[t]] ELSE NULL
    BY <1>2, SeatIs
  <2>2. nth \in Bijection(open, 1..n)
    BY <1>1, <1>2, OpenSlots
  <2> HIDE DEF open, nth
  <2>3. s \in open /\ t \in open /\ order[nth[s]] = order[nth[t]]
    BY <2>1
  <2>4. nth[s] \in 1..n /\ nth[t] \in 1..n /\ (nth[s] = nth[t] => s = t)
    BY <2>2, <2>3, Fun_BijectionProperties
  <2> QED BY <2>3, <2>4
<1>3. CASE n > size
  <2>1. Seat(size, order, s) = order[s] /\ Seat(size, order, t) = order[t]
    BY <1>3, SeatIs
  <2>2. s \in 1..n /\ t \in 1..n
    BY <1>1, <1>3
  <2> QED BY <2>1, <2>2
<1> QED BY <1>1, <1>2, <1>3

\* A new table has its shape.
LEMMA NewShape ==
    ASSUME NEW size \in Sizes, NEW seats, NEW id,
           \A s, t \in 1..size : seats[s] # NULL /\ seats[s] = seats[t] => s = t
    PROVE  ShapeOK([id |-> id, size |-> size, matches |-> FirstRoundMatches(size, seats)])
<1> DEFINE ms == FirstRoundMatches(size, seats)
           slot(k, x) == 2 * k[2] + (IF x = "a" THEN 1 ELSE 2)
<1>1. PICK half \in Nat : size = 2 * half /\ size \div 2 = half /\ size \in Nat
  BY SizesAreEven, Z3 DEF Sizes
<1>2. DOMAIN ms = {1} \X (0..(half - 1))
  BY <1>1, FirstRoundIs
<1>3. ASSUME NEW k \in DOMAIN ms
      PROVE  /\ ms[k].a = seats[2 * k[2] + 1] /\ ms[k].b = seats[2 * k[2] + 2]
             /\ ms[k].is_bye <=> NULL \in {ms[k].a, ms[k].b}
             /\ k = <<1, k[2]>> /\ k[2] \in 0..(half - 1)
  <2>1. ms[k] = [a |-> seats[2 * k[2] + 1], b |-> seats[2 * k[2] + 2],
                 is_bye |-> NULL \in {seats[2 * k[2] + 1], seats[2 * k[2] + 2]},
                 mat_no |-> NULL, match_number |-> NULL]
    <3>1. k \in {1} \X (0..(size \div 2 - 1))
      BY FirstRoundIs
    <3> HIDE DEF ms
    <3> QED BY <3>1 DEF FirstRoundMatches, ms
  <2>2. k = <<1, k[2]>> /\ k[2] \in 0..(half - 1)
    BY <1>2
  <2> HIDE DEF ms
  <2>3. ms[k].a = seats[2 * k[2] + 1] /\ ms[k].b = seats[2 * k[2] + 2]
    BY <2>1
  <2>4. ms[k].is_bye = (NULL \in {seats[2 * k[2] + 1], seats[2 * k[2] + 2]})
    BY <2>1
  <2> QED BY <2>2, <2>3, <2>4
<1> HIDE DEF ms
<1>4. ASSUME NEW k \in DOMAIN ms, NEW x \in {"a", "b"}
      PROVE  ms[k][x] = seats[slot(k, x)] /\ slot(k, x) \in 1..size
  <2>1. ms[k][x] = IF x = "a" THEN ms[k].a ELSE ms[k].b
    BY SideIs
  <2> QED BY <1>1, <1>3, <2>1
<1>5. SeatsApart(ms)
  <2>1. ASSUME NEW k \in DOMAIN ms, NEW l \in DOMAIN ms, NEW x \in {"a", "b"}, NEW y \in {"a", "b"},
               ms[k][x] # NULL, ms[k][x] = ms[l][y]
        PROVE  k = l /\ x = y
    <3>1. slot(k, x) = slot(l, y)
      <4> HIDE DEF slot
      <4> QED BY <1>4, <2>1
    <3>2. k[2] = l[2] /\ x = y
      BY <1>3, <3>1
    <3> QED BY <1>3, <3>2
  <2> QED BY <2>1 DEF SeatsApart
<1>6. \A k \in DOMAIN ms : k[1] = 1 /\ (ms[k].is_bye <=> NULL \in {ms[k].a, ms[k].b})
  BY <1>2, <1>3
<1>7. {1} \X (0..(size \div 2 - 1)) \subseteq DOMAIN ms
  BY <1>1, <1>2
<1> QED BY <1>5, <1>6, <1>7 DEF ShapeOK, ms

\* Nobody is entered twice, and every table has its shape, at every moment
\* (draw_service.py 169-348, numbering_service.py 53-87 and 114-244).
THEOREM BoardInductive == Spec => []BoardInv
<1>1. Init => BoardInv
  BY DEF Init, BoardInv, EntrantsApart, Drawn
<1>2. BracketsInv /\ BoardInv /\ [Next]_vars => BoardInv'
  <2> SUFFICES ASSUME BracketsInv, BoardInv, [Next]_vars PROVE BoardInv'
    OBVIOUS
  <2>1. ASSUME UNCHANGED entrants PROVE EntrantsApart'
    BY <2>1 DEF BoardInv, EntrantsApart
  <2>2. ASSUME UNCHANGED entrants,
               \A g \in Drawn' : draws'[g] # draws[g] => ShapeOK(draws'[g])
        PROVE  BoardInv'
    <3>1. ASSUME NEW g \in Drawn' PROVE ShapeOK(draws'[g])
      <4>1. CASE draws'[g] = draws[g]
        BY <4>1 DEF BoardInv, Drawn
      <4>2. CASE draws'[g] # draws[g]
        BY <2>2, <4>2
      <4> QED BY <4>1, <4>2
    <3>2. (\A g \in Drawn : ShapeOK(draws[g]))' <=> \A g \in Drawn' : ShapeOK(draws'[g])
      BY DEF ShapeOK, SeatsApart
    <3> QED BY <2>1, <2>2, <3>1, <3>2 DEF BoardInv
  <2>3. ASSUME NEW g \in Groups, NEW p \in Players, Enroll(g, p) PROVE BoardInv'
    <3>1. /\ entrants' = [entrants EXCEPT ![g] = Append(@, p)] /\ UNCHANGED draws
          /\ \A h \in Groups : entrants[h] \in Seq(Players) /\ p \notin Range(entrants[h])
      BY <2>3 DEF Enroll, BracketsInv, StateTyped
    <3>2. ASSUME NEW h \in Groups, NEW i \in 1..Len(entrants'[h]), NEW j \in 1..Len(entrants'[h]),
                 entrants'[h][i] = entrants'[h][j]
          PROVE  i = j
      <4> DEFINE e == entrants[h]
      <4>1. e \in Seq(Players) /\ p \notin Range(e) /\ entrants'[h] = IF h = g THEN Append(e, p) ELSE e
        BY <3>1 DEF BracketsInv, StateTyped
      <4>2. \A k, l \in 1..Len(e) : e[k] = e[l] => k = l
        BY DEF BoardInv, EntrantsApart
      <4>3. \A k \in 1..Len(e) : e[k] # p
        BY <4>1 DEF Range
      <4> HIDE DEF e
      <4> QED BY <3>2, <4>1, <4>2, <4>3
    <3>3. EntrantsApart'
      BY <3>2 DEF EntrantsApart
    <3> QED BY <3>1, <3>3 DEF BoardInv, Drawn
  <2>4. ASSUME NEW g \in Groups, StartDraw(g) PROVE BoardInv'
    <3>1. UNCHANGED entrants
      BY <2>4 DEF StartDraw
    <3>2. CASE UNCHANGED draws
      BY <2>2, <3>1, <3>2
    <3>3. ASSUME NEW requested, IsPow2(requested), NEW order \in Orders(entrants[g]),
                 NEW newYear \in BOOLEAN, CreateDraw(g, requested, order, newYear)
          PROVE  BoardInv'
      <4> DEFINE size == DrawSize(requested, Len(entrants[g]))
                 seats == [s \in 1..size |-> Seat(size, order, s)]
                 d == [id |-> lastId + 1, size |-> size, matches |-> FirstRoundMatches(size, seats)]
      <4>1. size \in Sizes /\ entrants[g] \in Seq(Players)
        BY <3>3, SizeIs DEF BracketsInv, StateTyped
      <4>2. draws' = [draws EXCEPT ![g] = d]
        BY <3>3 DEF CreateDraw
      <4>3. /\ order \in Seq(Players)
            /\ \A i, j \in 1..Len(order) : order[i] = order[j] => i = j
        BY <4>1, OrdersPermute, OrdersApart DEF BoardInv, EntrantsApart
      <4> HIDE DEF size
      <4>4. \A s, t \in 1..size : seats[s] # NULL /\ seats[s] = seats[t] => s = t
        BY <4>1, <4>3, SlotsApart
      <4> HIDE DEF seats
      <4>5. ShapeOK(d)
        BY <4>1, <4>4, NewShape
      <4> HIDE DEF d
      <4>6. \A h \in Groups : draws'[h] # draws[h] => draws'[h] = d
        BY <4>2 DEF BracketsInv, TablesInv, TablesOK
      <4> QED BY <2>2, <3>1, <4>5, <4>6 DEF Drawn
    <3> QED BY <2>4, <3>2, <3>3 DEF StartDraw
  <2>5. ASSUME NEW ws, NEW clear \in BOOLEAN, Number(ws, clear) PROVE BoardInv'
    <3>1. ASSUME NEW g \in Drawn', draws'[g] # draws[g] PROVE ShapeOK(draws'[g])
      <4>1. g \in Of(ws) /\ draws'[g] = [draws[g] EXCEPT !.matches = NumberedMatches(g, ws, clear)]
        BY <2>5, <3>1 DEF Number, Drawn
      <4> QED BY <4>1, NumberShapes DEF Of, BoardInv, BracketsInv, TablesInv
    <3> QED BY <2>2, <2>5, <3>1 DEF Number
  <2>6. ASSUME NEW ws, ClearNumbers(ws) PROVE BoardInv'
    <3>1. ASSUME NEW g \in Drawn', draws'[g] # draws[g] PROVE ShapeOK(draws'[g])
      <4> DEFINE d == draws[g]
      <4>1. g \in Of(ws)
            /\ draws'[g] = [d EXCEPT !.matches =
                              [k \in DOMAIN d.matches |-> [d.matches[k] EXCEPT !.match_number = NULL]]]
        BY <2>6, <3>1 DEF ClearNumbers, Drawn
      <4>2. TableOK(d) /\ ShapeOK(d)
        BY <4>1 DEF Of, BoardInv, BracketsInv, TablesInv, TablesOK
      <4> HIDE DEF d
      <4> QED BY <4>1, <4>2, ClearShapes
    <3> QED BY <2>2, <2>6, <3>1 DEF ClearNumbers
  <2>7. CASE \/ UNCHANGED vars \/ Publish \/ Unpublish
             \/ \E w \in Weights, mats \in Assignments : AssignMats(w, mats)
             \/ \E g \in Groups : CountEntrants(g)
    BY <2>2, <2>7 DEF vars, Publish, Unpublish, AssignMats, CountEntrants
  <2> QED BY <2>3, <2>4, <2>5, <2>6, <2>7 DEF Next
<1> QED BY <1>1, <1>2, TablesInductive, BracketsInductive, PTL DEF Spec, BracketsInv

-----------------------------------------------------------------------------
(* The columns of the board.                                               *)

\* The rounds of a table of up to 32 slots fit on the board: a power of two
\* from 2^6 on is a multiple of 64.
LEMMA RoundsFit ==
    ASSUME NEW size \in Sizes, size <= 32
    PROVE  Rounds(size) \in 1..5 /\ 2^Rounds(size) = size
<1> DEFINE r == Rounds(size)
<1>1. r \in Nat /\ r >= 1 /\ size \in Nat /\ size >= 2
  BY RoundsIs DEF Sizes
<1>2. 2^r = size
  <2>1. \E q \in 0..size : 2^q = size
    BY DEF Sizes, IsPow2
  <2> QED BY <2>1 DEF Rounds
<1> HIDE DEF r
<1>3. ASSUME r >= 6 PROVE FALSE
  <2> DEFINE p(k) == 2^(r - k)
  <2>1. \A k \in 0..5 : p(k + 1) \in Nat /\ p(k) = p(k + 1) + p(k + 1)
    <3> SUFFICES ASSUME NEW k \in 0..5 PROVE p(k + 1) \in Nat /\ p(k) = p(k + 1) + p(k + 1)
      OBVIOUS
    <3> DEFINE q == r - k
    <3>1. q \in Nat /\ q >= 1 /\ q - 1 = r - (k + 1)
      BY <1>1, <1>3
    <3> HIDE DEF q
    <3>2. 2^(q - 1) \in Nat /\ 2^q = 2^(q - 1) + 2^(q - 1)
      BY <3>1, Doubling
    <3>3. p(k + 1) = 2^(q - 1) /\ p(k) = 2^q
      BY <3>1 DEF q
    <3> QED BY <3>2, <3>3
  <2>2. p(0) = size
    BY <1>1, <1>2
  <2> HIDE DEF p
  <2>3. /\ p(1) \in Nat /\ p(2) \in Nat /\ p(3) \in Nat /\ p(4) \in Nat /\ p(5) \in Nat /\ p(6) \in Nat
        /\ p(0) = 2 * p(1) /\ p(1) = 2 * p(2) /\ p(2) = 2 * p(3)
        /\ p(3) = 2 * p(4) /\ p(4) = 2 * p(5) /\ p(5) = 2 * p(6)
    <3>1. \A k \in 0..5 : \A l : l = k + 1 => p(l) \in Nat /\ p(k) = 2 * p(l)
      BY <2>1
    <3> QED BY <3>1
  <2> QED BY <1>1, <2>2, <2>3
<1> QED BY <1>1, <1>2, <1>3 DEF r

\* The first column leaves room for the others, and has a place for every
\* match of the first round.
LEMMA BoardIs ==
    ASSUME NEW d, d.size \in Sizes, d.size <= 32
    PROVE  /\ FirstColumn(d) \in Columns
           /\ \A c \in Columns : RoundIn(d, c) = c - FirstColumn(d) + 1
           /\ 2^(5 - FirstColumn(d)) = d.size \div 2
<1> DEFINE r == Rounds(d.size)
<1>1. r \in 1..5 /\ 2^r = d.size
  BY RoundsFit
<1>2. Max({1, r}) = r
  <2> HIDE DEF r
  <2>1. \A x \in {1, r} : (\A y \in {1, r} : x >= y) <=> x = r
    BY <1>1
  <2> QED BY <2>1 DEF Max
<1>3. \A c \in Columns : RoundIn(d, c) = c - (5 - r)
  BY <1>2 DEF RoundIn
<1> HIDE DEF r
<1>4. FirstColumn(d) = 6 - r
  <2> DEFINE S == {c \in Columns : RoundIn(d, c) >= 1}
  <2>1. S = {c \in 1..5 : c >= 6 - r}
    BY <1>1, <1>3 DEF Columns
  <2> HIDE DEF S
  <2>2. \A x \in S : (\A y \in S : x <= y) <=> x = 6 - r
    BY <1>1, <2>1
  <2>3. 6 - r \in S
    BY <1>1, <2>1
  <2>4. Min(S) = 6 - r
    BY <2>2, <2>3 DEF Min
  <2> QED BY <2>4 DEF FirstColumn, S
<1>5. 2^(5 - FirstColumn(d)) = d.size \div 2
  <2>1. 5 - FirstColumn(d) = r - 1
    BY <1>1, <1>4
  <2>2. 2^(r - 1) \in Nat /\ 2^r = 2^(r - 1) + 2^(r - 1)
    BY <1>1, Doubling
  <2> DEFINE p == 2^(r - 1)
  <2>3. p \in Nat /\ d.size = p + p /\ 2^(5 - FirstColumn(d)) = p
    BY <1>1, <2>1, <2>2
  <2> HIDE DEF p
  <2>4. d.size \div 2 = p
    BY <2>3
  <2> QED BY <2>3, <2>4
<1> QED BY <1>1, <1>3, <1>4, <1>5 DEF Columns

\* A table the page can draw.
TableFits(d) == TableOK(d) /\ ShapeOK(d) /\ AllPlaced(d.matches) /\ d.size <= 32
Sides == {"a", "b"}

\* The cells of the first two columns that a table uses.
LEMMA CellsAre ==
    ASSUME NEW d, d.size \in Sizes, d.size <= 32
    PROVE  /\ \A i \in 0..(d.size \div 2 - 1), x \in Sides : <<FirstColumn(d), i, x>> \in Cells
           /\ \A cell \in Cells : /\ cell = <<cell[1], cell[2], cell[3]>>
                                  /\ cell[1] \in Columns /\ cell[2] \in Nat /\ cell[3] \in Sides
           /\ \A cell \in Cells : cell[1] = FirstColumn(d) + 1 =>
                                     2 * cell[2] + 1 \in 0..(d.size \div 2 - 1)
<1> DEFINE first == FirstColumn(d)
           half == d.size \div 2
           In(c) == {c} \X (0..(2^(5 - c) - 1)) \X Sides
<1>1. first \in 1..5 /\ 2^(5 - first) = half /\ half \in Nat
  <2>1. first \in Columns /\ 2^(5 - first) = half
    BY BoardIs
  <2> QED BY <2>1 DEF Columns, Sizes
<1>2. Cells = UNION {In(c) : c \in Columns}
  BY DEF Cells, Sides
<1>3. \A c : \A cell \in In(c) : /\ cell = <<cell[1], cell[2], cell[3]>> /\ cell[1] = c
                                 /\ cell[2] \in 0..(2^(5 - c) - 1) /\ cell[3] \in Sides
  OBVIOUS
<1>4. \A i \in 0..(half - 1), x \in Sides : <<first, i, x>> \in In(first)
  BY <1>1
<1> HIDE DEF In
<1>5. \A i \in 0..(half - 1), x \in Sides : <<first, i, x>> \in Cells
  BY <1>1, <1>2, <1>4 DEF Columns
<1>6. ASSUME NEW cell \in Cells
      PROVE  /\ cell = <<cell[1], cell[2], cell[3]>>
             /\ cell[1] \in Columns /\ cell[3] \in Sides /\ cell[2] \in 0..(2^(5 - cell[1]) - 1)
  <2>1. PICK c \in Columns : cell \in In(c)
    BY <1>2
  <2> QED BY <1>3, <2>1
<1>7. ASSUME NEW cell \in Cells, cell[1] = first + 1 PROVE 2 * cell[2] + 1 \in 0..(half - 1)
  <2> DEFINE q == 5 - first  p == 2^(q - 1)
  <2>1. first + 1 \in 1..5 /\ q - 1 = 5 - cell[1] /\ q \in Nat /\ q >= 1
    BY <1>1, <1>6, <1>7 DEF Columns
  <2> HIDE DEF q
  <2>2. p \in Nat /\ 2^q = p + p
    BY <2>1, Doubling
  <2>3. half = 2^q
    BY <1>1 DEF q
  <2>4. cell[2] \in 0..(p - 1)
    BY <1>6, <2>1
  <2> HIDE DEF p
  <2> QED BY <2>2, <2>3, <2>4
<1> QED BY <1>5, <1>6, <1>7

\* No name reads like an empty cell.
LEMMA NameIs == \A p \in Players : Name(p) # NULL /\ Name(p) # Rest /\ p # NULL
BY BracketsAssumption, BracketBoardAssumption DEF Name, Range

\* What the first column shows of a seat: its player, a rest beside a player,
\* or nothing.
InColumn(d, k, x) ==
    IF d.matches[k][x] # NULL THEN Name(d.matches[k][x])
    ELSE IF d.matches[k][Opposite(x)] # NULL THEN Rest ELSE NULL

\* What the rows of the draw put into those columns.
LEMMA WrittenIs ==
    ASSUME NEW d, TableFits(d)
    PROVE  /\ \A i \in 0..(d.size \div 2 - 1), x \in Sides :
                 Written(d)[<<FirstColumn(d), i, x>>] = InColumn(d, <<1, i>>, x)
           /\ \A cell \in Cells : cell[1] = FirstColumn(d) + 1 => Written(d)[cell] = NULL
<1> DEFINE first == FirstColumn(d)
           ms == d.matches
<1>0. d.size \in Sizes /\ d.size <= 32
  BY DEF TableFits, TableOK
<1>1. first \in Columns /\ \A c \in Columns : RoundIn(d, c) = c - first + 1
  BY <1>0, BoardIs
<1>2. first \in Nat
  BY <1>1 DEF Columns
<1> HIDE DEF first
<1>3. ASSUME NEW i \in 0..(d.size \div 2 - 1), NEW x \in Sides
      PROVE  Written(d)[<<first, i, x>>] = InColumn(d, <<1, i>>, x)
  <2> DEFINE m == ms[<<1, i>>]
  <2>1. <<first, i, x>> \in Cells
    BY <1>0, CellsAre DEF first
  <2>2. <<1, i>> \in DOMAIN ms /\ (m.is_bye <=> NULL \in {m.a, m.b})
    <3>1. <<1, i>> \in DOMAIN ms
      BY DEF TableFits, ShapeOK
    <3> QED BY <3>1 DEF TableFits, ShapeOK
  <2>3. RoundIn(d, first) = 1
    BY <1>1, <1>2
  <2>4. Written(d)[<<first, i, x>>] =
          IF m[x] # NULL THEN Name(m[x])
          ELSE IF m[Opposite(x)] # NULL /\ m.is_bye THEN Rest ELSE NULL
    BY <2>1, <2>2, <2>3 DEF Written, first
  <2>5. m[x] = NULL => m.is_bye
    <3>1. m[x] = IF x = "a" THEN m.a ELSE m.b
      BY SideIs DEF Sides
    <3> HIDE DEF m
    <3> QED BY <2>2, <3>1
  <2> HIDE DEF m
  <2>6. InColumn(d, <<1, i>>, x) =
          IF m[x] # NULL THEN Name(m[x]) ELSE IF m[Opposite(x)] # NULL THEN Rest ELSE NULL
    BY DEF InColumn, m
  <2> QED BY <2>4, <2>5, <2>6
<1>4. ASSUME NEW cell \in Cells, cell[1] = first + 1 PROVE Written(d)[cell] = NULL
  <2> DEFINE k == <<2, cell[2]>>
             m == ms[k]
  <2>1. cell[1] \in Columns /\ cell[3] \in Sides
    BY <1>0, CellsAre
  <2>2. RoundIn(d, cell[1]) = 2
    BY <1>1, <1>2, <1>4, <2>1
  <2>3. CASE k \notin DOMAIN ms
    BY <2>2, <2>3 DEF Written
  <2>4. CASE k \in DOMAIN ms
    <3>1. k[1] # 1
      OBVIOUS
    <3>2. m.a = NULL /\ m.b = NULL
      BY <2>4, <3>1 DEF TableFits, ShapeOK
    <3>3. m[cell[3]] = NULL /\ m[Opposite(cell[3])] = NULL
      BY <2>1, <3>2, SideIs DEF Sides, Opposite
    <3> QED BY <2>2, <2>4, <3>3 DEF Written
  <2> QED BY <2>3, <2>4
<1> QED BY <1>3, <1>4 DEF first

\* Who is in the second round without fighting, for a match of the first.
Passes(m) ==
    IF m.a # NULL /\ m.b = NULL THEN Name(m.a)
    ELSE IF m.b # NULL /\ m.a = NULL THEN Name(m.b)
    ELSE NULL

\* A board that shows the first round, and who is already in the second.
ShowsTable(board, d) ==
    /\ \A i \in 0..(d.size \div 2 - 1), x \in Sides :
          board[<<FirstColumn(d), i, x>>] = InColumn(d, <<1, i>>, x)
    /\ \A cell \in Cells : cell[1] = FirstColumn(d) + 1 =>
          board[cell] = Passes(d.matches[<<1, Feeder(cell)[2]>>])

\* The seats of a match of the first round.
LEMMA PlaceIs ==
    ASSUME NEW d, TableFits(d), NEW i \in 0..(d.size \div 2 - 1)
    PROVE  LET k == <<1, i>>  m == d.matches[k] IN
           /\ k \in DOMAIN d.matches /\ m.a \in Maybe(Players) /\ m.b \in Maybe(Players)
           /\ InColumn(d, k, "a") = IF m.a # NULL THEN Name(m.a)
                                    ELSE IF m.b # NULL THEN Rest ELSE NULL
           /\ InColumn(d, k, "b") = IF m.b # NULL THEN Name(m.b)
                                    ELSE IF m.a # NULL THEN Rest ELSE NULL
<1> DEFINE k == <<1, i>>  m == d.matches[k]
<1>1. k \in DOMAIN d.matches
  BY DEF TableFits, ShapeOK
<1>2. m.a \in Maybe(Players) /\ m.b \in Maybe(Players)
  BY <1>1 DEF TableFits, AllPlaced, Placed
<1>3. m["a"] = m.a /\ m["b"] = m.b /\ Opposite("a") = "b" /\ Opposite("b") = "a"
  BY SideIs DEF Opposite
<1> QED BY <1>1, <1>2, <1>3 DEF InColumn

\* The match a cell of the second column is filled from.
LEMMA FeederIs ==
    ASSUME NEW d, TableFits(d), NEW cell \in Cells, cell[1] = FirstColumn(d) + 1
    PROVE  /\ Feeder(cell)[1] = FirstColumn(d) /\ Feeder(cell)[2] \in 0..(d.size \div 2 - 1)
           /\ Feeder(cell)[2] = 2 * cell[2] + IF cell[3] = "a" THEN 0 ELSE 1
<1>1. d.size \in Sizes /\ d.size <= 32
  BY DEF TableFits, TableOK
<1>2. FirstColumn(d) \in Nat
  BY <1>1, BoardIs DEF Columns
<1>3. cell[2] \in Nat /\ 2 * cell[2] + 1 \in 0..(d.size \div 2 - 1) /\ d.size \in Nat
  BY <1>1, CellsAre DEF Sizes
<1> QED BY <1>2, <1>3 DEF Feeder

\* Several names: who has a rest moves on.
LEMMA PropagatedIs ==
    ASSUME NEW d, TableFits(d)
    PROVE  ShowsTable(Propagated(d), d)
<1> DEFINE first == FirstColumn(d)
           written == Written(d)
           pair(i) == {written[<<first, i, x>>] : x \in Sides}
<1>0. d.size \in Sizes /\ d.size <= 32 /\ first \in Nat
  <2>1. d.size \in Sizes /\ d.size <= 32
    BY DEF TableFits, TableOK
  <2> QED BY <2>1, BoardIs DEF Columns
<1>1. ASSUME NEW i \in 0..(d.size \div 2 - 1), NEW x \in Sides
      PROVE  Propagated(d)[<<first, i, x>>] = InColumn(d, <<1, i>>, x)
  <2> DEFINE cell == <<first, i, x>>
  <2>1. cell \in Cells /\ cell[1] # first + 1
    BY <1>0, CellsAre
  <2>2. Propagated(d)[cell] = written[cell]
    BY <2>1 DEF Propagated
  <2> QED BY <2>2, WrittenIs
<1>2. ASSUME NEW cell \in Cells, cell[1] = first + 1
      PROVE  Propagated(d)[cell] = Passes(d.matches[<<1, Feeder(cell)[2]>>])
  <2> DEFINE i == Feeder(cell)[2]
             m == d.matches[<<1, i>>]
  <2>1. Feeder(cell)[1] = first /\ i \in 0..(d.size \div 2 - 1)
    BY <1>2, FeederIs
  <2>2. Propagated(d)[cell] = IF Rest \in pair(i) /\ pair(i) \ {NULL, Rest} # {}
                              THEN CHOOSE name \in pair(i) : name # Rest ELSE NULL
    <3>1. written[cell] = NULL
      BY <1>2, WrittenIs
    <3> QED BY <1>2, <2>1, <3>1 DEF Propagated, Sides
  <2>3. pair(i) = {InColumn(d, <<1, i>>, "a"), InColumn(d, <<1, i>>, "b")}
    BY <2>1, WrittenIs DEF Sides
  <2> HIDE DEF i, pair
  <2>4. /\ m.a \in Maybe(Players) /\ m.b \in Maybe(Players)
        /\ pair(i) = {IF m.a # NULL THEN Name(m.a) ELSE IF m.b # NULL THEN Rest ELSE NULL,
                      IF m.b # NULL THEN Name(m.b) ELSE IF m.a # NULL THEN Rest ELSE NULL}
    BY <2>1, <2>3, PlaceIs
  <2> HIDE DEF m
  <2>5. CASE m.a # NULL /\ m.b = NULL
    <3>1. pair(i) = {Name(m.a), Rest} /\ Name(m.a) \notin {NULL, Rest}
      BY <2>4, <2>5, NameIs DEF Maybe
    <3>2. (CHOOSE name \in pair(i) : name # Rest) = Name(m.a)
      BY <3>1
    <3> QED BY <2>2, <2>5, <3>1, <3>2 DEF Passes, m, i
  <2>6. CASE m.b # NULL /\ m.a = NULL
    <3>1. pair(i) = {Name(m.b), Rest} /\ Name(m.b) \notin {NULL, Rest}
      BY <2>4, <2>6, NameIs DEF Maybe
    <3>2. (CHOOSE name \in pair(i) : name # Rest) = Name(m.b)
      BY <3>1
    <3> QED BY <2>2, <2>6, <3>1, <3>2 DEF Passes, m, i
  <2>7. CASE m.a # NULL /\ m.b # NULL
    <3>1. pair(i) = {Name(m.a), Name(m.b)} /\ Rest \notin {Name(m.a), Name(m.b)}
      BY <2>4, <2>7, NameIs DEF Maybe
    <3> QED BY <2>2, <2>7, <3>1 DEF Passes, m, i
  <2>8. CASE m.a = NULL /\ m.b = NULL
    <3>1. pair(i) = {NULL} /\ Rest # NULL
      BY <2>4, <2>8, BracketBoardAssumption
    <3> QED BY <2>2, <2>8, <3>1 DEF Passes, m, i
  <2> QED BY <2>5, <2>6, <2>7, <2>8
<1> QED BY <1>1, <1>2 DEF ShowsTable

\* The only player of a table: in one seat of the first round.
LEMMA OnlySeat ==
    ASSUME NEW d, TableFits(d), NEW p, SeatsOf(d.matches) = {p}
    PROVE  /\ p \in Players /\ Names(d) = {Name(p)}
           /\ \E i \in 0..(d.size \div 2 - 1), x \in Sides :
                \A j \in 0..(d.size \div 2 - 1), y \in Sides :
                  d.matches[<<1, j>>][y] = IF j = i /\ y = x THEN p ELSE NULL
<1> DEFINE ms == d.matches
<1>1. \A k \in DOMAIN ms : ms[k].a \in {p, NULL} /\ ms[k].b \in {p, NULL}
  BY DEF SeatsOf, Range
<1>2. PICK k \in DOMAIN ms : p \in {ms[k].a, ms[k].b} /\ p # NULL
  BY DEF SeatsOf, Range
<1>3. p \in Players
  BY <1>2 DEF TableFits, AllPlaced, Placed, Maybe
<1>4. Names(d) = {Name(p)}
  <2>1. \A l \in DOMAIN ms : {Name(ms[l].a), Name(ms[l].b)} \subseteq {NULL, Name(p)}
    BY <1>1 DEF Name
  <2>2. Name(p) \in {Name(ms[k].a), Name(ms[k].b)} /\ Name(p) # NULL
    BY <1>2, <1>3, NameIs
  <2>3. \A name : name \in Names(d) <=>
          name # NULL /\ \E l \in DOMAIN ms : name \in {Name(ms[l].a), Name(ms[l].b)}
    BY DEF Names, Range
  <2> QED BY <2>1, <2>2, <2>3
<1>5. PICK x \in Sides : ms[k][x] = p
  BY <1>2, SideIs DEF Sides
<1>6. k[1] = 1 /\ k = <<1, k[2]>> /\ k[2] \in 0..(d.size \div 2 - 1)
  <2>1. k[1] = 1
    BY <1>2 DEF TableFits, ShapeOK
  <2>2. k \in Keys(d.size) /\ d.size \in Sizes
    BY DEF TableFits, TableOK
  <2> QED BY <2>1, <2>2, FirstKeys
<1>7. ASSUME NEW j \in 0..(d.size \div 2 - 1), NEW y \in Sides
      PROVE  ms[<<1, j>>][y] = IF j = k[2] /\ y = x THEN p ELSE NULL
  <2>1. <<1, j>> \in DOMAIN ms
    BY DEF TableFits, ShapeOK
  <2>2. ms[<<1, j>>][y] \in {p, NULL}
    BY <1>1, <2>1, SideIs DEF Sides
  <2>3. ms[<<1, j>>][y] = p => k = <<1, j>> /\ x = y
    BY <1>2, <1>5, <2>1 DEF TableFits, ShapeOK, SeatsApart, Sides
  <2> QED BY <1>2, <1>5, <1>6, <2>2, <2>3
<1> QED BY <1>3, <1>4, <1>6, <1>7

\* One name: it is carried along its path, which begins in its seat.
LEMMA SinglePathIs ==
    ASSUME NEW d, TableFits(d), NEW p, SeatsOf(d.matches) = {p}
    PROVE  ShowsTable(SinglePath(d, Name(p)), d)
<1> DEFINE first == FirstColumn(d)
           half == d.size \div 2
           name == Name(p)
           board == Written(d)
           seats == {i \in 0..(2^(5 - first) - 1) :
                        name \in {board[<<first, i, "a">>], board[<<first, i, "b">>]}}
           seat == IF seats = {} THEN 0 ELSE Min(seats)
           side == IF board[<<first, seat, "b">>] = name /\ board[<<first, seat, "a">>] # name
                   THEN "b" ELSE "a"
           At(c) == seat \div 2^(c - first)
           Side(c) == IF c = first THEN side ELSE IF At(c - 1) % 2 = 0 THEN "a" ELSE "b"
<1>0. d.size \in Sizes /\ d.size <= 32 /\ first \in Columns /\ 2^(5 - first) = half
  <2>1. d.size \in Sizes /\ d.size <= 32
    BY DEF TableFits, TableOK
  <2> QED BY <2>1, BoardIs
<1>1. first \in Nat /\ half \in Nat
  BY <1>0 DEF Columns, Sizes
<1>2. PICK i \in 0..(half - 1), x \in Sides :
        \A j \in 0..(half - 1), y \in Sides :
          d.matches[<<1, j>>][y] = IF j = i /\ y = x THEN p ELSE NULL
  BY OnlySeat
<1>3. p \in Players /\ name # NULL /\ name # Rest /\ p # NULL
  BY OnlySeat, NameIs
<1>4. ASSUME NEW j \in 0..(half - 1), NEW y \in Sides
      PROVE  /\ board[<<first, j, y>>] = InColumn(d, <<1, j>>, y)
             /\ InColumn(d, <<1, j>>, y) = IF j # i THEN NULL ELSE IF y = x THEN name ELSE Rest
             /\ Opposite(y) \in Sides /\ Opposite(y) # y
  <2>1. Opposite(y) \in Sides /\ Opposite(y) # y /\ (y = x <=> Opposite(y) # x)
    BY DEF Opposite, Sides
  <2>2. board[<<first, j, y>>] = InColumn(d, <<1, j>>, y)
    BY WrittenIs
  <2>3. /\ d.matches[<<1, j>>][y] = IF j = i /\ y = x THEN p ELSE NULL
        /\ d.matches[<<1, j>>][Opposite(y)] = IF j = i /\ Opposite(y) = x THEN p ELSE NULL
    BY <1>2, <2>1
  <2> HIDE DEF board, name
  <2> QED BY <1>3, <2>1, <2>2, <2>3 DEF InColumn, name
<1>5. seats = {i}
  <2>1. seats = {j \in 0..(half - 1) : name \in {board[<<first, j, "a">>], board[<<first, j, "b">>]}}
    BY <1>0
  <2>2. ASSUME NEW j \in 0..(half - 1)
        PROVE  name \in {board[<<first, j, "a">>], board[<<first, j, "b">>]} <=> j = i
    <3> HIDE DEF board, name, first
    <3> QED BY <1>3, <1>4 DEF Sides
  <2> HIDE DEF seats
  <2> QED BY <2>1, <2>2
<1>6. seat = i
  <2>1. \A y \in {i} : (\A z \in {i} : y <= z) <=> y = i
    BY <1>1
  <2>2. Min({i}) = i
    BY <2>1 DEF Min
  <2> HIDE DEF seats
  <2> QED BY <1>5, <2>2
<1>7. side = x
  <2> HIDE DEF board, name, seat, first
  <2> QED BY <1>3, <1>4, <1>6 DEF Sides
<1>8. ASSUME NEW cell \in Cells, cell[1] >= first
      PROVE  SinglePath(d, name)[cell] =
               IF cell = <<cell[1], At(cell[1]), Side(cell[1])>> THEN name
               ELSE IF cell = <<first, seat, Opposite(side)>> THEN Rest
               ELSE board[cell]
  <2>1. ~(cell[1] < first)
    BY <1>0, <1>1, <1>8, CellsAre DEF Columns
  <2> QED BY <2>1 DEF SinglePath
<1> HIDE DEF board, name, seat, side, seats
<1>9. At(first) = i /\ At(first + 1) = i \div 2
  <2>1. \A r : r = 0 => 2^r = 1
    OBVIOUS
  <2>2. \A r : r = 1 => 2^r = 2
    OBVIOUS
  <2>3. first - first = 0 /\ (first + 1) - first = 1
    BY <1>1
  <2>4. 2^(first - first) = 1 /\ 2^((first + 1) - first) = 2
    BY <2>1, <2>2, <2>3
  <2> QED BY <1>6, <2>4
<1>10. Side(first) = x /\ Side(first + 1) = IF i % 2 = 0 THEN "a" ELSE "b"
  <2>1. first + 1 # first /\ (first + 1) - 1 = first
    BY <1>1
  <2> HIDE DEF At
  <2> QED BY <1>7, <1>9, <2>1
<1> HIDE DEF At, Side, first, half
<1>11. ASSUME NEW j \in 0..(half - 1), NEW y \in Sides
       PROVE  SinglePath(d, name)[<<first, j, y>>] = InColumn(d, <<1, j>>, y)
  <2> DEFINE cell == <<first, j, y>>
  <2>1. cell \in Cells /\ cell[1] = first
    BY <1>0, CellsAre DEF first, half
  <2>2. SinglePath(d, name)[cell] =
          IF cell = <<first, i, x>> THEN name
          ELSE IF cell = <<first, i, Opposite(x)>> THEN Rest
          ELSE board[cell]
    BY <1>1, <1>6, <1>7, <1>8, <1>9, <1>10, <2>1
  <2>3. y # x => y = Opposite(x)
    BY DEF Opposite, Sides
  <2> QED BY <1>4, <2>2, <2>3
<1>12. ASSUME NEW cell \in Cells, cell[1] = first + 1
       PROVE  SinglePath(d, name)[cell] = Passes(d.matches[<<1, Feeder(cell)[2]>>])
  <2> DEFINE j == Feeder(cell)[2]
             m == d.matches[<<1, j>>]
  <2>1. j \in 0..(half - 1) /\ j = 2 * cell[2] + IF cell[3] = "a" THEN 0 ELSE 1
    BY <1>12, FeederIs DEF first, half
  <2>2. cell = <<cell[1], cell[2], cell[3]>> /\ cell[2] \in Nat /\ cell[3] \in Sides
    BY <1>0, CellsAre
  <2>3. board[cell] = NULL
    BY <1>12, WrittenIs DEF board, first
  <2>4. SinglePath(d, name)[cell] =
          IF cell[2] = i \div 2 /\ cell[3] = (IF i % 2 = 0 THEN "a" ELSE "b") THEN name ELSE NULL
    <3>1. cell[1] >= first /\ cell[1] # first
      BY <1>1, <1>12
    <3>2. cell # <<first, seat, Opposite(side)>>
      BY <2>2, <3>1
    <3>3. cell = <<cell[1], At(cell[1]), Side(cell[1])>> <=>
            cell[2] = i \div 2 /\ cell[3] = IF i % 2 = 0 THEN "a" ELSE "b"
      BY <1>9, <1>10, <1>12, <2>2
    <3> QED BY <1>8, <2>3, <3>1, <3>2, <3>3
  <2> HIDE DEF j
  <2>5. (cell[2] = i \div 2 /\ cell[3] = IF i % 2 = 0 THEN "a" ELSE "b") <=> j = i
    <3>1. CASE cell[3] = "a"
      BY <2>1, <2>2, <3>1
    <3>2. CASE cell[3] = "b"
      BY <2>1, <2>2, <3>2
    <3> QED BY <2>2, <3>1, <3>2 DEF Sides
  <2>6. Passes(m) = IF j = i THEN name ELSE NULL
    <3>1. /\ m.a = IF j = i /\ "a" = x THEN p ELSE NULL
          /\ m.b = IF j = i /\ "b" = x THEN p ELSE NULL
      <4>1. m["a"] = m.a /\ m["b"] = m.b
        BY SideIs
      <4> HIDE DEF m
      <4>2. /\ m["a"] = IF j = i /\ "a" = x THEN p ELSE NULL
            /\ m["b"] = IF j = i /\ "b" = x THEN p ELSE NULL
        BY <1>2, <2>1 DEF m, Sides
      <4> QED BY <4>1, <4>2
    <3> HIDE DEF m
    <3> QED BY <1>3, <3>1 DEF Passes, name, Sides
  <2> QED BY <2>4, <2>5, <2>6 DEF j
<1> QED BY <1>11, <1>12 DEF ShowsTable, first, half, name

\* Both ways of filling the board show the table.
LEMMA BoardShows ==
    ASSUME NEW d, TableFits(d), Cardinality(Names(d)) = Cardinality(SeatsOf(d.matches))
    PROVE  ShowsTable(Board(d), d)
<1> DEFINE ms == d.matches
           S == SeatsOf(ms)
<1>1. CASE Cardinality(Names(d)) # 1
  BY <1>1, PropagatedIs DEF Board
<1>2. CASE Cardinality(Names(d)) = 1
  <2>1. IsFiniteSet(DOMAIN ms)
    <3>1. IsFiniteSet(Keys(d.size)) /\ DOMAIN ms \subseteq Keys(d.size)
      BY KeysAre DEF TableFits, TableOK
    <3> QED BY <3>1, FS_Subset
  <2>2. IsFiniteSet(S)
    <3> DEFINE tops == {ms[k].a : k \in DOMAIN ms}  bottoms == {ms[k].b : k \in DOMAIN ms}
    <3>1. IsFiniteSet(tops) /\ IsFiniteSet(bottoms)
      <4>1. [k \in DOMAIN ms |-> ms[k].a] \in Surjection(DOMAIN ms, tops)
        BY DEF Surjection
      <4>2. [k \in DOMAIN ms |-> ms[k].b] \in Surjection(DOMAIN ms, bottoms)
        BY DEF Surjection
      <4> HIDE DEF tops, bottoms, ms
      <4> QED BY <2>1, <4>1, <4>2, FS_Surjection
    <3>2. IsFiniteSet(tops \cup bottoms)
      BY <3>1, FS_Union
    <3>3. S \subseteq tops \cup bottoms
      BY DEF SeatsOf, Range
    <3> HIDE DEF S, tops, bottoms
    <3> QED BY <3>2, <3>3, FS_Subset
  <2>3. PICK p : S = {p}
    <3> HIDE DEF S
    <3>1. Cardinality(S) = 1
      BY <1>2 DEF S
    <3> QED BY <2>2, <3>1, FS_Singleton
  <2>4. Names(d) = {Name(p)}
    BY <2>3, OnlySeat
  <2>5. (CHOOSE name \in Names(d) : TRUE) = Name(p)
    BY <2>4
  <2>6. Board(d) = SinglePath(d, Name(p))
    BY <1>2, <2>5 DEF Board
  <2> QED BY <2>3, <2>6, SinglePathIs
<1> QED BY <1>1, <1>2

\* What is known of a table on show.
LEMMA ShownFits ==
    ASSUME BracketsInv, BoardInv, NEW g \in Shown, Drawable(g)
    PROVE  /\ TableFits(draws[g]) /\ ShowsTable(Board(draws[g]), draws[g])
           /\ \A k \in DOMAIN draws[g].matches :
                ~draws[g].matches[k].is_bye => draws[g].matches[k].match_number # NULL
<1>1. g \in Drawn /\ Unnumbered(g) = {}
  BY DEF Shown
<1>2. TableFits(draws[g])
  BY <1>1 DEF BracketsInv, BoardInv, TablesInv, TablesOK, DrawsKnown, Drawable, TableFits
<1>3. Cardinality(Names(draws[g])) = Cardinality(SeatsOf(draws[g].matches))
  BY DEF Drawable, Seated, SeatsOf
<1> QED BY <1>1, <1>2, <1>3, BoardShows DEF Unnumbered

\* BoardShowsTheDraw: a table of up to 32 slots on which no two players share a
\* name is drawn with every name in its seat, and in the second column with
\* exactly those who have no opponent in the first, for any players and names
\* and after any draws, numberings and clearings (CompetitionBracket.jsx
\* 116-246).
THEOREM BoardFollowsDraw == Spec => []BoardShowsTheDraw
<1>1. BracketsInv /\ BoardInv => BoardShowsTheDraw
  <2> SUFFICES ASSUME BracketsInv, BoardInv, NEW g \in Shown, Drawable(g)
      PROVE  LET d == draws[g] board == Board(d) first == FirstColumn(d) IN
        /\ \A k \in DOMAIN d.matches, pos \in {"a", "b"} : k[1] = 1 =>
              /\ d.matches[k][pos] # NULL => board[<<first, k[2], pos>>] = Name(d.matches[k][pos])
              /\ d.matches[k][pos] = NULL => board[<<first, k[2], pos>>] \in {NULL, Rest}
        /\ \A cell \in Cells : cell[1] = first + 1 =>
              LET m == d.matches[<<1, Feeder(cell)[2]>>] IN
              board[cell] = IF m.a # NULL /\ m.b = NULL THEN Name(m.a)
                            ELSE IF m.b # NULL /\ m.a = NULL THEN Name(m.b)
                            ELSE NULL
    BY DEF BoardShowsTheDraw
  <2> DEFINE d == draws[g]  board == Board(d)  first == FirstColumn(d)
  <2>1. TableFits(d) /\ ShowsTable(board, d)
    BY ShownFits
  <2> HIDE DEF d, board
  <2>2. ASSUME NEW k \in DOMAIN d.matches, NEW pos \in {"a", "b"}, k[1] = 1
        PROVE  /\ d.matches[k][pos] # NULL => board[<<first, k[2], pos>>] = Name(d.matches[k][pos])
               /\ d.matches[k][pos] = NULL => board[<<first, k[2], pos>>] \in {NULL, Rest}
    <3>1. k = <<1, k[2]>> /\ k[2] \in 0..(d.size \div 2 - 1)
      BY <2>1, <2>2, FirstKeys DEF TableFits, TableOK
    <3>2. board[<<first, k[2], pos>>] = InColumn(d, k, pos)
      BY <2>1, <3>1 DEF ShowsTable, Sides
    <3> QED BY <3>2 DEF InColumn
  <2>3. \A cell \in Cells : cell[1] = first + 1 =>
          board[cell] = Passes(d.matches[<<1, Feeder(cell)[2]>>])
    BY <2>1 DEF ShowsTable
  <2> QED BY <2>2, <2>3 DEF Passes, d, board
<1> QED BY <1>1, TablesInductive, BracketsInductive, BoardInductive, PTL DEF BracketsInv

\* BoutsWearTheirNumbers: on such a board a match that is fought carries the
\* number its mat calls, and a match passed without fighting carries none
\* (CompetitionBracket.jsx 95-106, 230-239).
THEOREM BoutsKeepNumbers == Spec => []BoutsWearTheirNumbers
<1>1. BracketsInv /\ BoardInv => BoutsWearTheirNumbers
  <2> SUFFICES ASSUME BracketsInv, BoardInv, NEW g \in Shown, Drawable(g), NEW bubble \in Bubbles
      PROVE  LET d == draws[g] text == BubbleText(d)
                 k == <<RoundIn(d, bubble[1]), bubble[2]>>
             IN k \in DOMAIN d.matches =>
                /\ ~d.matches[k].is_bye => text[bubble] = d.matches[k].match_number
                /\ d.matches[k].is_bye /\ {d.matches[k].a, d.matches[k].b} # {NULL}
                      => text[bubble] = NULL
    BY DEF BoutsWearTheirNumbers
  <2> DEFINE d == draws[g]  board == Board(d)  first == FirstColumn(d)
             k == <<RoundIn(d, bubble[1]), bubble[2]>>
             m == d.matches[k]
             rest == RestPair(board, bubble[1], bubble[2])
  <2>1. /\ TableFits(d) /\ ShowsTable(board, d)
        /\ \A l \in DOMAIN d.matches : ~d.matches[l].is_bye => d.matches[l].match_number # NULL
    BY ShownFits
  <2> HIDE DEF d
  <2>2. k \in DOMAIN d.matches => BubbleText(d)[bubble] =
          IF bubble[1] = first /\ rest THEN NULL ELSE NumberShown(d, k)
    BY DEF BubbleText
  <2>3. d.size \in Sizes /\ d.size <= 32 /\ DOMAIN d.matches \subseteq Keys(d.size)
    BY <2>1 DEF TableFits, TableOK
  <2>4. first \in Columns /\ bubble[1] \in Columns /\ RoundIn(d, bubble[1]) = bubble[1] - first + 1
    <3>1. bubble[1] \in Columns
      BY DEF Bubbles
    <3> QED BY <2>3, <3>1, BoardIs
  <2>5. ASSUME k \in DOMAIN d.matches, k[1] = 1
        PROVE  rest <=> (m.a # NULL) # (m.b # NULL)
    <3> DEFINE i == bubble[2]
    <3>1. k = <<1, i>> /\ i \in 0..(d.size \div 2 - 1)
      BY <2>3, <2>5, FirstKeys
    <3>2. bubble[1] = first
      BY <2>4, <2>5 DEF Columns
    <3>3. board[<<first, i, "a">>] = InColumn(d, k, "a") /\ board[<<first, i, "b">>] = InColumn(d, k, "b")
      BY <2>1, <3>1 DEF ShowsTable, Sides
    <3>4. /\ m.a \in Maybe(Players) /\ m.b \in Maybe(Players)
          /\ InColumn(d, k, "a") = IF m.a # NULL THEN Name(m.a) ELSE IF m.b # NULL THEN Rest ELSE NULL
          /\ InColumn(d, k, "b") = IF m.b # NULL THEN Name(m.b) ELSE IF m.a # NULL THEN Rest ELSE NULL
      BY <2>1, <3>1, PlaceIs
    <3>5. (m.a # NULL => Name(m.a) # Rest) /\ (m.b # NULL => Name(m.b) # Rest) /\ Rest # NULL
      BY <3>4, NameIs, BracketBoardAssumption DEF Maybe
    <3> HIDE DEF board, m, k
    <3> QED BY <3>2, <3>3, <3>4, <3>5 DEF RestPair
  <2>6. ASSUME k \in DOMAIN d.matches
        PROVE  /\ k[1] = 1 => (m.is_bye <=> m.a = NULL \/ m.b = NULL)
               /\ k[1] # 1 => ~m.is_bye
               /\ bubble[1] = first => k[1] = 1
    <3>1. bubble[1] = first => k[1] = 1
      BY <2>4 DEF Columns
    <3>2. IF k[1] = 1 THEN m.is_bye <=> NULL \in {m.a, m.b} ELSE ~m.is_bye
      BY <2>1, <2>6 DEF TableFits, ShapeOK
    <3> HIDE DEF k, m
    <3> QED BY <3>1, <3>2
  <2> HIDE DEF board, rest, k, first
  <2>7. ASSUME k \in DOMAIN d.matches, ~m.is_bye PROVE BubbleText(d)[bubble] = m.match_number
    <3>1. ~(bubble[1] = first /\ rest)
      BY <2>5, <2>6, <2>7
    <3>2. NumberShown(d, k) = m.match_number
      BY <2>1, <2>7 DEF NumberShown
    <3> QED BY <2>2, <2>7, <3>1, <3>2
  <2>8. ASSUME k \in DOMAIN d.matches, m.is_bye, {m.a, m.b} # {NULL}
        PROVE  BubbleText(d)[bubble] = NULL
    <3>1. k[1] = 1 /\ (m.a # NULL) # (m.b # NULL)
      BY <2>6, <2>8
    <3>2. bubble[1] = first
      BY <2>4, <3>1 DEF Columns, k
    <3> QED BY <2>2, <2>5, <2>8, <3>1, <3>2
  <2> QED BY <2>7, <2>8 DEF d, k
<1> QED BY <1>1, TablesInductive, BracketsInductive, BoardInductive, PTL DEF BracketsInv

-----------------------------------------------------------------------------
(* The search for an order.                                                *)

\* The sum over a finite set in which an element counts 100 if it is in R, and
\* 1 more if it is in C.
Weighted(s, R, C) == 100 * Cardinality(R \cap s) + Cardinality(C \cap s)

Worth(k, R, C) == (IF k \in R THEN 100 ELSE 0) + (IF k \in C THEN 1 ELSE 0)

Some(s) == CHOOSE x \in s : TRUE

\* One element adds what it is worth.
LEMMA WeightedStep ==
    ASSUME NEW S, IsFiniteSet(S), NEW R, NEW C, NEW s \in SUBSET S, NEW x \in s
    PROVE  /\ Weighted(s, R, C) = Worth(x, R, C) + Weighted(s \ {x}, R, C)
           /\ Weighted(s, R, C) \in Nat
<1>1. ASSUME NEW A PROVE /\ Cardinality(A \cap s) = Cardinality(A \cap (s \ {x})) + (IF x \in A THEN 1 ELSE 0)
                         /\ Cardinality(A \cap s) \in Nat /\ Cardinality(A \cap (s \ {x})) \in Nat
  <2>1. IsFiniteSet(A \cap s) /\ IsFiniteSet(A \cap (s \ {x}))
    BY FS_Subset
  <2>2. Cardinality(A \cap s) \in Nat /\ Cardinality(A \cap (s \ {x})) \in Nat
    BY <2>1, FS_CardinalityType
  <2>3. CASE x \notin A
    <3>1. A \cap s = A \cap (s \ {x})
      BY <2>3
    <3> QED BY <2>2, <2>3, <3>1
  <2>4. CASE x \in A
    <3>1. A \cap (s \ {x}) = (A \cap s) \ {x} /\ x \in A \cap s
      BY <2>4
    <3> DEFINE T == A \cap s
    <3>0. IsFiniteSet(T) /\ x \in T
      BY <2>1, <3>1
    <3> HIDE DEF T
    <3>2. Cardinality(T \ {x}) = Cardinality(T) - 1
      BY <3>0, FS_RemoveElement
    <3>3. A \cap (s \ {x}) = T \ {x} /\ T = A \cap s
      BY <3>1 DEF T
    <3>4. Cardinality(A \cap (s \ {x})) = Cardinality(A \cap s) - 1
      BY <3>2, <3>3, Zenon
    <3> QED BY <2>2, <2>4, <3>4
  <2> QED BY <2>3, <2>4
<1>2. /\ Cardinality(R \cap s) = Cardinality(R \cap (s \ {x})) + (IF x \in R THEN 1 ELSE 0)
      /\ Cardinality(R \cap s) \in Nat /\ Cardinality(R \cap (s \ {x})) \in Nat
  BY <1>1
<1>3. /\ Cardinality(C \cap s) = Cardinality(C \cap (s \ {x})) + (IF x \in C THEN 1 ELSE 0)
      /\ Cardinality(C \cap s) \in Nat /\ Cardinality(C \cap (s \ {x})) \in Nat
  BY <1>1
<1> QED BY <1>2, <1>3 DEF Weighted, Worth

\* A set without a smallest counterexample has none: induction on the size of
\* the subsets of a finite set.
LEMMA FoldIs ==
    ASSUME NEW S, IsFiniteSet(S), NEW R, NEW C, NEW F,
           \A s \in SUBSET S : F[s] = IF s = {} THEN 0 ELSE Worth(Some(s), R, C) + F[s \ {Some(s)}]
    PROVE  F[S] = Weighted(S, R, C)
<1> DEFINE Wrong == {s \in SUBSET S : F[s] # Weighted(s, R, C)}
           Counts == {n \in Nat : \E s \in Wrong : Cardinality(s) = n}
           Smaller == OpToRel(<, Nat)
<1>0. \A s \in SUBSET S : IsFiniteSet(s) /\ Cardinality(s) \in Nat
  BY FS_Subset, FS_CardinalityType
<1>1. SUFFICES Counts = {}
  BY <1>0
<1>2. SUFFICES ASSUME Counts # {} PROVE FALSE
  OBVIOUS
<1>3. IsWellFoundedOn(Smaller, Nat)
  BY NatLessThanWellFounded
<1> HIDE DEF Smaller
<1>4. PICK n \in Counts : \A m \in Counts : <<m, n>> \notin Smaller
  BY <1>2, <1>3, WFMin
<1>5. PICK s \in Wrong : Cardinality(s) = n
  BY <1>4
<1>6. s # {}
  <2>1. SUFFICES ASSUME s = {} PROVE FALSE
    OBVIOUS
  <2>2. F[{}] = 0
    BY <2>1
  <2>3. Weighted({}, R, C) = 0
    <3>1. R \cap {} = {} /\ C \cap {} = {} /\ Cardinality({}) = 0
      BY FS_EmptySet
    <3> QED BY <3>1 DEF Weighted
  <2> QED BY <1>5, <2>1, <2>2, <2>3
<1> DEFINE x == Some(s)
           rest == s \ {x}
<1>7. x \in s
  BY <1>6 DEF Some
<1>8. F[s] = Worth(x, R, C) + F[rest] /\ rest \in SUBSET S
  BY <1>5, <1>6
<1> HIDE DEF x
<1>9. Cardinality(rest) = n - 1 /\ n - 1 \in Nat
  <2>1. IsFiniteSet(s)
    BY <1>0, <1>5
  <2>2. Cardinality(s \ {x}) = Cardinality(s) - 1 /\ Cardinality(s \ {x}) \in Nat
    BY <1>0, <1>5, <1>7, <2>1, FS_RemoveElement
  <2> QED BY <1>5, <2>2
<1>10. Weighted(s, R, C) = Worth(x, R, C) + Weighted(rest, R, C)
  BY <1>5, <1>7, WeightedStep
<1>11. rest \in Wrong
  BY <1>5, <1>8, <1>10
<1>12. n - 1 \in Counts
  BY <1>9, <1>11
<1>13. <<n - 1, n>> \in Smaller
  BY <1>9 DEF Smaller, OpToRel
<1> QED BY <1>4, <1>12, <1>13

\* At most one pair meets in each match of the first round.
LEMMA PairsFinite ==
    ASSUME table.size \in Nat, NEW order
    PROVE  /\ IsFiniteSet(RealPairs(order)) /\ Cardinality(RealPairs(order)) \in Nat
           /\ Cardinality(RealPairs(order)) <= table.size \div 2
<1> DEFINE n == table.size \div 2
           S == RealPairs(order)
<1>1. n \in Nat
  OBVIOUS
<1>2. S \subseteq 1..n
  BY DEF RealPairs
<1> HIDE DEF n, S
<1>3. IsFiniteSet(1..n) /\ Cardinality(1..n) = n
  BY <1>1, FS_Interval
<1>4. IsFiniteSet(S) /\ Cardinality(S) <= Cardinality(1..n) /\ Cardinality(S) \in Nat
  BY <1>2, <1>3, FS_Subset, FS_CardinalityType
<1> QED BY <1>3, <1>4 DEF n, S

\* The matches that cost, and what one match costs.
Repeating(order) ==
    {k \in RealPairs(order) :
        RepeatsPair(SeatOf(order, 2*k - 1), SeatOf(order, 2*k), table.history)}
Clashing(order) ==
    {k \in RealPairs(order) :
        ClubClash(SeatOf(order, 2*k - 1), SeatOf(order, 2*k),
                  Count, table.threshold)}

CostOf(order, k) ==
    PairCost(SeatOf(order, 2*k - 1), SeatOf(order, 2*k),
             Count, table.threshold, table.history)

\* The price of an order is that of its repeats and its clashes.
LEMMA CostIsWeighted ==
    ASSUME table.size \in Nat, NEW order
    PROVE  OrderCost(order) = 100 * Repeats(order) + Clashes(order)
<1> DEFINE S == RealPairs(order)
           R == Repeating(order)
           C == Clashing(order)
           Unfold(it) == [s \in SUBSET S |-> IF s = {} THEN 0
                                             ELSE CostOf(order, Some(s)) + it[s \ {Some(s)}]]
           F == CHOOSE it : it = Unfold(it)
           G == [s \in SUBSET S |-> Weighted(s, R, C)]
<1>1. OrderCost(order) = F[S]
  BY DEF OrderCost, MapThenSumSet, MapThenFoldSet, CostOf, Some
<1>2. \A k \in S : CostOf(order, k) = Worth(k, R, C)
  BY DEF CostOf, PairCost, Worth, Repeating, Clashing, REPEAT_PAIR_PENALTY, SAME_CLUB_PENALTY
<1>3. IsFiniteSet(S)
  BY PairsFinite
<1>4. R \subseteq S /\ C \subseteq S
  BY DEF Repeating, Clashing
<1> HIDE DEF S, R, C
<1>5. Weighted({}, R, C) = 0
  <2>1. R \cap {} = {} /\ C \cap {} = {} /\ Cardinality({}) = 0
    BY FS_EmptySet
  <2> QED BY <2>1 DEF Weighted
<1>6. G = Unfold(G)
  <2>1. ASSUME NEW s \in SUBSET S, s # {} PROVE G[s] = CostOf(order, Some(s)) + G[s \ {Some(s)}]
    <3>1. Some(s) \in s
      BY <2>1 DEF Some
    <3> DEFINE x == Some(s)
    <3> HIDE DEF x
    <3>2. Weighted(s, R, C) = Worth(x, R, C) + Weighted(s \ {x}, R, C)
      BY <1>3, <3>1, WeightedStep DEF x
    <3>3. CostOf(order, x) = Worth(x, R, C)
      BY <1>2, <3>1 DEF x
    <3> QED BY <3>2, <3>3 DEF x
  <2>2. G[{}] = 0
    BY <1>5
  <2> QED BY <2>1, <2>2
<1>7. F = Unfold(F)
  BY <1>6, Zenon
<1> HIDE DEF F
<1>8. ASSUME NEW s \in SUBSET S
      PROVE  F[s] = IF s = {} THEN 0 ELSE Worth(Some(s), R, C) + F[s \ {Some(s)}]
  <2>1. F[s] = IF s = {} THEN 0 ELSE CostOf(order, Some(s)) + F[s \ {Some(s)}]
    <3>1. F[s] = Unfold(F)[s]
      BY <1>7, Zenon
    <3> QED BY <3>1
  <2>2. s # {} => Some(s) \in S
    BY DEF Some
  <2> QED BY <1>2, <2>1, <2>2
<1>9. F[S] = Weighted(S, R, C)
  BY <1>3, <1>8, FoldIs
<1>10. R \cap S = R /\ C \cap S = C
  BY <1>4
<1>11. Weighted(S, R, C) = 100 * Cardinality(R) + Cardinality(C)
  <2> DEFINE repeats == Cardinality(R \cap S)
             clashes == Cardinality(C \cap S)
  <2>1. repeats = Cardinality(R) /\ clashes = Cardinality(C)
    BY <1>10, Zenon
  <2>2. Weighted(S, R, C) = 100 * repeats + clashes
    BY DEF Weighted
  <2> HIDE DEF repeats, clashes
  <2> QED BY <2>1, <2>2
<1>12. Repeats(order) = Cardinality(R) /\ Clashes(order) = Cardinality(C)
  BY DEF Repeats, Clashes, R, C, Repeating, Clashing
<1> QED BY <1>1, <1>9, <1>11, <1>12

\* The order kept is the cheapest tried, and once the loop is left there is one.
SearchInv ==
    /\ table \in Tables
    /\ tried = {} => left = 0 \/ best = NULL
    /\ tried # {} => best # NULL /\ bestCost = OrderCost(best)
    /\ \A t \in tried : bestCost <= OrderCost(t)
    /\ left = 0 \/ best # NULL => best \in Orders(table.entries)

\* The price is a number, and there are no more clashes than matches.
LEMMA CostTyped ==
    ASSUME table \in Tables, NEW order
    PROVE  /\ OrderCost(order) = 100 * Repeats(order) + Clashes(order)
           /\ Repeats(order) \in Nat /\ Clashes(order) \in Nat
           /\ Clashes(order) <= table.size \div 2
<1>1. table.size \in Nat
  BY SearchAssumption
<1>2. Repeating(order) \subseteq RealPairs(order) /\ Clashing(order) \subseteq RealPairs(order)
  BY DEF Repeating, Clashing
<1>3. /\ Cardinality(Repeating(order)) \in Nat /\ Cardinality(Clashing(order)) \in Nat
      /\ Cardinality(Clashing(order)) <= table.size \div 2
  <2> DEFINE R == Repeating(order)
             C == Clashing(order)
             S == RealPairs(order)
             half == table.size \div 2
  <2>1. IsFiniteSet(S) /\ Cardinality(S) \in Nat /\ Cardinality(S) <= half /\ half \in Nat
    BY <1>1, PairsFinite
  <2>2. R \subseteq S /\ C \subseteq S
    BY <1>2
  <2> HIDE DEF R, C, S, half
  <2>3. IsFiniteSet(R) /\ IsFiniteSet(C) /\ Cardinality(C) <= Cardinality(S)
    BY <2>1, <2>2, FS_Subset
  <2>4. Cardinality(R) \in Nat /\ Cardinality(C) \in Nat
    BY <2>3, FS_CardinalityType
  <2> QED BY <2>1, <2>3, <2>4 DEF R, C, half
<1>4. Repeats(order) = Cardinality(Repeating(order)) /\ Clashes(order) = Cardinality(Clashing(order))
  BY DEF Repeats, Clashes, Repeating, Clashing
<1> QED BY <1>1, <1>3, <1>4, CostIsWeighted

\* The search for an order: at any moment the one kept is among those allowed
\* and none tried was cheaper (draw_service.py 128-164).
THEOREM SearchInductive == SearchSpec => []SearchInv
<1>1. SearchInit => SearchInv
  <2> SUFFICES ASSUME SearchInit PROVE SearchInv
    OBVIOUS
  <2>1. Count <= 2 => best \in Orders(table.entries)
    BY DEF SearchInit, Orders, Count
  <2>2. Count <= 2 \/ (best = NULL /\ left # 0)
    <3>1. ASSUME ~(Count <= 2) PROVE best = NULL /\ left # 0
      <4>1. best = NULL /\ left = Max({1, Attempts})
        BY <3>1 DEF SearchInit
      <4>2. Max({1, Attempts}) # 0
        <5> DEFINE most == IF Attempts < 1 THEN 1 ELSE Attempts
        <5>1. most \in {1, Attempts} /\ \A n \in {1, Attempts} : n <= most
          BY SearchAssumption
        <5>2. Max({1, Attempts}) \in {1, Attempts} /\ \A n \in {1, Attempts} : n <= Max({1, Attempts})
          BY <5>1, Zenon DEF Max
        <5> QED BY <5>2, SearchAssumption
      <4> QED BY <4>1, <4>2
    <3> QED BY <3>1
  <2> QED BY <2>1, <2>2 DEF SearchInit, SearchInv
<1>2. SearchInv /\ [Turn]_searchVars => SearchInv'
  <2> SUFFICES ASSUME SearchInv, [Turn]_searchVars PROVE SearchInv'
    OBVIOUS
  <2>0. table' = table
    BY DEF Turn, Shuffle, searchVars
  <2>1. OrderCost(best)' = OrderCost(best') /\ \A o : OrderCost(o)' = OrderCost(o)
    <3>1. OrderCost(best)' = OrderCost(best')
      BY <2>0 DEF OrderCost, MapThenSumSet, MapThenFoldSet, RealPairs, SeatOf, Count
    <3>2. \A o : OrderCost(o)' = OrderCost(o)
      BY <2>0 DEF OrderCost, MapThenSumSet, MapThenFoldSet, RealPairs, SeatOf, Count
    <3> QED BY <3>1, <3>2
  <2>2. CASE UNCHANGED searchVars
    <3>1. OrderCost(best)' = OrderCost(best)
      BY <2>1, <2>2 DEF searchVars
    <3> QED BY <2>1, <2>2, <3>1 DEF searchVars, SearchInv
  <2>3. ASSUME NEW order \in Orders(table.entries), Shuffle(order) PROVE SearchInv'
    <3> DEFINE cost == OrderCost(order)
               better == best = NULL \/ cost < bestCost
    <3>1. \A o : OrderCost(o) \in Int
      BY CostTyped DEF SearchInv
    <3>2. order # NULL
      BY <2>3, SearchAssumption DEF SearchInv
    <3>3. /\ best' = IF better THEN order ELSE best
          /\ bestCost' = IF better THEN cost ELSE bestCost
          /\ tried' = tried \cup {order} /\ left # 0
      BY <2>3 DEF Shuffle
    <3>4. best' # NULL /\ bestCost' = OrderCost(best') /\ best' \in Orders(table.entries)
      BY <2>3, <3>2, <3>3 DEF SearchInv
    <3>5. \A t \in tried' : bestCost' <= OrderCost(t)
      <4>1. CASE tried = {}
        BY <3>1, <3>3, <4>1 DEF SearchInv
      <4>2. CASE tried # {}
        BY <3>1, <3>3, <4>2 DEF SearchInv
      <4> QED BY <4>1, <4>2
    <3> QED BY <2>0, <2>1, <3>3, <3>4, <3>5 DEF SearchInv
  <2> QED BY <2>2, <2>3 DEF Turn
<1> QED BY <1>1, <1>2, PTL DEF SearchSpec

\* RepeatsOutweighClubs: the order returned repeats no more first-round pairs than
\* any other tried, and among those it has the fewest of one club.  The two
\* penalties, 100 and 1, bear this out for tables of less than 200 slots:
\* with a hundred matches, that many clashes would outweigh a repeat
\* (draw_service.py 14-16, 77-125).
THEOREM RepeatsFirst ==
    ASSUME \A t \in Tables : t.size < 200
    PROVE  SearchSpec => []RepeatsOutweighClubs
<1>1. SearchInv => RepeatsOutweighClubs
  <2> SUFFICES ASSUME SearchInv, NEW t \in tried
      PROVE  \/ Repeats(best) < Repeats(t)
             \/ Repeats(best) = Repeats(t) /\ Clashes(best) <= Clashes(t)
    <3>1. SearchInv /\ tried # {} => Result = best
      BY DEF SearchInv, Result
    <3> QED BY <3>1 DEF RepeatsOutweighClubs
  <2> DEFINE half == table.size \div 2
  <2>1. OrderCost(best) <= OrderCost(t)
    BY DEF SearchInv
  <2>2. /\ OrderCost(best) = 100 * Repeats(best) + Clashes(best)
        /\ Repeats(best) \in Nat /\ Clashes(best) \in Nat
    BY CostTyped DEF SearchInv
  <2>3. /\ OrderCost(t) = 100 * Repeats(t) + Clashes(t)
        /\ Repeats(t) \in Nat /\ Clashes(t) \in Nat /\ Clashes(t) <= half
    BY CostTyped DEF SearchInv
  <2>4. half \in Nat /\ half < 100
    BY SearchAssumption DEF SearchInv
  <2> HIDE DEF half
  <2> QED BY <2>1, <2>2, <2>3, <2>4
<1> QED BY <1>1, SearchInductive, PTL

\* What the draw relies on (Brackets takes any of Orders): a search that has
\* come to its end holds an order of all the entries.
THEOREM SearchSettles == SearchSpec => [](left = 0 => best \in Orders(table.entries))
<1>1. SearchInv => (left = 0 => best \in Orders(table.entries))
  BY DEF SearchInv
<1> QED BY <1>1, SearchInductive, PTL

-----------------------------------------------------------------------------
(* The ready-made patterns of BYEs.                                        *)

\* The ready-made sizes are powers of two.
LEMMA ReadySizes == ASSUME NEW size \in DOMAIN ByeOrderMap PROVE size \in Sizes
<1>1. size \in {2, 4, 8, 16, 32, 64}
  BY DEF ByeOrderMap
<1> DEFINE Power(n) == \E r \in Nat : r <= n /\ 2^r = n
<1>2. Power(2)
  <2>1. \A r : r = 1 => 2^r = 2
    OBVIOUS
  <2>2. PICK r \in Nat : r = 1
    OBVIOUS
  <2> QED BY <2>1, <2>2
<1>3. Power(4)
  <2>1. \A r : r = 2 => 2^r = 4
    OBVIOUS
  <2>2. PICK r \in Nat : r = 2
    OBVIOUS
  <2> QED BY <2>1, <2>2
<1>4. Power(8)
  <2>1. \A r : r = 3 => 2^r = 8
    OBVIOUS
  <2>2. PICK r \in Nat : r = 3
    OBVIOUS
  <2> QED BY <2>1, <2>2
<1>5. Power(16)
  <2>1. \A r : r = 4 => 2^r = 16
    OBVIOUS
  <2>2. PICK r \in Nat : r = 4
    OBVIOUS
  <2> QED BY <2>1, <2>2
<1>6. Power(32)
  <2>1. \A r : r = 5 => 2^r = 32
    OBVIOUS
  <2>2. PICK r \in Nat : r = 5
    OBVIOUS
  <2> QED BY <2>1, <2>2
<1>7. Power(64)
  <2>1. \A r : r = 6 => 2^r = 64
    OBVIOUS
  <2>2. PICK r \in Nat : r = 6
    OBVIOUS
  <2> QED BY <2>1, <2>2
<1> HIDE DEF Power
<1>8. Power(size) /\ size \in Nat /\ size >= 2
  BY <1>1, <1>2, <1>3, <1>4, <1>5, <1>6, <1>7
<1> QED BY <1>8 DEF Power, Sizes, IsPow2

\* They alternate between the halves of the table, and begin with a slot of
\* each match but one.
Alternates(order, size) ==
    /\ \A k \in 1..size : 2 * order[k] <= size <=> k % 2 = 0
    /\ \A j, k \in 1..(size \div 2 - 1) :
          (order[j] + 1) \div 2 = (order[k] + 1) \div 2 => j = k

LEMMA ReadyOrders == ASSUME NEW size \in DOMAIN ByeOrderMap PROVE Alternates(ByeOrder(size), size)
<1>1. size \in {2, 4, 8, 16, 32, 64} /\ ByeOrder(size) = ByeOrderMap[size]
  BY DEF ByeOrder, ByeOrderMap
<1>2. CASE size = 2
  BY <1>1, <1>2 DEF ByeOrderMap, Alternates
<1>3. CASE size = 4
  BY <1>1, <1>3 DEF ByeOrderMap, Alternates
<1>4. CASE size = 8
  BY <1>1, <1>4 DEF ByeOrderMap, Alternates
<1>5. CASE size = 16
  BY <1>1, <1>5 DEF ByeOrderMap, Alternates
<1>6. CASE size = 32
  BY <1>1, <1>6 DEF ByeOrderMap, Alternates
<1>7. CASE size = 64
  <2> DEFINE m == ByeOrderMap[64]
  <2>1. ASSUME NEW k \in 1..64 PROVE 2 * m[k] <= 64 <=> k % 2 = 0
    BY DEF ByeOrderMap
  <2>2. ASSUME NEW j \in 1..31, NEW k \in 1..31, (m[j] + 1) \div 2 = (m[k] + 1) \div 2 PROVE j = k
    BY <2>2 DEF ByeOrderMap
  <2> HIDE DEF m
  <2>3. ByeOrder(size) = m /\ size \div 2 - 1 = 31
    BY <1>1, <1>7 DEF m
  <2> QED BY <1>7, <2>1, <2>2, <2>3 DEF Alternates
<1> QED BY <1>1, <1>2, <1>3, <1>4, <1>5, <1>6, <1>7

\* Half of the numbers 1, ..., b are even.
LEMMA EvenNumbers ==
    ASSUME NEW b \in Nat
    PROVE  /\ IsFiniteSet({k \in 1..b : k % 2 = 0})
           /\ Cardinality({k \in 1..b : k % 2 = 0}) = b \div 2
<1> DEFINE h == b \div 2
           S == {k \in 1..b : k % 2 = 0}
           f == [i \in 1..h |-> 2 * i]
<1>1. h \in Nat /\ \A i \in 1..h : 2 * i \in 1..b /\ (2 * i) % 2 = 0
  OBVIOUS
<1>2. \A k \in S : k \div 2 \in 1..h /\ 2 * (k \div 2) = k
  OBVIOUS
<1>3. f \in Bijection(1..h, S)
  <2>1. f \in [1..h -> S]
    BY <1>1
  <2>2. \A i, j \in 1..h : f[i] = f[j] => i = j
    BY <1>1
  <2>3. \A k \in S : \E i \in 1..h : f[i] = k
    BY <1>2
  <2> HIDE DEF f, S, h
  <2> QED BY <2>1, <2>2, <2>3, Fun_IsBij
<1> HIDE DEF f, S, h
<1>4. IsFiniteSet(1..h) /\ Cardinality(1..h) = h
  BY <1>1, FS_Interval
<1>5. ExistsBijection(1..h, S)
  BY <1>3, Fun_ExistsBij
<1>6. IsFiniteSet(S) /\ Cardinality(S) = h
  BY <1>4, <1>5, FS_Bijection
<1> QED BY <1>6 DEF S, h

\* On a ready-made table the slots in the lower half are every second one.
LEMMA LowerHalf ==
    ASSUME NEW size \in DOMAIN ByeOrderMap, NEW byes \in 0..size
    PROVE  2 * Cardinality({s \in ByeSlots(size, byes) : 2 * s <= size}) - byes \in {-1, 0, 1}
<1> DEFINE order == ByeOrder(size)
           low == {s \in ByeSlots(size, byes) : 2 * s <= size}
           E == {k \in 1..byes : k % 2 = 0}
           f == [k \in E |-> order[k]]
<1>1. /\ size \in Nat /\ size >= 2 /\ byes \in Nat
      /\ \A k \in 1..byes : k \in 1..size
      /\ \A k \in 1..size : order[k] \in 1..size
      /\ \A j, k \in 1..size : order[j] = order[k] => j = k
      /\ \A k \in 1..size : 2 * order[k] <= size <=> k % 2 = 0
  <2>1. size \in Sizes /\ size \in Nat /\ size >= 2 /\ size % 2 = 0
    BY ReadySizes, SizesAreEven DEF Sizes
  <2>2. \A k \in 1..size : 2 * order[k] <= size <=> k % 2 = 0
    BY ReadyOrders DEF Alternates
  <2> HIDE DEF order
  <2> QED BY <2>1, <2>2, ByeOrderIsInjective DEF order
<1>2. low = {order[k] : k \in E}
  <2> HIDE DEF order
  <2>1. low = {s \in {order[k] : k \in 1..byes} : 2 * s <= size}
    BY DEF ByeSlots, order
  <2> QED BY <1>1, <2>1
<1> HIDE DEF order, low
<1>3. f \in Bijection(E, low)
  <2>1. f \in [E -> low] /\ \A s \in low : \E k \in E : f[k] = s
    BY <1>2
  <2>2. \A j, k \in E : f[j] = f[k] => j = k
    BY <1>1
  <2> HIDE DEF f, E
  <2> QED BY <2>1, <2>2, Fun_IsBij
<1>4. IsFiniteSet(E) /\ Cardinality(E) = byes \div 2
  BY <1>1, EvenNumbers
<1> HIDE DEF E, f
<1>5. Cardinality(low) = byes \div 2
  <2>1. ExistsBijection(E, low)
    BY <1>3, Fun_ExistsBij
  <2> QED BY <1>4, <2>1, FS_Bijection
<1>6. 2 * (byes \div 2) - byes \in {-1, 0, 1}
  BY <1>1
<1> QED BY <1>5, <1>6 DEF low

\* While most slots are taken, no match of the first round is empty.
LEMMA NoEmptyMatch ==
    ASSUME NEW size \in DOMAIN ByeOrderMap, NEW byes \in 0..size, 2 * byes < size,
           NEW k \in 1..(size \div 2)
    PROVE  ~({2*k - 1, 2*k} \subseteq ByeSlots(size, byes))
<1> DEFINE order == ByeOrder(size)
<1>1. size \in Nat /\ byes \in Nat /\ \A j \in 1..byes : j \in 1..(size \div 2 - 1)
  <2>1. size \in Nat /\ size % 2 = 0
    BY ReadySizes, SizesAreEven DEF Sizes
  <2> QED BY <2>1
<1>2. \A i, j \in 1..(size \div 2 - 1) :
        (order[i] + 1) \div 2 = (order[j] + 1) \div 2 => i = j
  BY ReadyOrders DEF Alternates
<1> HIDE DEF order
<1> SUFFICES ASSUME {2*k - 1, 2*k} \subseteq ByeSlots(size, byes) PROVE FALSE
  OBVIOUS
<1>3. PICK i \in 1..byes : order[i] = 2*k - 1
  BY DEF ByeSlots, order
<1>4. PICK j \in 1..byes : order[j] = 2*k
  BY DEF ByeSlots, order
<1>5. (2*k - 1 + 1) \div 2 = k /\ (2*k + 1) \div 2 = k /\ 2*k - 1 # 2*k
  BY <1>1
<1>6. i = j
  BY <1>1, <1>2, <1>3, <1>4, <1>5
<1> QED BY <1>3, <1>4, <1>5, <1>6

\* Players dealt to the open slots in their order.
LEMMA DealtInOrder ==
    ASSUME NEW size \in Sizes, NEW byes \in 0..size
    PROVE  LET empty == ByeSlots(size, byes)
               seat == [s \in 1..size |-> Seat(size, [i \in 1..(size - byes) |-> i], s)]
               open == (1..size) \ empty
           IN /\ empty \subseteq 1..size /\ Cardinality(empty) = byes
              /\ \A s \in 1..size : s \in empty <=> seat[s] = NULL
              /\ \A s, t \in open : s < t => seat[s] < seat[t]
<1> DEFINE n == size - byes
           order == [i \in 1..n |-> i]
           nth == Nth(size, n)
           free == Open(size, n)
<1>1. size \in Nat /\ n \in 0..size /\ n \in Nat /\ n <= size /\ size - n = byes
  BY DEF Sizes
<1> HIDE DEF n
<1>2. order \in Seq(Nat) /\ Len(order) = n /\ \A i \in 1..n : order[i] = i
  BY <1>1
<1> HIDE DEF order
<1>3. ASSUME NEW s \in 1..size
      PROVE  Seat(size, order, s) = IF s \in free THEN order[nth[s]] ELSE NULL
  BY <1>1, <1>2, SeatIs
<1>4. /\ nth \in Bijection(free, 1..n)
      /\ \A s, t \in free : s < t => nth[s] < nth[t]
      /\ ByeSlots(size, byes) \subseteq 1..size /\ Cardinality(ByeSlots(size, byes)) = byes
  <2>1. /\ nth \in Bijection(free, 1..n)
        /\ \A s, t \in free : s < t => nth[s] < nth[t]
    BY <1>1, OpenSlots
  <2>2. ByeSlots(size, size - n) \subseteq 1..size /\ Cardinality(ByeSlots(size, size - n)) = size - n
    BY <1>1, OpenSlots
  <2> QED BY <1>1, <2>1, <2>2
<1>5. free = (1..size) \ ByeSlots(size, byes)
  BY <1>1 DEF Open
<1> HIDE DEF free, nth
<1>6. \A s \in free : nth[s] \in 1..n /\ order[nth[s]] = nth[s] /\ nth[s] # NULL /\ s \in 1..size
  <2>1. \A s \in free : nth[s] \in 1..n
    <3>1. nth \in [free -> 1..n]
      BY <1>4, Fun_BijectionProperties
    <3> QED BY <3>1
  <2> QED BY <1>1, <1>2, <1>5, <2>1, SearchAssumption
<1>7. ASSUME NEW s \in 1..size PROVE s \in ByeSlots(size, byes) <=> Seat(size, order, s) = NULL
  BY <1>3, <1>5, <1>6
<1>8. ASSUME NEW s \in free, NEW t \in free, s < t
      PROVE  Seat(size, order, s) < Seat(size, order, t)
  <2>1. s \in 1..size /\ t \in 1..size
    BY <1>6
  <2>2. Seat(size, order, s) = order[nth[s]] /\ Seat(size, order, t) = order[nth[t]]
    BY <1>3, <2>1
  <2>3. order[nth[s]] = nth[s] /\ order[nth[t]] = nth[t]
    BY <1>6
  <2> QED BY <1>4, <1>8, <2>2, <2>3
<1> QED BY <1>4, <1>5, <1>7, <1>8 DEF order, n

\* ByesAreSpread: for every number of BYEs on a table with a ready-made pattern,
\* the players fill exactly the slots left in the order in which they are dealt,
\* no first-round match is empty while most slots are taken, and the halves of
\* the table differ by one BYE (draw_service.py 38-72, 233-272).
THEOREM ByesSpread ==
    ASSUME \A t \in Tables : t.size \in DOMAIN ByeOrderMap
    PROVE  SearchSpec => []ByesAreSpread
<1>1. SearchInv => ByesAreSpread
  <2> SUFFICES ASSUME SearchInv, NEW byes \in 0..table.size
      PROVE  LET empty == ByeSlots(table.size, byes)
                 seat == [s \in 1..table.size |->
                             Seat(table.size, [i \in 1..(table.size - byes) |-> i], s)]
                 open == (1..table.size) \ empty
                 low == {s \in empty : 2 * s <= table.size}
             IN /\ empty \subseteq 1..table.size /\ Cardinality(empty) = byes
                /\ \A s \in 1..table.size : s \in empty <=> seat[s] = NULL
                /\ \A s, t \in open : s < t => seat[s] < seat[t]
                /\ 2 * byes < table.size =>
                     \A k \in 1..(table.size \div 2) : ~({2*k - 1, 2*k} \subseteq empty)
                /\ 2 * Cardinality(low) - byes \in {-1, 0, 1}
    BY DEF ByesAreSpread
  <2>1. table.size \in DOMAIN ByeOrderMap /\ table.size \in Sizes
    BY ReadySizes DEF SearchInv
  <2> DEFINE size == table.size
  <2> HIDE DEF size
  <2>2. size \in DOMAIN ByeOrderMap /\ size \in Sizes /\ byes \in 0..size
    BY <2>1 DEF size
  <2>3. LET empty == ByeSlots(size, byes)
            seat == [s \in 1..size |-> Seat(size, [i \in 1..(size - byes) |-> i], s)]
            open == (1..size) \ empty
        IN /\ empty \subseteq 1..size /\ Cardinality(empty) = byes
           /\ \A s \in 1..size : s \in empty <=> seat[s] = NULL
           /\ \A s, t \in open : s < t => seat[s] < seat[t]
    BY <2>2, DealtInOrder
  <2>4. 2 * byes < size => \A k \in 1..(size \div 2) : ~({2*k - 1, 2*k} \subseteq ByeSlots(size, byes))
    BY <2>2, NoEmptyMatch
  <2>5. 2 * Cardinality({s \in ByeSlots(size, byes) : 2 * s <= size}) - byes \in {-1, 0, 1}
    BY <2>2, LowerHalf
  <2> QED BY <2>3, <2>4, <2>5 DEF size
<1> QED BY <1>1, SearchInductive, PTL
=============================================================================
