----------------------------- MODULE OrderSearch -----------------------------
(***************************************************************************)
(* The search for the order in which the players are dealt to the table:   *)
(* shuffle, price, keep the cheapest, stop early at cost zero.             *)
(***************************************************************************)
EXTENDS FirstRound, FiniteSetsExt

CONSTANTS
    Tables,       \* the searches to make: [entries, size, threshold, history]
    Attempts      \* shuffle_attempts

ASSUME SearchAssumption ==
    /\ Attempts \in Nat /\ NULL \notin Nat
    /\ \A t \in Tables : t.size \in Nat /\ NULL \notin Orders(t.entries)

VARIABLES
    table,        \* the search at hand
    best,         \* cheapest order so far, or NULL
    bestCost,
    left,         \* attempts left
    tried         \* the orders priced so far (no such variable in the code)

searchVars == <<table, best, bestCost, left, tried>>

Count == Len(table.entries)
SeatOf(order, s) == Seat(table.size, order, s)
RealPairs(order) ==
    {k \in 1..(table.size \div 2) : SeatOf(order, 2*k - 1) # NULL /\ SeatOf(order, 2*k) # NULL}

OrderCost(order) ==
    MapThenSumSet(LAMBDA k : PairCost(SeatOf(order, 2*k - 1), SeatOf(order, 2*k),
                                      Count, table.threshold, table.history),
                  RealPairs(order))

\* Two players or fewer are not shuffled.
SearchInit ==
    /\ table \in Tables
    /\ best = IF Count <= 2 THEN table.entries ELSE NULL
    /\ bestCost = 0
    /\ left = IF Count <= 2 THEN 0 ELSE Max({1, Attempts})
    /\ tried = {}

\* Mutation: the loop is left at cost zero before the order is kept.
ShuffleBreaksFirst(order) ==
    LET cost == OrderCost(order)
        better == best = NULL \/ cost < bestCost
    IN
    /\ left > 0
    /\ left' = IF cost = 0 THEN 0 ELSE left - 1
    /\ IF cost = 0 THEN UNCHANGED <<best, bestCost, tried>>
       ELSE /\ best' = IF better THEN order ELSE best
            /\ bestCost' = IF better THEN cost ELSE bestCost
            /\ tried' = tried \cup {order}
    /\ UNCHANGED table

\* One turn of the loop.
Shuffle(order) ==
    LET cost == OrderCost(order)
        better == best = NULL \/ cost < bestCost
    IN
    /\ left > 0
    /\ best' = IF better THEN order ELSE best
    /\ bestCost' = IF better THEN cost ELSE bestCost
    /\ left' = IF better /\ cost = 0 THEN 0 ELSE left - 1
    /\ tried' = tried \cup {order}
    /\ UNCHANGED table

\* What the search returns.  The fallback is there for a loop that keeps nothing.
Result == IF best = NULL THEN table.entries ELSE best

Turn == \E order \in Orders(table.entries) : Shuffle(order)
SearchSpec == SearchInit /\ [][Turn]_searchVars /\ WF_searchVars(Turn)

-----------------------------------------------------------------------------
(* Properties                                                              *)

Repeats(order) ==
    Cardinality({k \in RealPairs(order) :
                   RepeatsPair(SeatOf(order, 2*k - 1), SeatOf(order, 2*k), table.history)})
Clashes(order) ==
    Cardinality({k \in RealPairs(order) :
                   ClubClash(SeatOf(order, 2*k - 1), SeatOf(order, 2*k),
                             Count, table.threshold)})

\* What the two penalties are for (draw_service.py 14): avoiding a repeated
\* pairing matters more than any number of same-club pairings, so the order
\* returned is first among those tried by repeats and then by clashes.
RepeatsOutweighClubs ==
    \A t \in tried :
        \/ Repeats(Result) < Repeats(t)
        \/ Repeats(Result) = Repeats(t) /\ Clashes(Result) <= Clashes(t)

\* The search ends with an order that seats every entry exactly once, and never
\* needs to fall back on the one it was given.
EndsWithAnOrder == <>(left = 0 /\ best \in Orders(table.entries))

\* What _bye_slots returns for the table, for every number of BYEs: that many
\* distinct slots, the players filling exactly the others in the order in
\* which they are dealt.  And the pattern is balanced (draw_service.py 40):
\* while most slots are taken no first-round match is left without players,
\* and the two halves of the table differ by one BYE at most.
ByesAreSpread ==
    \A byes \in 0..table.size :
        LET empty == ByeSlots(table.size, byes)
            seat == [s \in 1..table.size |->
                        Seat(table.size, [i \in 1..(table.size - byes) |-> i], s)]
            open == (1..table.size) \ empty
            low == {s \in empty : 2 * s <= table.size}
        IN /\ empty \subseteq 1..table.size /\ Cardinality(empty) = byes
           /\ \A s \in 1..table.size : s \in empty <=> seat[s] = NULL
           /\ \A s, t \in open : s < t => seat[s] < seat[t]
           /\ 2 * byes < table.size =>
                \A k \in 1..(table.size \div 2) : ~({2*k - 1, 2*k} \subseteq empty)
           /\ 2 * Cardinality(low) - byes \in {-1, 0, 1}
=============================================================================
