----------------------------- MODULE FirstRound -----------------------------
(***************************************************************************)
(* The pure part of the Kyorugi draw: how large a table is, which of its   *)
(* slots stay empty (BYE), who sits where, and what an arrangement of the  *)
(* players costs.  Slots are numbered from 1; slots 2k-1 and 2k meet in    *)
(* match k of the first round.                                             *)
(***************************************************************************)
EXTENDS Integers, Sequences, FiniteSets

CONSTANT NULL    \* no player, no club

IsPow2(n) == n \in Nat /\ \E k \in 0..n : 2^k = n

\* The least power of two that is at least n and at least 2.
NextPow2(n) == CHOOSE s \in {2^k : k \in 1..n+1} :
                  s >= n /\ \A t \in {2^k : k \in 1..n+1} : t >= n => s <= t

\* The page proposes the least power of two that holds the players it counted.
AdminSize(count) == IF count <= 1 THEN 1 ELSE NextPow2(count)

\* The service raises a requested size to 2, or 4 for up to four players, but
\* not to the number of players.
DrawSize(requested, count) ==
    LET least == IF count \in 1..4 THEN 4 ELSE 2
    IN IF requested < least THEN least ELSE requested

\* BYE_ORDER_MAP: the slots in the order in which they are left empty.
ByeOrderMap ==
    [size \in {2, 4, 8, 16, 32, 64} |->
      CASE size = 2  -> <<2, 1>>
        [] size = 4  -> <<4, 1, 3, 2>>
        [] size = 8  -> <<8, 1, 5, 4, 6, 3, 7, 2>>
        [] size = 16 -> <<16, 1, 9, 8, 13, 5, 12, 6, 14, 3, 11, 7, 10, 2, 15, 4>>
        [] size = 32 -> <<32, 1, 17, 16, 25, 8, 24, 9, 29, 4, 20, 13, 28, 5, 21, 12,
                          31, 2, 18, 15, 26, 7, 23, 10, 30, 3, 19, 14, 27, 6, 22, 11>>
        [] size = 64 -> <<64, 1, 33, 32, 49, 16, 48, 17, 57, 8, 40, 25, 56, 9, 41, 24,
                          61, 4, 36, 29, 52, 13, 45, 20, 60, 5, 37, 28, 53, 12, 44, 21,
                          63, 2, 34, 31, 50, 15, 47, 18, 58, 7, 39, 26, 55, 10, 42, 23,
                          62, 3, 35, 30, 51, 14, 46, 19, 59, 6, 38, 27, 54, 11, 43, 22>>]

\* Mutation: the patterns are not looked up.
ByeOrderAlternating(size) ==
    [k \in 1..size |-> IF k % 2 = 1 THEN size - k \div 2 ELSE k \div 2]

\* Other sizes alternate between the end and the beginning of the table.
ByeOrder(size) ==
    IF size \in DOMAIN ByeOrderMap THEN ByeOrderMap[size]
    ELSE [k \in 1..size |-> IF k % 2 = 1 THEN size - k \div 2 ELSE k \div 2]

ByeSlots(size, byes) == {ByeOrder(size)[k] : k \in 1..byes}

\* Mutation: a player's place in the order is taken for the slot number.
SeatBySlotNumber(size, order, s) ==
    IF s \in ByeSlots(size, size - Len(order)) \/ s > Len(order) THEN NULL ELSE order[s]

\* The entry in slot s when order is dealt to the open slots from the top.
Seat(size, order, s) ==
    LET empty == ByeSlots(size, size - Len(order))
        above == {t \in 1..s : t \notin empty}
    IN IF s \in empty THEN NULL ELSE order[Cardinality(above)]

\* The orders the random search can settle on; two players stay as they are.
Orders(entries) ==
    LET n == Len(entries) IN
    IF n <= 2 THEN {entries}
    ELSE {[i \in 1..n |-> entries[f[i]]] :
            f \in {g \in [1..n -> 1..n] : \A i, j \in 1..n : g[i] = g[j] => i = j}}

-----------------------------------------------------------------------------
(* The cost of a first round.                                              *)

REPEAT_PAIR_PENALTY == 100
SAME_CLUB_PENALTY == 1

\* An entry is [player, club], club being NULL when the player has no club;
\* history holds the sets of two players that met in a first round before.
RepeatsPair(a, b, history) == {a.player, b.player} \in history
ClubClash(a, b, count, threshold) ==
    count > threshold /\ a.club # NULL /\ a.club = b.club

\* Mutation: the two penalties are swapped.
PairCostSwapped(a, b, count, threshold, history) ==
    (IF RepeatsPair(a, b, history) THEN SAME_CLUB_PENALTY ELSE 0)
    + (IF ClubClash(a, b, count, threshold) THEN REPEAT_PAIR_PENALTY ELSE 0)

PairCost(a, b, count, threshold, history) ==
    (IF RepeatsPair(a, b, history) THEN REPEAT_PAIR_PENALTY ELSE 0)
    + (IF ClubClash(a, b, count, threshold) THEN SAME_CLUB_PENALTY ELSE 0)
=============================================================================
