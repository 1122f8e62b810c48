---------------------------- MODULE BracketBoard ----------------------------
(***************************************************************************)
(* How the client's bracket page draws a table the server shows: a board   *)
(* of five columns of 16, 8, 4, 2 and 1 matches, each with two cells and a *)
(* bubble for its number.  The page works with the names on its own cells, *)
(* not with the players.                                                   *)
(***************************************************************************)
EXTENDS Brackets

CONSTANTS
    NameOf,   \* the name of a player; two players may share one
    Rest      \* the word shown for an empty seat

ASSUME BracketBoardAssumption ==
    /\ DOMAIN NameOf = Players
    /\ Rest # NULL /\ Range(NameOf) \cap {NULL, Rest} = {}

Columns == 1..5
Cells == UNION {{c} \X (0..(2^(5 - c) - 1)) \X {"a", "b"} : c \in Columns}
Bubbles == UNION {{c} \X (0..(2^(5 - c) - 1)) : c \in Columns}

\* The final is in column 5, whatever the size; a sixth round has no column.
RoundIn(d, c) == c - (5 - Max({1, Rounds(d.size)}))
FirstColumn(d) == Min({c \in Columns : RoundIn(d, c) >= 1})

Name(p) == IF p = NULL THEN NULL ELSE NameOf[p]
Opposite(pos) == IF pos = "a" THEN "b" ELSE "a"

\* What the rows of the draw put on the board.
Written(d) == [cell \in Cells |->
    LET k == <<RoundIn(d, cell[1]), cell[2]>>
        other == Opposite(cell[3])
    IN IF k \notin DOMAIN d.matches THEN NULL
       ELSE IF d.matches[k][cell[3]] # NULL THEN Name(d.matches[k][cell[3]])
       ELSE IF /\ d.matches[k][other] # NULL /\ d.matches[k].is_bye
               /\ cell[1] = FirstColumn(d)
       THEN Rest ELSE NULL]

RestPair(board, c, i) == (board[<<c, i, "a">>] = Rest) # (board[<<c, i, "b">>] = Rest)

\* Mutation: the sides of the next match are exchanged.
FeederSwapped(cell) == <<cell[1] - 1, 2 * cell[2] + IF cell[3] = "a" THEN 1 ELSE 0>>

\* The match whose winner belongs in a cell.
Feeder(cell) == <<cell[1] - 1, 2 * cell[2] + IF cell[3] = "a" THEN 0 ELSE 1>>

\* Whoever has a rest in the first column moves to the second, if it is free.
Propagated(d) == LET board == Written(d) IN [cell \in Cells |->
    LET f == Feeder(cell)
        pair == {board[<<f[1], f[2], pos>>] : pos \in {"a", "b"}}
    IN IF /\ cell[1] = FirstColumn(d) + 1 /\ board[cell] \in {NULL, Rest}
          /\ Rest \in pair /\ pair \ {NULL, Rest} # {}
       THEN CHOOSE name \in pair : name # Rest
       ELSE board[cell]]

Names(d) == (UNION {{Name(m.a), Name(m.b)} : m \in Range(d.matches)}) \ {NULL}

\* The only name of a table is carried from its seat to the final.
SinglePath(d, name) ==
    LET board == Written(d)
        first == FirstColumn(d)
        seats == {i \in 0..(2^(5 - first) - 1) :
                    name \in {board[<<first, i, "a">>], board[<<first, i, "b">>]}}
        seat == IF seats = {} THEN 0 ELSE Min(seats)
        side == IF board[<<first, seat, "b">>] = name /\ board[<<first, seat, "a">>] # name
                THEN "b" ELSE "a"
        At(c) == seat \div 2^(c - first)
        Side(c) == IF c = first THEN side ELSE IF At(c - 1) % 2 = 0 THEN "a" ELSE "b"
    IN [cell \in Cells |->
          IF cell[1] < first THEN board[cell]
          ELSE IF cell = <<cell[1], At(cell[1]), Side(cell[1])>> THEN name
          ELSE IF cell = <<first, seat, Opposite(side)>> THEN Rest
          ELSE board[cell]]

Board(d) ==
    IF Cardinality(Names(d)) = 1 THEN SinglePath(d, CHOOSE name \in Names(d) : TRUE)
    ELSE Propagated(d)

\* Mutation: numbers are dealt in the order of the column.
NumberShownByPosition(d, k) == k[2] + 1

\* A match without a number gets one by its place among such matches of its round.
NumberShown(d, k) ==
    IF d.matches[k].match_number # NULL THEN d.matches[k].match_number
    ELSE Cardinality({j \in DOMAIN d.matches : /\ j[1] = k[1] /\ j[2] <= k[2]
                                               /\ d.matches[j].match_number = NULL})

BubbleText(d) == LET board == Board(d) IN [bubble \in Bubbles |->
    LET k == <<RoundIn(d, bubble[1]), bubble[2]>> IN
    IF k \notin DOMAIN d.matches THEN NULL
    ELSE IF bubble[1] = FirstColumn(d) /\ RestPair(board, bubble[1], bubble[2]) THEN NULL
    ELSE NumberShown(d, k)]

-----------------------------------------------------------------------------
(* Properties                                                              *)

Drawable(g) == /\ draws[g].size <= 32
               /\ Cardinality(Names(draws[g])) = Cardinality(Seated(g))

\* A table on show puts each name in its own seat of the first column, and in
\* the second exactly those who have no opponent in the first, each where the
\* winner of its match belongs, after whatever draws, sizes and numberings.
BoardShowsTheDraw ==
    \A g \in Shown : Drawable(g) =>
        LET d == draws[g] board == Board(d) first == FirstColumn(d) IN
        /\ \A k \in DOMAIN d.matches, pos \in {"a", "b"} : k[1] = 1 =>
              /\ d.matches[k][pos] # NULL => board[<<first, k[2], pos>>] = Name(d.matches[k][pos])
              /\ d.matches[k][pos] = NULL => board[<<first, k[2], pos>>] \in {NULL, Rest}
        /\ \A cell \in Cells : cell[1] = first + 1 =>
              LET m == d.matches[<<1, Feeder(cell)[2]>>] IN
              board[cell] = IF m.a # NULL /\ m.b = NULL THEN Name(m.a)
                            ELSE IF m.b # NULL /\ m.a = NULL THEN Name(m.b)
                            ELSE NULL

\* Whoever reads the board is called by the right number: a match that is, or
\* will be, fought carries the number the mat calls, and one that a player
\* passes without fighting carries none.
BoutsWearTheirNumbers ==
    \A g \in Shown : Drawable(g) =>
        LET d == draws[g] text == BubbleText(d) IN
        \A bubble \in Bubbles :
            LET k == <<RoundIn(d, bubble[1]), bubble[2]>> IN
            k \in DOMAIN d.matches =>
                /\ ~d.matches[k].is_bye => text[bubble] = d.matches[k].match_number
                /\ d.matches[k].is_bye /\ {d.matches[k].a, d.matches[k].b} # {NULL}
                      => text[bubble] = NULL
=============================================================================
