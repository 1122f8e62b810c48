--------------------------- MODULE MCOrderSearch ---------------------------
(* Searches among up to five players of two clubs: tables of four with every
   club assignment and up to two earlier pairings, with and without the club
   rule, a table with BYEs, and a table of each ready-made size. *)
EXTENDS OrderSearch

CONSTANTS k1, k2

Entries(n, clubs) == [i \in 1..n |-> [player |-> i, club |-> clubs[i]]]

MCTables ==
    {[entries |-> Entries(4, clubs), size |-> 4, threshold |-> t, history |-> h] :
        clubs \in {c \in [1..4 -> {k1, k2, NULL}] : c[1] = k1 /\ c[2] # NULL}, t \in {3, 4},
        h \in {{}, {{1, 2}}, {{1, 2}, {3, 4}}}}
    \cup {[entries |-> Entries(5, <<k1, k1, k2, NULL, k2>>), size |-> 8, threshold |-> 2,
           history |-> {{1, 3}}]}
    \cup {[entries |-> Entries(2, <<k1, k1>>), size |-> s, threshold |-> 1,
           history |-> {{1, 2}}] : s \in DOMAIN ByeOrderMap}
=============================================================================
