----------------------------- MODULE MCBrackets -----------------------------
(* Two groups, of three and two players, in the weights 1 and 2.  The two of
   the second group have the same name. *)
EXTENDS BracketBoard, TLC

CONSTANTS g1, g2, same, p1, p2, p3, p4, p5

MCWeightOf == [g \in Groups |-> IF g = g1 THEN 1 ELSE 2]
MCPool == [g \in Groups |-> IF g = g1 THEN {p1, p2, p3} ELSE {p4, p5}]
MCNameOf == [p \in Players |-> IF p \in {p4, p5} THEN same ELSE p]
Symmetry == Permutations({p1, p2, p3}) \cup Permutations({p4, p5})
=============================================================================
