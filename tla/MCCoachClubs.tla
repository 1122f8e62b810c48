---------------------------- MODULE MCCoachClubs ----------------------------
(* One coach and four clubs, two of which ask; clubs of a kind are alike. *)
EXTENDS CoachClubs, TLC

CONSTANTS k1, k2, k3, k4, t1, t2

Symmetry == Permutations({k1, k2}) \cup Permutations({k3, k4}) \cup Permutations({t1, t2})
=============================================================================
