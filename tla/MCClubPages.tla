---------------------------- MODULE MCClubPages -----------------------------
(* One coach, the club that asks and others that do not, and two tabs in which
   the coach answers. *)
EXTENDS ClubPages, TLC

CONSTANTS c1, k1, k2, k3, t1, t2

Symmetry == Permutations({k2, k3}) \cup Permutations({t1, t2})
=============================================================================
