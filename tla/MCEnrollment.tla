---------------------------- MODULE MCEnrollment ----------------------------
(* Small instances of Enrollment.  p2 is both a player and the coach of the
   club-less registrations; p1's board is known only through the club. *)
EXTENDS Enrollment

CONSTANTS p1, p2, k1, b1

MCClubOf == [p \in Players |-> IF p = p1 THEN k1 ELSE NULL]
MCBoardOf == [p \in Players |-> IF p = p1 THEN NULL ELSE b1]
MCClubBoard == [k \in Clubs |-> b1]
=============================================================================
