--------------------------- MODULE MCProfileForm ---------------------------
(* Two weights: e1 and e2 (with two places for e1, and both bronzes for one
   club) and e3, a second enrollment of p1.  p2 is also a coach. *)
EXTENDS ProfileForm

CONSTANTS p1, p2, k1, b1, e1, e2, e3, r1, r2

MCSnapshot == [e \in Enrollments |->
    [player |-> IF e = e2 THEN p2 ELSE p1,
     coach |-> IF e = e3 THEN NULL ELSE p2,
     club |-> IF e = e3 THEN NULL ELSE k1,
     board |-> IF e = e2 THEN NULL ELSE b1]]

MCResultOf == [e \in Enrollments |-> IF e = e3 THEN r2 ELSE r1]

MCPodiums ==
    {<<e1, e2, NULL, NULL>>, <<NULL, NULL, e1, e2>>, <<e2, NULL, e1, e1>>, <<e3, NULL, NULL, NULL>>}

\* No handler relates columns of two of these sets.
MCTries ==
    {[columns |-> {"place"}, submits |-> 2],
     [columns |-> {"club", "coach"}, submits |-> 1],
     [columns |-> {"isCoach", "coachGrade"}, submits |-> 2],
     [columns |-> {"image", "isReferee", "kyorogi", "kyorogiGrade"}, submits |-> 1]}
=============================================================================
