------------------------ MODULE ParticipationLedger ------------------------
(***************************************************************************)
(* What registration promises about participation awards, without          *)
(* workers, callbacks or scores: enrollments get paid, some together, and  *)
(* each paid enrollment is awarded at most once, for good.  It may also    *)
(* never be awarded: nothing here obliges the award to happen.             *)
(***************************************************************************)
CONSTANT Enrollments

VARIABLES paid, awarded

vars == <<paid, awarded>>

Init == paid = {} /\ awarded = {}

Pay == /\ \E S \in SUBSET (Enrollments \ paid) : paid' = paid \cup S
       /\ UNCHANGED awarded

Award(e) == /\ e \in paid \ awarded
            /\ awarded' = awarded \cup {e}
            /\ UNCHANGED paid

Next == Pay \/ \E e \in Enrollments : Award(e)

Spec == Init /\ [][Next]_vars
=============================================================================
