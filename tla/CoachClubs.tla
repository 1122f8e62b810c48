----------------------------- MODULE CoachClubs -----------------------------
(***************************************************************************)
(* Which clubs a coach works for.  The coach chooses up to Limit, or a     *)
(* club asks the coach to join or to leave and the coach answers.          *)
(*                                                                         *)
(* None of the handlers is a transaction: each statement commits alone,    *)
(* so a handler that runs several is several actions.  set, add, remove    *)
(* and get_or_create are one statement each in this sense.                 *)
(***************************************************************************)
EXTENDS Integers, FiniteSets

CONSTANTS
    Coaches, Clubs, NULL,
    Limit,     \* clubs a coach may choose: 3 in the code
    Askers,    \* bound: the clubs that ask for coaches
    Tabs       \* requests of coaches being handled at the same time

Types == {"add", "remove"}
Keys == Coaches \X Clubs \X Types
Statuses == {"none", "pending", "accepted", "rejected"}
Answer == [key : Keys, accept : BOOLEAN, applied : BOOLEAN]

ASSUME CoachClubsAssumption ==
    /\ IsFiniteSet(Clubs) /\ Askers \subseteq Clubs /\ Limit \in Nat
    /\ NULL \notin Coaches \cup Answer

VARIABLES
    clubsOf,     \* coaching_clubs of each coach
    requests,    \* status of each CoachClubRequest, or "none" if there is no row
    asking,      \* per club, the coaches its request has still to deal with
    checked,     \* per club, the coach found to have room for it, or NULL
    answering    \* per tab, the answer under way, or NULL

vars == <<clubsOf, requests, asking, checked, answering>>

Init ==
    /\ clubsOf = [c \in Coaches |-> {}]
    /\ requests = [key \in Keys |-> "none"]
    /\ asking = [k \in Clubs |-> [add |-> {}, remove |-> {}]]
    /\ checked = [k \in Clubs |-> NULL]
    /\ answering = [t \in Tabs |-> NULL]

-----------------------------------------------------------------------------
\* Mutation: the limit is one too high.
ChooseClubsOneMore(c, ks) ==
    /\ Cardinality(ks) <= Limit + 1
    /\ clubsOf' = [clubsOf EXCEPT ![c] = ks]
    /\ UNCHANGED <<requests, asking, checked, answering>>

ChooseClubs(c, ks) ==
    /\ Cardinality(ks) <= Limit
    /\ clubsOf' = [clubsOf EXCEPT ![c] = ks]
    /\ UNCHANGED <<requests, asking, checked, answering>>

-----------------------------------------------------------------------------
(* A club submits the coaches it wants to have.                            *)

Busy(k) == asking[k].add \cup asking[k].remove # {}

SelectCoaches(k, selected) ==
    LET active == {c \in Coaches : k \in clubsOf[c]} IN
    /\ ~Busy(k) /\ checked[k] = NULL
    /\ asking' = [asking EXCEPT ![k] = [add |-> selected \ active, remove |-> active \ selected]]
    /\ UNCHANGED <<clubsOf, requests, checked, answering>>

\* The coach's clubs are counted; a coach at the limit is passed over.
CheckCoach(k, c) ==
    /\ c \in asking[k].add /\ checked[k] = NULL
    /\ IF Cardinality(clubsOf[c]) >= Limit
       THEN /\ asking' = [asking EXCEPT ![k].add = @ \ {c}]
            /\ UNCHANGED checked
       ELSE /\ checked' = [checked EXCEPT ![k] = c]
            /\ UNCHANGED asking
    /\ UNCHANGED <<clubsOf, requests, answering>>

\* Mutation: update_or_create, so that an answered request is asked again.
CreatedAgain(key) == [requests EXCEPT ![key] = "pending"]

\* get_or_create: a row that exists is kept as it is, answered or not.
Created(key) == [requests EXCEPT ![key] = IF @ = "none" THEN "pending" ELSE @]

RequestAdd(k) ==
    /\ checked[k] # NULL
    /\ requests' = Created(<<checked[k], k, "add">>)
    /\ asking' = [asking EXCEPT ![k].add = @ \ {checked[k]}]
    /\ checked' = [checked EXCEPT ![k] = NULL]
    /\ UNCHANGED <<clubsOf, answering>>

\* The second loop runs when the first is through.
RequestRemove(k, c) ==
    /\ asking[k].add = {} /\ c \in asking[k].remove
    /\ requests' = Created(<<c, k, "remove">>)
    /\ asking' = [asking EXCEPT ![k].remove = @ \ {c}]
    /\ UNCHANGED <<clubsOf, checked, answering>>

-----------------------------------------------------------------------------
(* The coach answers a request.                                            *)

BeginAnswer(t, key, accept) ==
    /\ answering[t] = NULL /\ requests[key] = "pending"
    /\ answering' = [answering EXCEPT ![t] = [key |-> key, accept |-> accept, applied |-> FALSE]]
    /\ UNCHANGED <<clubsOf, requests, asking, checked>>

\* Mutation: the coach is put where the club belongs.
ApplyAnswerSwapped(t) ==
    /\ answering[t] # NULL
    /\ LET answer == answering[t]
           coach == answer.key[1]
       IN /\ answer.accept /\ ~answer.applied
          /\ clubsOf' = [clubsOf EXCEPT ![coach] =
                IF answer.key[3] = "add" THEN @ \cup {coach} ELSE @ \ {coach}]
          /\ answering' = [answering EXCEPT ![t].applied = TRUE]
    /\ UNCHANGED <<requests, asking, checked>>

\* Accepting changes the membership, without another look at the limit.
ApplyAnswer(t) ==
    /\ answering[t] # NULL
    /\ LET answer == answering[t]
           coach == answer.key[1]
           club == answer.key[2]
       IN /\ answer.accept /\ ~answer.applied
          /\ clubsOf' = [clubsOf EXCEPT ![coach] =
                IF answer.key[3] = "add" THEN @ \cup {club} ELSE @ \ {club}]
          /\ answering' = [answering EXCEPT ![t].applied = TRUE]
    /\ UNCHANGED <<requests, asking, checked>>

\* Then the status is saved, whatever it has become meanwhile.
SaveAnswer(t) ==
    /\ answering[t] # NULL
    /\ answering[t].accept => answering[t].applied
    /\ requests' = [requests EXCEPT ![answering[t].key] =
                      IF answering[t].accept THEN "accepted" ELSE "rejected"]
    /\ answering' = [answering EXCEPT ![t] = NULL]
    /\ UNCHANGED <<clubsOf, asking, checked>>

\* The process dies before it has saved the status.
AnswerDies(t) ==
    /\ answering[t] # NULL
    /\ answering' = [answering EXCEPT ![t] = NULL]
    /\ UNCHANGED <<clubsOf, requests, asking, checked>>

-----------------------------------------------------------------------------
Next ==
    \/ \E c \in Coaches, ks \in SUBSET Clubs : ChooseClubs(c, ks)
    \/ \E k \in Askers, selected \in SUBSET Coaches : SelectCoaches(k, selected)
    \/ \E k \in Clubs, c \in Coaches : CheckCoach(k, c) \/ RequestRemove(k, c)
    \/ \E k \in Clubs : RequestAdd(k)
    \/ \E t \in Tabs, key \in Keys, accept \in BOOLEAN : BeginAnswer(t, key, accept)
    \/ \E t \in Tabs : ApplyAnswer(t) \/ SaveAnswer(t) \/ AnswerDies(t)

Spec == Init /\ [][Next]_vars

-----------------------------------------------------------------------------
(* Properties                                                              *)

TypeOK ==
    /\ clubsOf \in [Coaches -> SUBSET Clubs]
    /\ requests \in [Keys -> Statuses]
    /\ asking \in [Clubs -> [add : SUBSET Coaches, remove : SUBSET Coaches]]
    /\ checked \in [Clubs -> Coaches \cup {NULL}]
    /\ answering \in [Tabs -> Answer \cup {NULL}]

\* "At most three clubs are allowed" (views.py 912, and the same limit at 941).
AtMostThree == \A c \in Coaches : Cardinality(clubsOf[c]) <= Limit

\* Only clubs that once asked the coach take a coach past the limit: of those
\* that never did the coach has at most three, however the coach's choices,
\* the requests and the answers overlap and wherever an answer is cut short.
Unasked(c) == {k \in clubsOf[c] : requests[<<c, k, "add">>] = "none"}
LimitWithoutRequests == \A c \in Coaches : Cardinality(Unasked(c)) <= Limit

\* A club cannot press: a request once answered never comes back to the coach.
AnswersAreFinal ==
    [][\A key \in Keys : requests[key] \in {"accepted", "rejected"}
           => requests'[key] \in {"accepted", "rejected"}]_vars
=============================================================================
