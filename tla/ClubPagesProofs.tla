--------------------------- MODULE ClubPagesProofs ---------------------------
(***************************************************************************)
(* What ClubPages guarantees for any coaches, clubs and requests under     *)
(* way.  A step of the pages is a step of CoachClubs once what a request   *)
(* carries is known (CallsOK).  The limit of the clubs that never asked    *)
(* holds on the server, hence of a list when it is read, of the boxes made *)
(* of it and of the choice that is sent (ListsAreFew): a club may ask      *)
(* meanwhile, but none ever stops having asked.                            *)
(***************************************************************************)
EXTENDS ClubPages, FiniteSetTheorems, TLAPS

-----------------------------------------------------------------------------
(* The server.  Its limit is not inductive alone: an accepted answer may   *)
(* add a fourth club, and only that the answer belongs to a row that       *)
(* exists (AnswersHaveRows) makes that club one that asked.                *)

AnswersHaveRows ==
    \A t \in Tabs : answering[t] # NULL => requests[answering[t].key] # "none"

IInv == TypeOK /\ AnswersHaveRows /\ LimitWithoutRequests

-----------------------------------------------------------------------------
\* No handler deletes a row, and what get_or_create leaves is a row.
LEMMA RowsStay ==
    ASSUME TypeOK, AnswersHaveRows, [Next]_vars
    PROVE  \A key \in Keys : requests[key] # "none" => requests'[key] # "none"
<1> USE DEF TypeOK
<1> TAKE key \in Keys
<1> HAVE requests[key] # "none"
<1>1. ASSUME NEW other \in Keys, requests' = Created(other)
      PROVE  requests'[key] # "none"
  BY <1>1 DEF Created
<1>2. CASE \E k \in Clubs : RequestAdd(k)
  <2>1. PICK k \in Clubs : RequestAdd(k)
    BY <1>2
  <2>2. <<checked[k], k, "add">> \in Keys
    BY <2>1 DEF RequestAdd, Keys, Types
  <2> QED BY <2>1, <2>2, <1>1 DEF RequestAdd
<1>3. CASE \E k \in Clubs, c \in Coaches : RequestRemove(k, c)
  <2>1. PICK k \in Clubs, c \in Coaches : RequestRemove(k, c)
    BY <1>3
  <2>2. <<c, k, "remove">> \in Keys
    BY DEF Keys, Types
  <2> QED BY <2>1, <2>2, <1>1 DEF RequestRemove
<1>4. CASE \E t \in Tabs : SaveAnswer(t)
  BY <1>4 DEF SaveAnswer
<1>5. CASE UNCHANGED requests
  BY <1>5
<1> QED
  BY <1>2, <1>3, <1>4, <1>5 DEF Next, vars, ChooseClubs, SelectCoaches, CheckCoach,
     BeginAnswer, ApplyAnswer, AnswerDies

-----------------------------------------------------------------------------
LEMMA InitInv == Init => IInv
<1> SUFFICES ASSUME Init PROVE IInv
  OBVIOUS
<1>1. TypeOK
  BY DEF Init, TypeOK, Statuses
<1>2. AnswersHaveRows
  BY DEF Init, AnswersHaveRows
<1>3. ASSUME NEW c \in Coaches PROVE Cardinality(Unasked(c)) <= Limit
  <2>1. Unasked(c) = {}
    BY DEF Init, Unasked
  <2> QED BY <2>1, FS_EmptySet, CoachClubsAssumption
<1> QED BY <1>1, <1>2, <1>3 DEF IInv, LimitWithoutRequests

\* Each handler keeps the types.
LEMMA TypeStep == TypeOK /\ [Next]_vars => TypeOK'
<1> SUFFICES ASSUME TypeOK, [Next]_vars PROVE TypeOK'
  OBVIOUS
<1> USE DEF TypeOK
<1>1. ASSUME NEW c \in Coaches, NEW ks \in SUBSET Clubs, ChooseClubs(c, ks) PROVE TypeOK'
  BY <1>1 DEF ChooseClubs
<1>2. ASSUME NEW k \in Askers, NEW selected \in SUBSET Coaches, SelectCoaches(k, selected)
      PROVE  TypeOK'
  <2>1. k \in Clubs
    BY CoachClubsAssumption
  <2> QED BY <2>1, <1>2 DEF SelectCoaches
<1>3. ASSUME NEW k \in Clubs, NEW c \in Coaches, CheckCoach(k, c) PROVE TypeOK'
  BY <1>3 DEF CheckCoach
<1>4. ASSUME NEW key \in Keys PROVE Created(key) \in [Keys -> Statuses]
  BY DEF Created, Statuses
<1>5. ASSUME NEW k \in Clubs, NEW c \in Coaches, RequestRemove(k, c) PROVE TypeOK'
  <2>1. <<c, k, "remove">> \in Keys
    BY DEF Keys, Types
  <2> QED BY <2>1, <1>4, <1>5 DEF RequestRemove
<1>6. ASSUME NEW k \in Clubs, RequestAdd(k) PROVE TypeOK'
  <2>1. <<checked[k], k, "add">> \in Keys
    BY <1>6 DEF RequestAdd, Keys, Types
  <2> QED BY <2>1, <1>4, <1>6 DEF RequestAdd
<1>7. ASSUME NEW t \in Tabs, NEW key \in Keys, NEW accept \in BOOLEAN, BeginAnswer(t, key, accept)
      PROVE  TypeOK'
  BY <1>7 DEF BeginAnswer, Answer
<1>8. ASSUME NEW t \in Tabs, ApplyAnswer(t) PROVE TypeOK'
  <2>1. answering[t] \in Answer /\ answering[t].key \in Keys
    BY <1>8 DEF ApplyAnswer, Answer
  <2>2. answering[t].key[1] \in Coaches /\ answering[t].key[2] \in Clubs
    BY <2>1 DEF Keys
  <2>3. clubsOf' \in [Coaches -> SUBSET Clubs]
    BY <1>8, <2>2 DEF ApplyAnswer
  <2>4. answering' \in [Tabs -> Answer \cup {NULL}]
    BY <1>8, <2>1 DEF ApplyAnswer, Answer
  <2> QED BY <1>8, <2>3, <2>4 DEF ApplyAnswer
<1>9. ASSUME NEW t \in Tabs, SaveAnswer(t) PROVE TypeOK'
  BY <1>9 DEF SaveAnswer, Statuses
<1>10. ASSUME NEW t \in Tabs, AnswerDies(t) PROVE TypeOK'
  BY <1>10 DEF AnswerDies
<1>11. CASE UNCHANGED vars
  BY <1>11 DEF vars
<1> QED
  BY <1>1, <1>2, <1>3, <1>5, <1>6, <1>7, <1>8, <1>9, <1>10, <1>11 DEF Next

LEMMA RowsStep == TypeOK /\ AnswersHaveRows /\ [Next]_vars => AnswersHaveRows'
<1> SUFFICES ASSUME TypeOK, AnswersHaveRows, [Next]_vars,
                    NEW t \in Tabs, answering'[t] # NULL
             PROVE  requests'[answering'[t].key] # "none"
  BY DEF AnswersHaveRows
<1>1. TypeOK'
  BY TypeStep
<1>2. answering'[t].key \in Keys
  BY <1>1 DEF TypeOK, Answer
<1>3. CASE answering[t] # NULL /\ answering'[t].key = answering[t].key
  BY <1>2, <1>3, RowsStay DEF AnswersHaveRows
<1>4. CASE \E key \in Keys, accept \in BOOLEAN : BeginAnswer(t, key, accept)
  BY <1>4 DEF BeginAnswer, TypeOK
<1>5. ASSUME NEW u \in Tabs,
             ApplyAnswer(u) \/ SaveAnswer(u) \/ AnswerDies(u)
                \/ \E key \in Keys, accept \in BOOLEAN : BeginAnswer(u, key, accept),
             u # t \/ ApplyAnswer(u)
      PROVE  answering[t] # NULL /\ answering'[t].key = answering[t].key
  BY <1>5 DEF ApplyAnswer, SaveAnswer, AnswerDies, BeginAnswer, TypeOK, Answer
<1>6. ~SaveAnswer(t) /\ ~AnswerDies(t)
  BY DEF SaveAnswer, AnswerDies, TypeOK
<1>7. CASE UNCHANGED answering
  BY <1>3, <1>7
<1> QED
  BY <1>3, <1>4, <1>5, <1>6, <1>7 DEF Next, vars, ChooseClubs, SelectCoaches, CheckCoach,
     RequestAdd, RequestRemove

\* A smaller set of unasked clubs is within the limit if the larger one was.
LEMMA FewerUnasked ==
    ASSUME TypeOK, NEW c \in Coaches, Cardinality(Unasked(c)) <= Limit,
           NEW S \in SUBSET Unasked(c)
    PROVE  Cardinality(S) <= Limit
<1>1. Unasked(c) \subseteq Clubs
  BY DEF TypeOK, Unasked
<1>2. IsFiniteSet(Unasked(c))
  BY <1>1, FS_Subset, CoachClubsAssumption
<1>3. Cardinality(S) <= Cardinality(Unasked(c)) /\ IsFiniteSet(S)
  BY <1>2, FS_Subset
<1>4. Cardinality(S) \in Nat /\ Cardinality(Unasked(c)) \in Nat
  BY <1>2, <1>3, FS_CardinalityType
<1> QED BY <1>3, <1>4, CoachClubsAssumption

LEMMA LimitStep == IInv /\ [Next]_vars => LimitWithoutRequests'
<1> SUFFICES ASSUME IInv, [Next]_vars, NEW c \in Coaches
             PROVE  Cardinality(Unasked(c)') <= Limit
  BY DEF LimitWithoutRequests
<1> USE DEF IInv
<1>1. TypeOK'
  BY TypeStep
<1>2. \A k \in Clubs : requests'[<<c, k, "add">>] = "none" => requests[<<c, k, "add">>] = "none"
  <2>1. \A k \in Clubs : <<c, k, "add">> \in Keys
    BY DEF Keys, Types
  <2> QED BY <2>1, RowsStay
<1>3. CASE clubsOf'[c] \subseteq clubsOf[c]
  <2>1. Unasked(c)' \subseteq Unasked(c)
    BY <1>1, <1>2, <1>3 DEF Unasked, TypeOK
  <2> QED BY <2>1, FewerUnasked DEF LimitWithoutRequests
<1>4. ASSUME NEW d \in Coaches, NEW ks \in SUBSET Clubs, ChooseClubs(d, ks)
      PROVE  Cardinality(Unasked(c)') <= Limit
  <2>1. CASE d = c
    <3>1. Unasked(c)' \subseteq ks
      BY <1>4, <2>1 DEF ChooseClubs, Unasked, TypeOK
    <3>2. IsFiniteSet(ks)
      BY FS_Subset, CoachClubsAssumption
    <3>3. Cardinality(Unasked(c)') <= Cardinality(ks) /\ IsFiniteSet(Unasked(c)')
      BY <3>1, <3>2, FS_Subset
    <3>4. Cardinality(Unasked(c)') \in Nat /\ Cardinality(ks) \in Nat
      BY <3>2, <3>3, FS_CardinalityType
    <3> QED BY <1>4, <3>3, <3>4, CoachClubsAssumption DEF ChooseClubs
  <2>2. CASE d # c
    BY <1>3, <1>4, <2>2 DEF ChooseClubs, TypeOK
  <2> QED BY <2>1, <2>2
<1>5. ASSUME NEW t \in Tabs, ApplyAnswer(t)
      PROVE  Cardinality(Unasked(c)') <= Limit
  <2> DEFINE key == answering[t].key
  <2>1. key \in Keys /\ requests[key] # "none" /\ requests' = requests
    BY <1>5 DEF ApplyAnswer, AnswersHaveRows, TypeOK, Answer
  <2>2. key[1] \in Coaches /\ key[2] \in Clubs /\ key = <<key[1], key[2], key[3]>>
    BY <2>1 DEF Keys
  <2>3. CASE key[1] # c \/ key[3] # "add"
    <3>1. clubsOf'[c] \subseteq clubsOf[c]
      BY <1>5, <2>2, <2>3 DEF ApplyAnswer, TypeOK
    <3> QED BY <3>1, <1>3
  <2>4. CASE key[1] = c /\ key[3] = "add"
    <3>1. clubsOf'[c] = clubsOf[c] \cup {key[2]}
      BY <1>5, <2>2, <2>4 DEF ApplyAnswer, TypeOK
    <3>2. key = <<c, key[2], "add">>
      BY <2>2, <2>4
    <3>3. requests'[<<c, key[2], "add">>] # "none"
      BY <2>1, <3>2
    <3>4. Unasked(c)' \subseteq Unasked(c)
      BY <2>1, <3>1, <3>3 DEF Unasked
    <3> QED BY <3>4, FewerUnasked DEF LimitWithoutRequests
  <2> QED BY <2>3, <2>4
<1>6. CASE UNCHANGED clubsOf
  BY <1>3, <1>6
<1> QED
  BY <1>4, <1>5, <1>6 DEF Next, vars, SelectCoaches, CheckCoach, RequestAdd, RequestRemove,
     BeginAnswer, SaveAnswer, AnswerDies

LEMMA NextInv == IInv /\ [Next]_vars => IInv'
BY TypeStep, RowsStep, LimitStep DEF IInv

-----------------------------------------------------------------------------
\* The inductive invariant of requests between clubs and coaches.
THEOREM Inductive == Spec => []IInv
<1>1. Init => IInv
  BY InitInv
<1>2. IInv /\ [Next]_vars => IInv'
  BY NextInv
<1> QED BY <1>1, <1>2, PTL DEF Spec

\* Every variable of the handlers keeps its type.
THEOREM TypeCorrect == Spec => []TypeOK
<1>1. IInv => TypeOK
  BY DEF IInv
<1> QED BY <1>1, Inductive, PTL

\* Of the clubs that never asked, a coach has at most three (views.py 911).
THEOREM LimitKept == Spec => []LimitWithoutRequests
<1>1. IInv => LimitWithoutRequests
  BY DEF IInv
<1> QED BY <1>1, Inductive, PTL

\* An answered request stays answered: only SaveAnswer writes over a row.
LEMMA AnsweredStays ==
    ASSUME TypeOK, [Next]_vars, NEW key \in Keys, requests[key] \in {"accepted", "rejected"}
    PROVE  requests'[key] \in {"accepted", "rejected"}
<1> USE DEF TypeOK
<1>1. ASSUME NEW k \in Clubs, RequestAdd(k) PROVE requests'[key] = requests[key]
  BY <1>1 DEF RequestAdd, Created
<1>2. ASSUME NEW k \in Clubs, NEW c \in Coaches, RequestRemove(k, c)
      PROVE  requests'[key] = requests[key]
  BY <1>2 DEF RequestRemove, Created
<1>3. ASSUME NEW t \in Tabs, SaveAnswer(t)
      PROVE  requests'[key] \in {"accepted", "rejected"}
  BY <1>3 DEF SaveAnswer
<1> QED
  BY <1>1, <1>2, <1>3 DEF Next, vars, ChooseClubs, SelectCoaches, CheckCoach,
     BeginAnswer, ApplyAnswer, AnswerDies

\* get_or_create never asks again what was answered (views.py 943).
THEOREM AnswersStay == Spec => AnswersAreFinal
<1> DEFINE Final == \A key \in Keys : requests[key] \in {"accepted", "rejected"}
                       => requests'[key] \in {"accepted", "rejected"}
<1>1. TypeOK /\ [Next]_vars => [Final]_vars
  BY AnsweredStays
<1>2. Spec => [][Final]_vars
  BY <1>1, TypeCorrect, PTL DEF Spec
<1> QED BY <1>2 DEF AnswersAreFinal

-----------------------------------------------------------------------------
(* The pages.                                                              *)

Boxes == Coaches \cup Clubs
Selection == [selected : SUBSET Boxes]
CoachLists == [active : SUBSET Coaches, full : SUBSET Coaches, awaiting : SUBSET Coaches]
Data == {Nothing} \cup Selection \cup CoachLists \cup [clubs : SUBSET Clubs]

Call == [by : PageNames \cup {"gone", "nobody"}, op : {"none", "read"} \cup Changing,
         phase : {"free", "waiting", "handling", "done", "failed"}, data : Data]

View == [page : PageNames, open : BOOLEAN, loaded : BOOLEAN, selected : SUBSET Boxes,
         full : SUBSET Coaches, awaiting : SUBSET Coaches, removing : Coaches \cup {NULL},
         confirming : BOOLEAN, busy : BOOLEAN]

\* What a request carries, by what it asks for and how far it is.
CallOK(c) ==
    /\ c \in Call
    /\ c.by \in {view.page, "gone", "nobody"}
    /\ c.op \in {"patch", "update"} /\ c.phase = "waiting"
         => /\ c.data \in Selection
            /\ c.data.selected \subseteq (IF c.op = "patch" THEN Clubs ELSE Coaches)
    /\ c.op = "read" /\ c.phase = "done"
         => /\ c.by = "choose" => c.data \in [clubs : SUBSET Clubs]
            /\ c.by = "club" => c.data \in CoachLists

CallsOK == calls = [s \in Slots |-> calls[s]] /\ \A s \in Slots : CallOK(calls[s])

ViewOK ==
    /\ view \in View
    /\ view.selected \subseteq (IF view.page = "choose" THEN Clubs ELSE Coaches)
    /\ view.confirming => view.page = "club"

\* Of the clubs that never asked, a list read, shown or sent has at most three:
\* the clubs that ask later only make them fewer.
NeverAsked(S) == {k \in S : requests[<<MyCoach, k, "add">>] = "none"}
Few(S) == Cardinality(NeverAsked(S)) <= Limit

ListsAreFew ==
    /\ view.page = "choose" => Few(view.selected)
    /\ \A s \in Slots :
        /\ calls[s].op = "read" /\ calls[s].by = "choose" /\ calls[s].phase = "done"
             => Few(calls[s].data.clubs)
        /\ Waiting(s, "patch") => Few(calls[s].data.selected)

FormsOK == CallsOK /\ ViewOK
PagesInv == IInv /\ FormsOK /\ ListsAreFew

-----------------------------------------------------------------------------
(* Requests.                                                               *)

LEMMA NoCallOK == CallOK(NoCall)
BY DEF CallOK, NoCall, Call, Data, Changing, Nothing

\* Changing one slot to a request that is right leaves every request right.
LEMMA OneCall ==
    ASSUME CallsOK, NEW s \in Slots, NEW c, CallOK(c), calls' = [calls EXCEPT ![s] = c],
           view'.page = view.page
    PROVE  CallsOK'
BY DEF CallsOK, CallOK

LEMMA SendOK ==
    ASSUME CallsOK, NEW by, NEW op, NEW data, CallOK(Request(by, op, data)), Send(by, op, data),
           view'.page = view.page
    PROVE  CallsOK'
BY OneCall DEF Send, Free

LEMMA TakeOK == ASSUME CallsOK, NEW s \in Slots, Take(s), view'.page = view.page PROVE CallsOK'
BY OneCall, NoCallOK DEF Take

LEMMA SettleOK ==
    ASSUME CallsOK, NEW s \in Slots, NEW phase, NEW answer,
           CallOK([calls[s] EXCEPT !.phase = phase, !.data = answer]),
           Settle(s, phase, answer), view'.page = view.page
    PROVE  CallsOK'
<1>1. CASE calls[s].by = "gone"
  BY <1>1, OneCall, NoCallOK DEF Settle
<1>2. CASE calls[s].by # "gone"
  BY <1>2, OneCall DEF Settle
<1> QED BY <1>1, <1>2

\* A refusal carries nothing, and is right for every operation.
LEMMA RefuseOK == ASSUME CallsOK, NEW s \in Slots, Refuse(s), view'.page = view.page PROVE CallsOK'
<1>1. CallOK([calls[s] EXCEPT !.phase = "failed", !.data = Nothing])
  <2>1. CallOK(calls[s])
    BY DEF CallsOK
  <2> QED BY <2>1 DEF CallOK, Call, Data
<1> QED BY <1>1, SettleOK DEF Refuse

-----------------------------------------------------------------------------
(* The page.                                                               *)

\* The page followed stays the same one.
LEMMA SamePage == ASSUME ViewOK, [PagesNext]_pageVars PROVE view'.page = view.page
<1> USE DEF ViewOK, View
<1>1. CASE Open \/ SubmitClubs \/ SubmitCoaches \/ ConfirmCoaches \/ CancelCoaches
  BY <1>1 DEF Open, SubmitClubs, SubmitCoaches, ConfirmCoaches, CancelCoaches
<1>2. CASE Leave
  BY <1>2 DEF Leave, Page
<1>3. CASE ConfirmRemoval \/ CancelRemoval
  BY <1>3 DEF ConfirmRemoval, CancelRemoval
<1>4. ASSUME NEW k \in Clubs, ToggleClub(k) PROVE view'.page = view.page
  BY <1>4 DEF ToggleClub
<1>5. ASSUME NEW c \in Coaches, ToggleCoach(c) PROVE view'.page = view.page
  BY <1>5 DEF ToggleCoach
<1>6. ASSUME NEW s \in Slots, ShowMyClubs(s) \/ ClubsSaved(s) \/ ShowCoaches(s) \/ CoachesAsked(s)
      PROVE  view'.page = view.page
  BY <1>6 DEF ShowMyClubs, ClubsSaved, ShowCoaches, CoachesAsked
<1>7. CASE Browser
  BY <1>1, <1>2, <1>3, <1>4, <1>5, <1>6, <1>7 DEF Browser
<1> QED BY <1>7 DEF PagesNext, Server, Elsewhere, pageVars

LEMMA CallsStep == TypeOK /\ FormsOK /\ [PagesNext]_pageVars => CallsOK'
<1> SUFFICES ASSUME TypeOK, FormsOK, [PagesNext]_pageVars PROVE CallsOK'
  OBVIOUS
<1> USE DEF FormsOK
<1>0. view'.page = view.page /\ view.page \in PageNames
  BY SamePage DEF ViewOK, View
<1>1. CASE UNCHANGED calls
  BY <1>0, <1>1 DEF CallsOK, CallOK
<1>2. CASE Open
  <2>1. CallOK(Request(view.page, "read", Nothing))
    BY <1>0 DEF CallOK, Request, Call, Data
  <2> QED BY <1>0, <1>2, <2>1, SendOK DEF Open
<1>3. CASE Leave
  <2>1. ASSUME NEW s \in Slots PROVE CallOK(Abandoned({view.page}, Changing)[s])
    <3>1. CallOK(calls[s]) /\ CallOK(NoCall)
      BY NoCallOK DEF CallsOK
    <3>2. calls[s].op # "read" => CallOK([calls[s] EXCEPT !.by = "gone"])
      BY <3>1 DEF CallOK, Call
    <3> QED BY <3>1, <3>2 DEF Abandoned, Changing
  <2>2. \A c : CallOK(c)' <=> CallOK(c)
    BY <1>0 DEF CallOK
  <2> QED BY <1>3, <2>1, <2>2 DEF Leave, CallsOK, Abandoned
<1>4. CASE SubmitClubs \/ ConfirmCoaches
  <2> DEFINE boxes == [selected |-> view.selected]
  <2>1. boxes \in Selection /\ view.selected \subseteq (IF view.page = "choose" THEN Clubs ELSE Coaches)
    BY DEF ViewOK, View, Selection
  <2>2. CASE SubmitClubs
    <3>1. CallOK(Request("choose", "patch", boxes))
      BY <2>1, <2>2 DEF SubmitClubs, CallOK, Request, Call, Data, PageNames, Changing
    <3> QED BY <1>0, <2>2, <3>1, SendOK DEF SubmitClubs
  <2>3. CASE ConfirmCoaches
    <3>1. view.page = "club"
      BY <2>3 DEF ConfirmCoaches, ViewOK
    <3>2. CallOK(Request("club", "update", boxes))
      BY <2>1, <3>1 DEF CallOK, Request, Call, Data, PageNames, Changing
    <3> QED BY <1>0, <2>3, <3>2, SendOK DEF ConfirmCoaches
  <2> QED BY <1>4, <2>2, <2>3
<1>5. ASSUME NEW s \in Slots, ShowMyClubs(s) \/ ClubsSaved(s) \/ ShowCoaches(s) \/ CoachesAsked(s)
      PROVE  CallsOK'
  BY <1>0, <1>5, TakeOK DEF ShowMyClubs, ClubsSaved, ShowCoaches, CoachesAsked
<1>6. ASSUME NEW s \in Slots, HandleLongPatch(s) \/ Fail(s) PROVE CallsOK'
  BY <1>0, <1>6, RefuseOK DEF HandleLongPatch, Fail
<1>7. ASSUME NEW s \in Slots, HandlePatch(s) \/ FinishUpdate(s) PROVE CallsOK'
  <2>1. CallOK([calls[s] EXCEPT !.phase = "done", !.data = Nothing])
    <3>1. CallOK(calls[s]) /\ calls[s].op \in {"patch", "update"}
      BY <1>7 DEF CallsOK, HandlePatch, FinishUpdate, Waiting, Handling
    <3> QED BY <3>1 DEF CallOK, Call, Data
  <2> QED BY <1>0, <1>7, <2>1, SettleOK DEF HandlePatch, FinishUpdate, Reply
<1>8. ASSUME NEW s \in Slots, HandleUpdate(s) PROVE CallsOK'
  <2>1. CallOK([calls[s] EXCEPT !.phase = "handling"])
    <3>1. CallOK(calls[s]) /\ calls[s].op = "update" /\ calls[s].phase = "waiting"
      BY <1>8 DEF CallsOK, HandleUpdate, Waiting
    <3> QED BY <3>1 DEF CallOK, Call
  <2> QED BY <1>0, <1>8, <2>1, OneCall DEF HandleUpdate, BeginHandling
<1>9. ASSUME NEW s \in Slots, HandleMyClubs(s) \/ HandleCoaches(s) PROVE CallsOK'
  <2>1. ASSUME NEW answer \in Data,
               calls[s].by = "choose" => answer \in [clubs : SUBSET Clubs],
               calls[s].by = "club" => answer \in CoachLists,
               calls[s].op = "read", Reply(s, answer)
        PROVE  CallsOK'
    <3>1. CallOK([calls[s] EXCEPT !.phase = "done", !.data = answer])
      <4>1. CallOK(calls[s])
        BY DEF CallsOK
      <4> QED BY <2>1, <4>1 DEF CallOK, Call
    <3> QED BY <1>0, <2>1, <3>1, SettleOK DEF Reply
  <2>2. CASE HandleMyClubs(s)
    <3>1. clubsOf[MyCoach] \subseteq Clubs
      BY ClubPagesAssumption DEF TypeOK
    <3> QED BY <2>1, <2>2, <3>1 DEF HandleMyClubs, Waiting, Data
  <2>3. CASE HandleCoaches(s)
    BY <2>1, <2>3 DEF HandleCoaches, Waiting, Data, CoachLists
  <2> QED BY <1>9, <2>2, <2>3
<1> QED
  <2>1. CASE Browser
    BY <2>1, <1>1, <1>2, <1>3, <1>4, <1>5 DEF Browser, ToggleClub, ToggleCoach,
       ConfirmRemoval, CancelRemoval, SubmitCoaches, CancelCoaches
  <2>2. CASE Server
    BY <2>2, <1>6, <1>7, <1>8, <1>9 DEF Server
  <2>3. CASE Elsewhere
    BY <2>3, <1>1 DEF Elsewhere
  <2> QED BY <2>1, <2>2, <2>3, <1>1 DEF PagesNext, pageVars

LEMMA ViewStep == FormsOK /\ [PagesNext]_pageVars => ViewOK'
<1> SUFFICES ASSUME FormsOK, [PagesNext]_pageVars PROVE ViewOK'
  OBVIOUS
<1> USE DEF FormsOK, ViewOK
<1>1. CASE UNCHANGED view
  BY <1>1 DEF View
<1>2. CASE Open \/ SubmitClubs \/ SubmitCoaches \/ ConfirmCoaches \/ CancelCoaches \/ CancelRemoval
  BY <1>2 DEF Open, SubmitClubs, SubmitCoaches, ConfirmCoaches, CancelCoaches, CancelRemoval, View
<1>3. CASE Leave
  BY <1>3 DEF Leave, Page, View
<1>4. ASSUME NEW k \in Clubs, ToggleClub(k) PROVE ViewOK'
  BY <1>4 DEF ToggleClub, Flipped, View, Boxes
<1>5. ASSUME NEW c \in Coaches, ToggleCoach(c) PROVE ViewOK'
  BY <1>5 DEF ToggleCoach, Clickable, View, Boxes
<1>6. CASE ConfirmRemoval
  BY <1>6 DEF ConfirmRemoval, View
<1>7. ASSUME NEW s \in Slots, ClubsSaved(s) \/ CoachesAsked(s) PROVE ViewOK'
  BY <1>7 DEF ClubsSaved, CoachesAsked, View
<1>8. ASSUME NEW s \in Slots, ShowMyClubs(s) PROVE ViewOK'
  <2>1. view.page = "choose" /\ (~Failed(s) => calls[s].data \in [clubs : SUBSET Clubs])
    BY <1>8 DEF ShowMyClubs, Answered, Failed, CallsOK, CallOK
  <2> QED BY <1>8, <2>1 DEF ShowMyClubs, View, Boxes
<1>9. ASSUME NEW s \in Slots, ShowCoaches(s) PROVE ViewOK'
  <2>1. view.page = "club" /\ (~Failed(s) => calls[s].data \in CoachLists)
    BY <1>9 DEF ShowCoaches, Answered, Failed, CallsOK, CallOK
  <2> QED BY <1>9, <2>1 DEF ShowCoaches, View, Boxes, CoachLists
<1> QED
  BY <1>1, <1>2, <1>3, <1>4, <1>5, <1>6, <1>7, <1>8, <1>9
  DEF PagesNext, pageVars, Browser, Server, Elsewhere

-----------------------------------------------------------------------------
(* The handlers.                                                           *)

\* A step of the pages, or of the server for them, is a step of CoachClubs.
LEMMA PagesRefine == FormsOK /\ [PagesNext]_pageVars => [Next]_vars
<1> SUFFICES ASSUME FormsOK, [PagesNext]_pageVars PROVE [Next]_vars
  OBVIOUS
<1> USE DEF FormsOK
<1>1. CASE UNCHANGED vars
  BY <1>1
<1>2. ASSUME NEW s \in Slots, HandlePatch(s) PROVE Next
  <2>1. calls[s].data.selected \in SUBSET Clubs
    BY <1>2 DEF HandlePatch, Waiting, CallsOK, CallOK
  <2> QED BY <1>2, <2>1, ClubPagesAssumption DEF HandlePatch, Next
<1>3. ASSUME NEW s \in Slots, HandleUpdate(s) PROVE Next
  <2>1. calls[s].data.selected \in SUBSET Coaches
    BY <1>3 DEF HandleUpdate, Waiting, CallsOK, CallOK
  <2> QED BY <1>3, <2>1, ClubPagesAssumption DEF HandleUpdate, Next
<1>4. CASE Server
  BY <1>1, <1>2, <1>3, <1>4 DEF Server, HandleLongPatch, FinishUpdate
<1>5. CASE Elsewhere
  BY <1>5 DEF Elsewhere, Next
<1> QED BY <1>1, <1>4, <1>5 DEF PagesNext, Browser, pageVars, vars

-----------------------------------------------------------------------------
(* The limit, from the list that is read to the choice that is sent.       *)

\* A part of a small set of clubs is small.
LEMMA PartIsFew ==
    ASSUME NEW U \in SUBSET Clubs, Cardinality(U) <= Limit, NEW S \in SUBSET U
    PROVE  Cardinality(S) <= Limit
<1>1. IsFiniteSet(U)
  BY FS_Subset, CoachClubsAssumption
<1>2. Cardinality(S) <= Cardinality(U) /\ IsFiniteSet(S)
  BY <1>1, FS_Subset
<1>3. Cardinality(S) \in Nat /\ Cardinality(U) \in Nat
  BY <1>1, <1>2, FS_CardinalityType
<1> QED BY <1>2, <1>3, CoachClubsAssumption

\* Clubs ask later, but none ever takes its row back.
LEMMA FewStays ==
    ASSUME IInv, [Next]_vars, NEW S \in SUBSET Clubs, Few(S)
    PROVE  Cardinality({k \in S : requests'[<<MyCoach, k, "add">>] = "none"}) <= Limit
<1>1. \A k \in S : <<MyCoach, k, "add">> \in Keys
  BY ClubPagesAssumption DEF Keys, Types
<1>2. {k \in S : requests'[<<MyCoach, k, "add">>] = "none"} \subseteq NeverAsked(S)
  BY <1>1, RowsStay DEF IInv, NeverAsked
<1>3. NeverAsked(S) \subseteq Clubs
  BY DEF NeverAsked
<1> QED BY <1>2, <1>3, PartIsFew DEF Few

\* A box may be ticked only while fewer than three are, however many were read.
LEMMA ToggledIsFew ==
    ASSUME NEW k \in Clubs, ViewOK, view.page = "choose", Few(view.selected),
           k \in view.selected \/ Cardinality(view.selected) < Limit
    PROVE  Few(Flipped(view.selected, k))
<1>1. view.selected \subseteq Clubs
  BY DEF ViewOK
<1>2. CASE k \in view.selected
  <2>1. NeverAsked(Flipped(view.selected, k)) \subseteq NeverAsked(view.selected)
    BY <1>2 DEF Flipped, NeverAsked
  <2>2. NeverAsked(view.selected) \subseteq Clubs
    BY <1>1 DEF NeverAsked
  <2> QED BY <2>1, <2>2, PartIsFew DEF Few
<1>3. CASE k \notin view.selected
  <2>1. IsFiniteSet(view.selected)
    BY <1>1, FS_Subset, CoachClubsAssumption
  <2>2. Cardinality(view.selected \cup {k}) = Cardinality(view.selected) + 1
        /\ Cardinality(view.selected) \in Nat
    BY <1>3, <2>1, FS_AddElement, FS_CardinalityType
  <2>3. Cardinality(view.selected \cup {k}) <= Limit
    BY <1>3, <2>2, CoachClubsAssumption
  <2>4. NeverAsked(Flipped(view.selected, k)) \subseteq view.selected \cup {k}
    BY <1>3 DEF Flipped, NeverAsked
  <2> QED BY <1>1, <2>3, <2>4, PartIsFew DEF Few
<1> QED BY <1>2, <1>3

\* Where a list under way comes from.
LEMMA CallOrigins ==
    ASSUME FormsOK, [PagesNext]_pageVars, NEW s \in Slots
    PROVE  /\ Waiting(s, "patch")' =>
                \/ Waiting(s, "patch") /\ calls'[s].data = calls[s].data
                \/ SubmitClubs /\ calls'[s].data = [selected |-> view.selected]
           /\ calls'[s].op = "read" /\ calls'[s].by = "choose" /\ calls'[s].phase = "done" =>
                \/ /\ calls[s].op = "read" /\ calls[s].by = "choose" /\ calls[s].phase = "done"
                   /\ calls'[s].data = calls[s].data
                \/ HandleMyClubs(s) /\ calls'[s].data = [clubs |-> clubsOf[MyCoach]]
<1> DEFINE PatchSame == Waiting(s, "patch") /\ calls'[s].data = calls[s].data
           ReadSame == /\ calls[s].op = "read" /\ calls[s].by = "choose" /\ calls[s].phase = "done"
                       /\ calls'[s].data = calls[s].data
           NewRead == calls'[s].op = "read" /\ calls'[s].by = "choose" /\ calls'[s].phase = "done"
           Same == (Waiting(s, "patch")' => PatchSame) /\ (NewRead => ReadSame)
<1> USE DEF Waiting
<1>0. \A r \in Slots : calls[r] \in Call
  BY DEF FormsOK, CallsOK, CallOK
<1>1. CASE UNCHANGED calls
  BY <1>1
<1>2. ASSUME NEW by, NEW op, NEW data, Send(by, op, data), op # "patch" PROVE Same
  BY <1>0, <1>2 DEF Send, Free, Request
<1>3. ASSUME NEW r \in Slots, Take(r) PROVE Same
  BY <1>0, <1>3 DEF Take, NoCall
<1>4. ASSUME NEW r \in Slots, Refuse(r) PROVE Same
  BY <1>0, <1>4 DEF Refuse, Settle, NoCall, Call
<1>5. ASSUME NEW r \in Slots, NEW answer, Reply(r, answer), r # s \/ ~(calls[r].op = "read")
      PROVE  Same
  BY <1>0, <1>5 DEF Reply, Settle, NoCall, Call
<1>6. ASSUME NEW r \in Slots, BeginHandling(r) PROVE Same
  BY <1>0, <1>6 DEF BeginHandling, Call
<1>7. CASE Leave
  BY <1>0, <1>7 DEF Leave, Abandoned, NoCall, Call
<1>8. CASE SubmitClubs
  <2>1. Waiting(s, "patch")' => PatchSame \/ calls'[s].data = [selected |-> view.selected]
    BY <1>0, <1>8 DEF SubmitClubs, Send, Free, Request
  <2>2. NewRead => ReadSame
    BY <1>0, <1>8 DEF SubmitClubs, Send, Free, Request
  <2> QED BY <1>8, <2>1, <2>2
<1>9. ASSUME NEW r \in Slots, HandleMyClubs(r)
      PROVE  (Waiting(s, "patch")' => PatchSame)
             /\ (NewRead => ReadSame
                   \/ (HandleMyClubs(s) /\ calls'[s].data = [clubs |-> clubsOf[MyCoach]]))
  <2>1. CASE r # s
    BY <1>0, <1>9, <2>1 DEF HandleMyClubs, Reply, Settle
  <2>2. CASE r = s
    <3>1. calls[s].by # "gone" /\ calls[s] \in Call
      BY <1>0, <1>9, <2>2 DEF HandleMyClubs
    <3>2. calls' = [calls EXCEPT ![s] = [calls[s] EXCEPT !.phase = "done",
                                             !.data = [clubs |-> clubsOf[MyCoach]]]]
      BY <1>9, <2>2, <3>1 DEF HandleMyClubs, Reply, Settle
    <3>3. DOMAIN calls = Slots
      BY DEF FormsOK, CallsOK
    <3>4. calls'[s].phase = "done" /\ calls'[s].data = [clubs |-> clubsOf[MyCoach]]
      BY <3>1, <3>2, <3>3 DEF Call
    <3> QED BY <1>9, <2>2, <3>4
  <2> QED BY <2>1, <2>2
<1>10. ASSUME NEW r \in Slots, HandleCoaches(r) PROVE Same
  BY <1>0, <1>10 DEF HandleCoaches, Reply, Settle, NoCall, Call
<1>11. CASE Browser
  <2>1. ASSUME NEW r \in Slots, ShowMyClubs(r) \/ ClubsSaved(r) \/ ShowCoaches(r) \/ CoachesAsked(r)
        PROVE  Same
    BY <1>3, <2>1 DEF ShowMyClubs, ClubsSaved, ShowCoaches, CoachesAsked
  <2>2. CASE Open
    BY <1>2, <2>2 DEF Open
  <2>3. CASE ConfirmCoaches
    BY <1>2, <2>3 DEF ConfirmCoaches
  <2>4. ASSUME NEW k \in Clubs, ToggleClub(k) PROVE UNCHANGED calls
    BY <2>4 DEF ToggleClub
  <2>5. ASSUME NEW c \in Coaches, ToggleCoach(c) PROVE UNCHANGED calls
    BY <2>5 DEF ToggleCoach
  <2>6. CASE ConfirmRemoval \/ CancelRemoval \/ SubmitCoaches \/ CancelCoaches
    BY <1>1, <2>6 DEF ConfirmRemoval, CancelRemoval, SubmitCoaches, CancelCoaches
  <2> QED BY <1>1, <1>7, <1>8, <1>11, <2>1, <2>2, <2>3, <2>4, <2>5, <2>6 DEF Browser
<1>12. CASE Server
  <2>1. ASSUME NEW r \in Slots, HandlePatch(r) \/ FinishUpdate(r) PROVE Same
    BY <1>5, <2>1 DEF HandlePatch, FinishUpdate, Handling
  <2>2. ASSUME NEW r \in Slots, HandleLongPatch(r) \/ Fail(r) PROVE Same
    BY <1>4, <2>2 DEF HandleLongPatch, Fail
  <2>3. ASSUME NEW r \in Slots, HandleUpdate(r) PROVE Same
    BY <1>6, <2>3 DEF HandleUpdate
  <2> QED BY <1>9, <1>10, <1>12, <2>1, <2>2, <2>3 DEF Server
<1> QED BY <1>1, <1>11, <1>12 DEF PagesNext, Elsewhere, pageVars

LEMMA ListsStep == PagesInv /\ [PagesNext]_pageVars => ListsAreFew'
<1> SUFFICES ASSUME PagesInv, [PagesNext]_pageVars PROVE ListsAreFew'
  OBVIOUS
<1> USE DEF PagesInv
<1>0. view'.page = view.page /\ IInv /\ [Next]_vars /\ FormsOK /\ ViewOK /\ CallsOK
  BY SamePage, PagesRefine DEF FormsOK
<1>1. ASSUME NEW S \in SUBSET Clubs, Few(S)
      PROVE  Cardinality({k \in S : requests'[<<MyCoach, k, "add">>] = "none"}) <= Limit
  BY <1>0, <1>1, FewStays
<1>2. ASSUME view.page = "choose"
      PROVE  \E S \in SUBSET Clubs : Few(S) /\ view'.selected = S
  <2>1. view.selected \in SUBSET Clubs /\ Few(view.selected) /\ view \in View
    BY <1>0, <1>2 DEF ListsAreFew, ViewOK
  <2>2. CASE view'.selected = view.selected
    BY <2>1, <2>2
  <2>3. CASE Leave
    <3>1. view'.selected = {} /\ NeverAsked({}) = {}
      BY <2>3 DEF Leave, Page, NeverAsked
    <3> QED BY <3>1, FS_EmptySet, CoachClubsAssumption DEF Few
  <2>4. ASSUME NEW k \in Clubs, ToggleClub(k)
        PROVE  \E S \in SUBSET Clubs : Few(S) /\ view'.selected = S
    <3>1. view'.selected = Flipped(view.selected, k)
      BY <2>1, <2>4 DEF ToggleClub, View
    <3>2. Few(Flipped(view.selected, k))
      BY <1>0, <1>2, <2>1, <2>4, ToggledIsFew DEF ToggleClub
    <3> QED BY <2>1, <3>1, <3>2 DEF Flipped
  <2>5. ASSUME NEW s \in Slots, ShowMyClubs(s), ~Failed(s)
        PROVE  \E S \in SUBSET Clubs : Few(S) /\ view'.selected = S
    <3>1. calls[s].op = "read" /\ calls[s].by = "choose" /\ calls[s].phase = "done"
      BY <2>5 DEF ShowMyClubs, Answered, Failed
    <3>2. calls[s].data.clubs \in SUBSET Clubs /\ Few(calls[s].data.clubs)
      BY <1>0, <3>1 DEF CallsOK, CallOK, ListsAreFew
    <3>3. view'.selected = calls[s].data.clubs
      BY <2>1, <2>5 DEF ShowMyClubs, View
    <3> QED BY <3>2, <3>3
  <2>6. ASSUME NEW s \in Slots, ShowCoaches(s) PROVE FALSE
    BY <1>0, <1>2, <2>6 DEF ShowCoaches, Answered, CallsOK, CallOK
  <2>7. ASSUME NEW s \in Slots, (ShowMyClubs(s) /\ Failed(s)) \/ ClubsSaved(s) \/ CoachesAsked(s)
        PROVE  view'.selected = view.selected
    BY <2>1, <2>7 DEF ShowMyClubs, ClubsSaved, CoachesAsked, View
  <2>8. CASE Open \/ SubmitClubs \/ SubmitCoaches \/ ConfirmCoaches \/ CancelCoaches
             \/ CancelRemoval
    BY <2>1, <2>2, <2>8 DEF Open, SubmitClubs, SubmitCoaches, ConfirmCoaches, CancelCoaches,
       CancelRemoval, View
  <2>9. CASE ConfirmRemoval
    <3>1. view'.selected \subseteq view.selected
      BY <2>1, <2>9 DEF ConfirmRemoval, View
    <3>2. NeverAsked(view'.selected) \subseteq NeverAsked(view.selected)
          /\ NeverAsked(view.selected) \subseteq Clubs
      BY <2>1, <3>1 DEF NeverAsked
    <3>3. Few(view'.selected)
      BY <2>1, <3>2, PartIsFew DEF Few
    <3> QED BY <2>1, <3>1, <3>3
  <2>10. ASSUME NEW c \in Coaches, ToggleCoach(c) PROVE FALSE
    BY <1>2, <2>10 DEF ToggleCoach, Clickable
  <2>11. CASE UNCHANGED view
    BY <2>2, <2>11
  <2>12. CASE Browser
    BY <2>2, <2>3, <2>4, <2>5, <2>6, <2>7, <2>8, <2>9, <2>10, <2>12 DEF Browser
  <2> QED BY <2>11, <2>12 DEF PagesNext, Server, Elsewhere, pageVars
<1>3. view'.page = "choose" => Few(view.selected)'
  BY <1>0, <1>1, <1>2 DEF Few, NeverAsked
<1>4. ASSUME NEW s \in Slots, Waiting(s, "patch")'
      PROVE  \E S \in SUBSET Clubs : Few(S) /\ calls'[s].data.selected = S
  <2>1. CASE Waiting(s, "patch") /\ calls'[s].data = calls[s].data
    <3>1. calls[s].data.selected \in SUBSET Clubs /\ Few(calls[s].data.selected)
      BY <1>0, <2>1 DEF CallsOK, CallOK, Waiting, ListsAreFew
    <3> QED BY <2>1, <3>1
  <2>2. CASE SubmitClubs /\ calls'[s].data = [selected |-> view.selected]
    <3>1. view.selected \in SUBSET Clubs /\ Few(view.selected)
      BY <1>0, <2>2 DEF SubmitClubs, ViewOK, ListsAreFew
    <3> QED BY <2>2, <3>1
  <2> QED BY <1>0, <1>4, <2>1, <2>2, CallOrigins
<1>5. ASSUME NEW s \in Slots,
             calls'[s].op = "read", calls'[s].by = "choose", calls'[s].phase = "done"
      PROVE  \E S \in SUBSET Clubs : Few(S) /\ calls'[s].data.clubs = S
  <2>1. CASE /\ calls[s].op = "read" /\ calls[s].by = "choose" /\ calls[s].phase = "done"
             /\ calls'[s].data = calls[s].data
    <3>1. calls[s].data.clubs \in SUBSET Clubs /\ Few(calls[s].data.clubs)
      BY <1>0, <2>1 DEF CallsOK, CallOK, ListsAreFew
    <3> QED BY <2>1, <3>1
  <2>2. CASE calls'[s].data = [clubs |-> clubsOf[MyCoach]]
    <3>1. clubsOf[MyCoach] \in SUBSET Clubs /\ NeverAsked(clubsOf[MyCoach]) = Unasked(MyCoach)
      BY <1>0, ClubPagesAssumption DEF IInv, TypeOK, NeverAsked, Unasked
    <3>2. Few(clubsOf[MyCoach])
      BY <1>0, <3>1, ClubPagesAssumption DEF IInv, LimitWithoutRequests, Few
    <3> QED BY <2>2, <3>1, <3>2
  <2> QED BY <1>0, <1>5, <2>1, <2>2, CallOrigins
<1>6. ASSUME NEW s \in Slots, Waiting(s, "patch")' PROVE Few(calls[s].data.selected)'
  BY <1>1, <1>4, <1>6 DEF Few, NeverAsked
<1>7. ASSUME NEW s \in Slots,
             calls'[s].op = "read", calls'[s].by = "choose", calls'[s].phase = "done"
      PROVE  Few(calls[s].data.clubs)'
  BY <1>1, <1>5, <1>7 DEF Few, NeverAsked
<1> QED BY <1>3, <1>6, <1>7 DEF ListsAreFew

-----------------------------------------------------------------------------
LEMMA PagesInitInv == PagesInit => Init /\ PagesInv
<1> SUFFICES ASSUME PagesInit PROVE PagesInv
  BY DEF PagesInit
<1>1. IInv
  BY InitInv DEF PagesInit
<1>2. PICK name \in PageNames : view = Page(name)
  BY DEF PagesInit
<1>3. ViewOK /\ view.selected = {}
  BY <1>2 DEF ViewOK, View, Page
<1>4. calls = [s \in Slots |-> NoCall]
  BY DEF PagesInit, NoCalls
<1>5. CallsOK
  BY <1>4, NoCallOK DEF CallsOK
<1>6. Few({})
  BY FS_EmptySet, CoachClubsAssumption DEF Few, NeverAsked
<1>7. ListsAreFew
  BY <1>3, <1>4, <1>6 DEF ListsAreFew, NoCall, Waiting
<1> QED BY <1>1, <1>3, <1>5, <1>7 DEF PagesInv, FormsOK

LEMMA PagesNextInv == PagesInv /\ [PagesNext]_pageVars => [Next]_vars /\ PagesInv'
<1> SUFFICES ASSUME PagesInv, [PagesNext]_pageVars PROVE [Next]_vars /\ PagesInv'
  OBVIOUS
<1>1. [Next]_vars
  BY PagesRefine DEF PagesInv
<1>2. IInv'
  BY <1>1, NextInv DEF PagesInv
<1> QED
  BY <1>1, <1>2, CallsStep, ViewStep, ListsStep DEF PagesInv, FormsOK, IInv

\* The inductive invariant of the two pages.
THEOREM PagesInductive == PagesSpec => []PagesInv
<1>1. PagesInit => PagesInv
  BY PagesInitInv
<1>2. PagesInv /\ [PagesNext]_pageVars => PagesInv'
  BY PagesNextInv
<1> QED BY <1>1, <1>2, PTL DEF PagesSpec

\* The pages only do what the handlers allow: with them, the server still is CoachClubs.
THEOREM PagesImplement == PagesSpec => Spec
<1>1. PagesInit => Init
  BY PagesInitInv
<1>2. PagesInv /\ [PagesNext]_pageVars => [Next]_vars
  BY PagesNextInv
<1> QED BY <1>1, <1>2, PagesInductive, PTL DEF PagesSpec, Spec

\* Whatever the pages send and whenever it arrives, the limit of three holds for
\* the clubs that never asked.
THEOREM PagesKeepLimit == PagesSpec => []LimitWithoutRequests
BY PagesImplement, LimitKept, PTL

\* RefusedOnlyByAsked: a choice is refused as too long only when a club in it
\* once asked for the coach (views.py 911, ChangeCoachClubs.jsx 43).
THEOREM RefusalNeedsRequest == PagesSpec => []RefusedOnlyByAsked
<1>1. ASSUME PagesInv, NEW s \in Slots, Waiting(s, "patch"),
             ~(\E k \in calls[s].data.selected : requests[<<MyCoach, k, "add">>] # "none")
      PROVE  ~(Cardinality(calls[s].data.selected) > Limit)
  <2>1. NeverAsked(calls[s].data.selected) = calls[s].data.selected
    BY <1>1 DEF NeverAsked
  <2>2. Cardinality(calls[s].data.selected) <= Limit
    BY <1>1, <2>1 DEF PagesInv, ListsAreFew, Few
  <2>3. calls[s].data.selected \subseteq Clubs
    BY <1>1 DEF PagesInv, FormsOK, CallsOK, CallOK, Waiting
  <2>4. Cardinality(calls[s].data.selected) \in Nat
    BY <2>3, FS_Subset, FS_CardinalityType, CoachClubsAssumption
  <2> QED BY <2>2, <2>4, CoachClubsAssumption
<1>2. PagesInv => RefusedOnlyByAsked
  BY <1>1 DEF RefusedOnlyByAsked
<1> QED BY <1>2, PagesInductive, PTL
=============================================================================
