------------------------ MODULE CompetitionPageProofs ------------------------
(***************************************************************************)
(* What CompetitionPage guarantees for any codes and any number of         *)
(* requests and enrollments.  While staff leave the row alone, every code  *)
(* in the client or on its way there is that of the row (CodesAgree).      *)
(***************************************************************************)
EXTENDS CompetitionPage, TLAPS, SequenceTheorems

\* What is a record stays one.
Shaped ==
    /\ calls = [s \in Slots |-> [by |-> calls[s].by, op |-> calls[s].op,
                                 phase |-> calls[s].phase, data |-> calls[s].data]]
    /\ flow \in [step : {flow.step}, approved : {flow.approved}, code : {flow.code}, busy : {flow.busy}]
    /\ modal \in [open : {modal.open}, loading : {modal.loading}, approved : {modal.approved},
                  code : {modal.code}, error : {modal.error}]

\* The answers that bring a code, and every code the client has or gets.
BringsCode(c) == c.op \in {"status", "approve", "code", "refresh"} /\ c.phase = "done"
Underway == {calls[s].data.code : s \in {r \in Slots : BringsCode(calls[r])}}
Known == {flow.code, modal.code} \cup Underway \cup told

\* The flags are those of a valid code.
RowAdmits == appr.code # 0 => Admits(appr.code)

CodesAgree ==
    /\ tab = "coach" /\ ~staff => Known \subseteq {0, appr.code} /\ 0 \notin told /\ RowAdmits
    /\ tab # "coach" \/ staff => told = {}

-----------------------------------------------------------------------------
(* Requests.                                                               *)

\* What one request is replaced by brings at most its own code.
LEMMA OneCall ==
    ASSUME Shaped, NEW s \in Slots, NEW by, NEW op, NEW phase, NEW answer,
           calls' = [calls EXCEPT ![s] = [by |-> by, op |-> op, phase |-> phase, data |-> answer]]
    PROVE  /\ calls' = [r \in Slots |-> [by |-> calls'[r].by, op |-> calls'[r].op,
                                         phase |-> calls'[r].phase, data |-> calls'[r].data]]
           /\ op \in {"status", "approve", "code", "refresh"} /\ phase = "done"
                => Underway' \subseteq Underway \cup {answer.code}
           /\ ~(op \in {"status", "approve", "code", "refresh"} /\ phase = "done")
                => Underway' \subseteq Underway
BY DEF Shaped, Underway, BringsCode

CallsShaped ==
    calls' = [s \in Slots |-> [by |-> calls'[s].by, op |-> calls'[s].op,
                               phase |-> calls'[s].phase, data |-> calls'[s].data]]

LEMMA SendCall ==
    ASSUME Shaped, NEW by, NEW op, NEW data, Send(by, op, data)
    PROVE  CallsShaped /\ Underway' \subseteq Underway
<1>1. PICK s \in Slots : calls' = [calls EXCEPT ![s] = Request(by, op, data)]
  BY DEF Send, Free
<1> QED BY <1>1, OneCall DEF Request, CallsShaped

LEMMA TakeCall ==
    ASSUME Shaped, NEW s \in Slots, Take(s)
    PROVE  CallsShaped /\ Underway' \subseteq Underway
BY OneCall DEF Take, NoCall, CallsShaped

LEMMA RequestAgain ==
    ASSUME Shaped, NEW s \in Slots, NEW by, NEW op, NEW data,
           calls' = [calls EXCEPT ![s] = Request(by, op, data)]
    PROVE  CallsShaped /\ Underway' \subseteq Underway
BY OneCall DEF Request, CallsShaped

LEMMA CallIsRecord ==
    ASSUME Shaped, NEW s \in Slots
    PROVE  calls[s] = [by |-> calls[s].by, op |-> calls[s].op,
                       phase |-> calls[s].phase, data |-> calls[s].data]
<1> DEFINE call(r) == [by |-> calls[r].by, op |-> calls[r].op,
                       phase |-> calls[r].phase, data |-> calls[r].data]
<1>1. calls = [r \in Slots |-> call(r)]
  BY DEF Shaped
<1> HIDE DEF call
<1>2. calls[s] = call(s)
  BY <1>1
<1> QED BY <1>2 DEF call

LEMMA SettleCall ==
    ASSUME Shaped, NEW s \in Slots, NEW phase, NEW answer, Settle(s, phase, answer),
           calls[s].by # "gone"
    PROVE  calls' = [calls EXCEPT ![s] = [by |-> calls[s].by, op |-> calls[s].op,
                                          phase |-> phase, data |-> answer]]
<1>1. calls' = [calls EXCEPT ![s] = [calls[s] EXCEPT !.phase = phase, !.data = answer]]
  BY DEF Settle, Shaped
<1> DEFINE c == calls[s]
<1>2. c = [by |-> c.by, op |-> c.op, phase |-> c.phase, data |-> c.data]
  BY CallIsRecord
<1> HIDE DEF c
<1>3. [c EXCEPT !.phase = phase, !.data = answer]
        = [by |-> c.by, op |-> c.op, phase |-> phase, data |-> answer]
  <2>1. PICK by, op, old, data : c = [by |-> by, op |-> op, phase |-> old, data |-> data]
    BY <1>2
  <2> DEFINE d == [c EXCEPT !.phase = phase, !.data = answer]
  <2>2. c \in [by : {by}, op : {op}, phase : {old}, data : {data}]
    BY <2>1
  <2>3. d \in [by : {by}, op : {op}, phase : {phase}, data : {answer}]
    BY <2>2
  <2> HIDE DEF d
  <2>4. d = [by |-> d.by, op |-> d.op, phase |-> d.phase, data |-> d.data]
        /\ d.by = by /\ d.op = op /\ d.phase = phase /\ d.data = answer
    BY <2>3
  <2> QED BY <2>1, <2>4 DEF d
<1> QED BY <1>1, <1>3 DEF c

LEMMA ReplyCall ==
    ASSUME Shaped, NEW s \in Slots, NEW answer, Reply(s, answer)
    PROVE  /\ CallsShaped /\ Underway' \subseteq Underway \cup {answer.code}
           /\ calls[s].op \notin {"status", "approve", "code", "refresh"}
                => Underway' \subseteq Underway
<1>1. CASE calls[s].by = "gone"
  <2>1. calls' = [calls EXCEPT ![s] = NoCall]
    BY <1>1 DEF Reply, Settle, Shaped
  <2> QED BY <2>1, OneCall DEF NoCall, CallsShaped
<1>2. CASE calls[s].by # "gone"
  <2>1. calls' = [calls EXCEPT ![s] = [by |-> calls[s].by, op |-> calls[s].op,
                                       phase |-> "done", data |-> answer]]
    BY <1>2, SettleCall DEF Reply
  <2> QED BY <2>1, OneCall DEF CallsShaped
<1> QED BY <1>1, <1>2

LEMMA RefuseCall ==
    ASSUME Shaped, NEW s \in Slots, Refuse(s)
    PROVE  CallsShaped /\ Underway' \subseteq Underway
<1>1. CASE calls[s].by = "gone"
  <2>1. calls' = [calls EXCEPT ![s] = NoCall]
    BY <1>1 DEF Refuse, Settle, Shaped
  <2> QED BY <2>1, OneCall DEF NoCall, CallsShaped
<1>2. CASE calls[s].by # "gone"
  <2>1. calls' = [calls EXCEPT ![s] = [by |-> calls[s].by, op |-> calls[s].op,
                                       phase |-> "failed", data |-> Nothing]]
    BY <1>2, SettleCall DEF Refuse
  <2> QED BY <2>1, OneCall DEF CallsShaped
<1> QED BY <1>1, <1>2

LEMMA LeaveCalls ==
    ASSUME Shaped, NEW who, NEW changing, calls' = Abandoned(who, changing)
    PROVE  CallsShaped /\ Underway' \subseteq Underway
<1>1. ASSUME NEW s \in Slots
      PROVE  /\ calls'[s] = [by |-> calls'[s].by, op |-> calls'[s].op,
                             phase |-> calls'[s].phase, data |-> calls'[s].data]
             /\ BringsCode(calls'[s]) => calls'[s] = calls[s]
  <2> DEFINE c == calls[s]
  <2>1. c = [by |-> c.by, op |-> c.op, phase |-> c.phase, data |-> c.data]
    BY CallIsRecord
  <2>2. \/ calls'[s] = c \/ calls'[s] = NoCall
        \/ c.phase # "done" /\ calls'[s] = [c EXCEPT !.by = "gone"]
    BY DEF Abandoned
  <2> HIDE DEF c
  <2>3. /\ calls'[s] = [by |-> calls'[s].by, op |-> calls'[s].op,
                        phase |-> calls'[s].phase, data |-> calls'[s].data]
        /\ BringsCode(calls'[s]) => calls'[s] = c
    BY <2>1, <2>2 DEF BringsCode, NoCall
  <2> QED BY <2>3 DEF c
<1>2. DOMAIN calls' = Slots /\ calls' = [s \in DOMAIN calls' |-> calls'[s]]
  BY DEF Abandoned
<1>3. CallsShaped
  BY <1>1, <1>2 DEF CallsShaped
<1> QED BY <1>1, <1>3 DEF Underway, BringsCode

-----------------------------------------------------------------------------
(* The client.                                                             *)

FlowShaped ==
    flow' \in [step : {flow'.step}, approved : {flow'.approved}, code : {flow'.code}, busy : {flow'.busy}]
ModalShaped ==
    modal' \in [open : {modal'.open}, loading : {modal'.loading}, approved : {modal'.approved},
                code : {modal'.code}, error : {modal'.error}]

\* An answer brings its code to the agreement or the window, nothing else does.
LEMMA FlowSteps ==
    ASSUME Shaped,
           OpenFlow \/ LeaveFlow \/ ApproveTerms \/ RefreshCode
              \/ \E s \in Slots : FlowStatus(s) \/ FlowApproved(s) \/ FlowCode(s)
    PROVE  /\ CallsShaped /\ FlowShaped /\ UNCHANGED <<appr, staff, modal>>
           /\ Underway' \subseteq Underway /\ flow'.code \in {0, flow.code} \cup Underway
<1> DEFINE Goal == /\ CallsShaped /\ FlowShaped /\ UNCHANGED <<appr, staff, modal>>
                   /\ Underway' \subseteq Underway /\ flow'.code \in {0, flow.code} \cup Underway
<1>1. CASE OpenFlow
  BY <1>1, SendCall DEF OpenFlow, NoFlow, FlowShaped
<1>2. CASE LeaveFlow
  BY <1>2, LeaveCalls DEF LeaveFlow, NoFlow, FlowShaped
<1>3. CASE ApproveTerms \/ RefreshCode
  <2>1. FlowShaped /\ flow'.code = flow.code
    BY <1>3 DEF ApproveTerms, RefreshCode, Shaped, FlowShaped
  <2> QED BY <1>3, <2>1, SendCall DEF ApproveTerms, RefreshCode
<1>4. ASSUME NEW s \in Slots, FlowStatus(s) PROVE Goal
  <2>1. ~Failed(s) => calls[s].data.code \in Underway
    BY <1>4 DEF FlowStatus, Answered, Failed, Underway, BringsCode
  <2>2. FlowShaped /\ flow'.code \in {0, flow.code} \cup Underway
    BY <1>4, <2>1 DEF FlowStatus, Shaped, FlowShaped
  <2> QED BY <1>4, <2>2, TakeCall DEF FlowStatus
<1>5. ASSUME NEW s \in Slots, FlowApproved(s) PROVE Goal
  <2>1. ~Failed(s) => calls[s].data.code \in Underway
    BY <1>5 DEF FlowApproved, Answered, Failed, Underway, BringsCode
  <2>2. FlowShaped /\ flow'.code \in {0, flow.code} \cup Underway
    BY <1>5, <2>1 DEF FlowApproved, Shaped, FlowShaped
  <2> QED BY <1>5, <2>2, TakeCall, RequestAgain DEF FlowApproved
<1>6. ASSUME NEW s \in Slots, FlowCode(s) PROVE Goal
  <2>1. ~Failed(s) => calls[s].data.code \in Underway
    BY <1>6 DEF FlowCode, Answered, Failed, Underway, BringsCode
  <2>2. FlowShaped /\ flow'.code \in {0, flow.code} \cup Underway
    BY <1>6, <2>1 DEF FlowCode, Shaped, FlowShaped
  <2> QED BY <1>6, <2>2, TakeCall DEF FlowCode
<1> QED BY <1>1, <1>2, <1>3, <1>4, <1>5, <1>6

LEMMA ModalSteps ==
    ASSUME Shaped,
           OpenCodeWindow \/ CloseCodeWindow \/ GetCode \/ LeavePage
              \/ \E s \in Slots : ModalAnswered(s)
    PROVE  /\ CallsShaped /\ ModalShaped /\ UNCHANGED <<appr, staff, flow>>
           /\ Underway' \subseteq Underway /\ modal'.code \in {0, modal.code} \cup Underway
<1> DEFINE Goal == /\ CallsShaped /\ ModalShaped /\ UNCHANGED <<appr, staff, flow>>
                   /\ Underway' \subseteq Underway /\ modal'.code \in {0, modal.code} \cup Underway
<1>1. CASE OpenCodeWindow
  BY <1>1, SendCall DEF OpenCodeWindow, ModalShaped
<1>2. CASE CloseCodeWindow
  BY <1>2 DEF CloseCodeWindow, NoModal, ModalShaped, Shaped, CallsShaped, Underway, BringsCode
<1>3. CASE GetCode
  <2>1. ModalShaped /\ modal'.code = modal.code
    BY <1>3 DEF GetCode, Shaped, ModalShaped
  <2> QED BY <1>3, <2>1, SendCall DEF GetCode
<1>4. CASE LeavePage
  BY <1>4, LeaveCalls DEF LeavePage, NoModal, ModalShaped
<1>5. ASSUME NEW s \in Slots, ModalAnswered(s) PROVE Goal
  <2>1. ~Failed(s) => calls[s].data.code \in Underway
    BY <1>5 DEF ModalAnswered, Answered, Failed, Underway, BringsCode
  <2>2. CASE Failed(s)
    <3>1. ModalShaped /\ modal'.code \in {0, modal.code}
      BY <1>5, <2>2 DEF ModalAnswered, ModalFailed, NoModal, Shaped, ModalShaped
    <3> QED BY <1>5, <3>1, TakeCall DEF ModalAnswered
  <2>3. CASE ~Failed(s)
    <3>1. ModalShaped /\ modal'.code \in Underway
      BY <1>5, <2>1, <2>3 DEF ModalAnswered, Told, ModalShaped
    <3> QED BY <1>5, <3>1, TakeCall DEF ModalAnswered
  <2> QED BY <2>2, <2>3
<1> QED BY <1>1, <1>2, <1>3, <1>4, <1>5

LEMMA CoachSteps ==
    ASSUME Shaped, CoachActs
    PROVE  /\ CallsShaped /\ FlowShaped /\ ModalShaped /\ UNCHANGED <<appr, staff>>
           /\ Known' \subseteq {0} \cup Known
           /\ told' = IF staff THEN {} ELSE told \cup (told' \ {0})
           /\ 0 \notin told => 0 \notin told'
<1>1. CASE OpenFlow \/ LeaveFlow \/ ApproveTerms \/ RefreshCode
             \/ \E s \in Slots : FlowStatus(s) \/ FlowApproved(s) \/ FlowCode(s)
  <2>1. /\ CallsShaped /\ FlowShaped /\ ModalShaped /\ UNCHANGED <<appr, staff>>
        /\ Underway' \subseteq Underway /\ flow'.code \in {0, flow.code} \cup Underway
        /\ modal'.code = modal.code
    BY <1>1, FlowSteps DEF ModalShaped, Shaped
  <2>2. told' = IF staff THEN {} ELSE told \cup (OnScreen' \ {0})
    BY DEF CoachActs, Remember
  <2>3. OnScreen' \subseteq {flow'.code, modal'.code}
    BY DEF OnScreen
  <2> QED BY <2>1, <2>2, <2>3 DEF Known
<1>2. CASE OpenCodeWindow \/ CloseCodeWindow \/ GetCode \/ LeavePage
             \/ \E s \in Slots : ModalAnswered(s)
  <2>1. /\ CallsShaped /\ FlowShaped /\ ModalShaped /\ UNCHANGED <<appr, staff>>
        /\ Underway' \subseteq Underway /\ modal'.code \in {0, modal.code} \cup Underway
        /\ flow'.code = flow.code
    BY <1>2, ModalSteps DEF FlowShaped, Shaped
  <2>2. told' = IF staff THEN {} ELSE told \cup (OnScreen' \ {0})
    BY DEF CoachActs, Remember
  <2>3. OnScreen' \subseteq {flow'.code, modal'.code}
    BY DEF OnScreen
  <2> QED BY <2>1, <2>2, <2>3 DEF Known
<1> QED BY <1>1, <1>2 DEF CoachActs

-----------------------------------------------------------------------------
(* The server and the player.                                              *)

LEMMA ServerShape ==
    ASSUME Shaped, NEW s \in Slots, ServerActs(s)
    PROVE  CallsShaped /\ UNCHANGED <<flow, modal, told, staff>>
BY ReplyCall, RefuseCall DEF ServerActs, HandleStatus, HandleApprove, RefuseApprove, HandleCode, coachVars

\* An answer brings the code of the row or none, and the row never changes its code.
LEMMA ServerSteps ==
    ASSUME Shaped, NEW s \in Slots, ServerActs(s), RowAdmits
    PROVE  /\ CallsShaped /\ UNCHANGED <<flow, modal, told, staff>>
           /\ Underway' \subseteq Underway \cup {0, appr.code}
           /\ appr.code \in {0, appr'.code}
           /\ RowAdmits'
<1>1. CASE HandleStatus(s) \/ HandleCode(s)
  <2>1. Status.code \in {0, appr.code}
    BY DEF Status
  <2>2. Reply(s, Status) /\ UNCHANGED coachVars
    BY <1>1 DEF HandleStatus, HandleCode
  <2>3. CallsShaped /\ Underway' \subseteq Underway \cup {Status.code}
    BY <2>2, ReplyCall
  <2> QED BY <2>1, <2>2, <2>3 DEF coachVars, RowAdmits, Admits
<1>2. CASE HandleApprove(s)
  <2>1. PICK c \in IF appr.code = 0 THEN Codes ELSE {appr.code} :
          appr' = [row |-> TRUE, accepted |-> TRUE, active |-> TRUE, code |-> c]
    BY <1>2 DEF HandleApprove, Approved
  <2>2. appr.code \in {0, appr'.code} /\ RowAdmits'
    BY <2>1 DEF RowAdmits, Admits
  <2> DEFINE answer == [approved |-> TRUE, any |-> TRUE, code |-> appr.code]
  <2>3. Reply(s, answer) /\ answer.code = appr.code
    BY <1>2 DEF HandleApprove
  <2> HIDE DEF answer
  <2>4. CallsShaped /\ Underway' \subseteq Underway \cup {appr.code}
    BY <2>3, ReplyCall
  <2> QED BY <1>2, <2>2, <2>4 DEF HandleApprove
<1>3. CASE RefuseApprove(s)
  BY <1>3, RefuseCall DEF RefuseApprove, coachVars, RowAdmits, Admits
<1> QED BY <1>1, <1>2, <1>3 DEF ServerActs

\* Nothing the player does, or is answered, brings a code.
LEMMA PlayerSteps ==
    ASSUME Shaped, PlayerNext
    PROVE  CallsShaped /\ Underway' \subseteq Underway
<1> DEFINE Goal == CallsShaped /\ Underway' \subseteq Underway
<1>0. UNCHANGED calls => Goal
  BY DEF Shaped, CallsShaped, Underway, BringsCode
<1>1. LeaveCompetition => Goal
  BY LeaveCalls DEF LeaveCompetition
<1>2. PlayerActs => Goal
  BY <1>0, <1>1, SendCall DEF PlayerActs, OpenPage, OpenForm, CancelForm, Submit, CancelEnrollment
<1>3. ASSUME NEW s \in Slots, Handle(s) PROVE Goal
  BY <1>3, ReplyCall, RefuseCall DEF Handle, HandleDetail, HandleMine, RefuseRegister,
     HandleRegister, Waiting
<1>4. ASSUME NEW s \in Slots, Deliver(s) PROVE Goal
  BY <1>1, <1>4, TakeCall, RequestAgain DEF Deliver, ShowDetails, DetailsFailed, ShowCard, Prefill,
     Registered, NotRegistered
<1> QED BY <1>2, <1>3, <1>4 DEF PlayerNext

-----------------------------------------------------------------------------
PageInv == Shaped /\ CodesAgree

LEMMA PageInit == Init => PageInv
<1> SUFFICES ASSUME Init PROVE PageInv
  OBVIOUS
<1>1. Shaped
  BY DEF Init, CoachInit, NoCalls, NoCall, NoFlow, NoModal, Shaped
<1>2. Underway = {}
  BY DEF Init, NoCalls, NoCall, Underway, BringsCode
<1>3. CodesAgree
  BY <1>2 DEF Init, CoachInit, NoAppr, NoFlow, NoModal, CodesAgree, Known, RowAdmits
<1> QED BY <1>1, <1>3 DEF PageInv

\* A step that only moves codes about keeps the agreement.
LEMMA NoNewCode ==
    ASSUME PageInv, UNCHANGED <<tab, appr, staff, flow, modal, told>>,
           CallsShaped, Underway' \subseteq Underway
    PROVE  PageInv'
<1>1. Shaped'
  BY DEF PageInv, Shaped, CallsShaped
<1>2. Known' \subseteq Known /\ (RowAdmits => RowAdmits')
  BY DEF Known, RowAdmits, Admits
<1> QED BY <1>1, <1>2 DEF PageInv, CodesAgree

LEMMA PageNext == PageInv /\ [Next]_vars => PageInv'
<1> SUFFICES ASSUME PageInv, [Next]_vars PROVE PageInv'
  OBVIOUS
<1>0. Shaped /\ CodesAgree
  BY DEF PageInv
<1>1. CASE UNCHANGED <<tab, coachVars, calls>>
  <2>1. CallsShaped /\ Underway' \subseteq Underway
    BY <1>0, <1>1 DEF Shaped, CallsShaped, Underway, BringsCode
  <2> QED BY <1>1, <2>1, NoNewCode DEF coachVars
<1>2. CASE tab = "coach" /\ CoachActs /\ UNCHANGED tab
  <2>1. Shaped'
    BY <1>0, <1>2, CoachSteps DEF Shaped, CallsShaped, FlowShaped, ModalShaped
  <2>2. RowAdmits => RowAdmits'
    BY <1>0, <1>2, CoachSteps DEF RowAdmits, Admits
  <2>3. staff' = staff /\ appr' = appr /\ Known' \subseteq {0} \cup Known
        /\ (staff => told' = {}) /\ (0 \notin told => 0 \notin told')
    BY <1>0, <1>2, CoachSteps
  <2>4. CodesAgree'
    BY <1>0, <1>2, <2>2, <2>3 DEF CodesAgree
  <2> QED BY <2>1, <2>4 DEF PageInv
<1>3. ASSUME NEW s \in Slots, tab = "coach", ServerActs(s), UNCHANGED tab PROVE PageInv'
  <2>1. CASE staff
    <3>1. CallsShaped /\ UNCHANGED <<flow, modal, told, staff>>
      BY <1>0, <1>3, ServerShape
    <3> QED BY <1>0, <1>3, <2>1, <3>1 DEF PageInv, Shaped, CallsShaped, CodesAgree
  <2>2. CASE ~staff
    <3>1. RowAdmits /\ Known \subseteq {0, appr.code} /\ 0 \notin told
      BY <1>0, <1>3, <2>2 DEF CodesAgree
    <3>2. /\ CallsShaped /\ UNCHANGED <<flow, modal, told, staff>> /\ RowAdmits'
          /\ Underway' \subseteq Underway \cup {0, appr.code} /\ appr.code \in {0, appr'.code}
      BY <1>0, <1>3, <3>1, ServerSteps
    <3>3. Known' \subseteq {0, appr'.code}
      BY <3>1, <3>2 DEF Known
    <3> QED BY <1>0, <1>3, <2>2, <3>1, <3>2, <3>3 DEF PageInv, Shaped, CallsShaped, CodesAgree
  <2> QED BY <2>1, <2>2
<1>4. CASE /\ StaffDeletes \/ \E accepted, active \in BOOLEAN : StaffEdits(accepted, active)
           /\ UNCHANGED tab
  <2>1. staff' /\ told' = {} /\ UNCHANGED <<flow, modal, calls>>
    BY <1>4 DEF StaffDeletes, StaffEdits
  <2> QED BY <1>0, <2>1 DEF PageInv, Shaped, CodesAgree
<1>5. CASE tab # "coach" /\ RowChangesElsewhere /\ UNCHANGED tab
  BY <1>0, <1>5 DEF RowChangesElsewhere, PageInv, Shaped, CodesAgree
<1>6. CASE PlayerNext /\ UNCHANGED <<tab, coachVars>>
  BY <1>0, <1>6, PlayerSteps, NoNewCode DEF coachVars
<1>7. ASSUME NEW s \in Slots, Fail(s), UNCHANGED tab PROVE PageInv'
  BY <1>0, <1>7, RefuseCall, NoNewCode DEF Fail, coachVars
<1> QED
  BY <1>1, <1>2, <1>3, <1>4, <1>5, <1>6, <1>7 DEF Next, OfficeActs, SetRegistrationOpen, vars

\* The inductive invariant of the competition's page.
THEOREM PageInductive == Spec => []PageInv
BY PageInit, PageNext, PTL DEF Spec

\* Every code a coach was shown admits players until staff touch the row
\* (CompetitionDetails.jsx, CoachAgreementFlow.jsx, competitions/views.py).
THEOREM ShownCodesAdmit == Spec => []ShownCodeAdmits
<1>1. PageInv => ShownCodeAdmits
  BY DEF PageInv, CodesAgree, ShownCodeAdmits, Known, RowAdmits
<1> QED BY <1>1, PageInductive, PTL
-----------------------------------------------------------------------------
(* The enrollments of the player.  A canceled one frees the place only in a *)
(* Kyorugi competition, so that what keeps them apart depends on the style. *)

RowTypes(T) == [type : T, canceled : BOOLEAN]

RowsInv ==
    /\ \E T : rows \in Seq(RowTypes(T))
    /\ style = "kyorugi" => \A i, j \in Standing : i = j
    /\ style # "kyorugi" => \A i, j \in DOMAIN rows : rows[i].type = rows[j].type => i = j

LEMMA RowsInit == Init => RowsInv
<1> SUFFICES ASSUME Init PROVE RowsInv
  OBVIOUS
<1>1. rows = <<>> /\ rows \in Seq(RowTypes({})) /\ DOMAIN rows = {}
  BY DEF Init
<1> QED BY <1>1 DEF RowsInv, Standing

\* The server adds a row only where Taken finds none in its way.
LEMMA RegisterRows ==
    ASSUME RowsInv, NEW s \in Slots, NEW simulated, HandleRegister(s, simulated), UNCHANGED style
    PROVE  RowsInv'
<1> DEFINE type == calls[s].data.type
           row == [type |-> type, canceled |-> FALSE]
<1>1. PICK T : rows \in Seq(RowTypes(T))
  BY DEF RowsInv
<1>2. row \in RowTypes(T \cup {type}) /\ rows \in Seq(RowTypes(T \cup {type}))
  <2> HIDE DEF type
  <2>1. row \in RowTypes(T \cup {type})
    BY DEF RowTypes
  <2>2. \A r \in RowTypes(T) : r \in RowTypes(T \cup {type})
    BY DEF RowTypes
  <2>3. rows \in [1..Len(rows) -> RowTypes(T)] /\ Len(rows) \in Nat
    BY <1>1
  <2>4. rows \in [1..Len(rows) -> RowTypes(T \cup {type})]
    BY <2>2, <2>3
  <2> QED BY <2>1, <2>3, <2>4, SeqDef
<1>3. row.type = type /\ ~row.canceled /\ rows' = Append(rows, row) /\ ~Taken(type)
  BY DEF HandleRegister, Admissible
<1> HIDE DEF row, type
<1>4. /\ rows' \in Seq(RowTypes(T \cup {type})) /\ DOMAIN rows' = DOMAIN rows \cup {Len(rows) + 1}
      /\ \A i \in DOMAIN rows : rows'[i] = rows[i]
      /\ rows'[Len(rows) + 1] = row
  BY <1>2, <1>3
<1>5. CASE style = "kyorugi"
  <2>1. Standing = {} /\ style' = "kyorugi"
    BY <1>3, <1>5 DEF Taken
  <2>2. ASSUME NEW i \in Standing' PROVE i = Len(rows) + 1
    <3>1. i \in DOMAIN rows' /\ ~rows'[i].canceled
      BY <2>2 DEF Standing
    <3>2. i \notin DOMAIN rows
      BY <1>4, <2>1, <3>1 DEF Standing
    <3> QED BY <1>4, <3>1, <3>2
  <2> QED BY <1>4, <2>1, <2>2 DEF RowsInv
<1>6. CASE style # "kyorugi"
  <2>1. \A i \in DOMAIN rows : rows[i].type # type
    BY <1>3, <1>6 DEF Taken
  <2>2. ASSUME NEW i \in DOMAIN rows', NEW j \in DOMAIN rows', rows'[i].type = rows'[j].type
        PROVE  i = j
    BY <1>3, <1>4, <1>6, <2>1, <2>2 DEF RowsInv
  <2> QED BY <1>4, <1>6, <2>2 DEF RowsInv
<1> QED BY <1>5, <1>6

LEMMA CancelRows ==
    ASSUME RowsInv, NEW i \in DOMAIN rows, CancelEnrollment(i), UNCHANGED style
    PROVE  RowsInv'
<1>1. PICK T : rows \in Seq(RowTypes(T))
  BY DEF RowsInv
<1> DEFINE row == [rows[i] EXCEPT !.canceled = TRUE]
<1>2. /\ rows' \in Seq(RowTypes(T)) /\ DOMAIN rows' = DOMAIN rows
      /\ \A j \in DOMAIN rows : rows'[j].type = rows[j].type /\ (rows[j].canceled => rows'[j].canceled)
  <2>1. rows[i] \in RowTypes(T) /\ rows' = [rows EXCEPT ![i] = row]
    BY <1>1 DEF CancelEnrollment
  <2>2. row \in RowTypes(T) /\ row.type = rows[i].type /\ row.canceled
    BY <2>1 DEF RowTypes
  <2> HIDE DEF row
  <2> QED BY <1>1, <2>1, <2>2
<1>3. Standing' \subseteq Standing
  BY <1>2 DEF Standing
<1> QED BY <1>2, <1>3 DEF RowsInv

LEMMA RowsNext == RowsInv /\ [Next]_vars => RowsInv'
<1> SUFFICES ASSUME RowsInv, [Next]_vars PROVE RowsInv'
  OBVIOUS
<1>1. ASSUME UNCHANGED <<rows, style>> PROVE RowsInv'
  BY <1>1 DEF RowsInv, Standing
<1>2. CASE UNCHANGED <<style, playerVars>>
  BY <1>1, <1>2 DEF playerVars
<1>3. CASE tab = "player" /\ PlayerActs /\ UNCHANGED style
  <2>1. CASE \E i \in DOMAIN rows : CancelEnrollment(i)
    BY <1>3, <2>1, CancelRows
  <2>2. CASE ~\E i \in DOMAIN rows : CancelEnrollment(i)
    BY <1>1, <1>3, <2>2 DEF PlayerActs, OpenPage, OpenForm, CancelForm, Submit, LeaveCompetition, playerVars
  <2> QED BY <2>1, <2>2
<1>4. ASSUME NEW s \in Slots, Handle(s), UNCHANGED style PROVE RowsInv'
  <2>1. CASE \E simulated \in SimulatePaid : HandleRegister(s, simulated)
    BY <1>4, <2>1, RegisterRows
  <2>2. CASE HandleDetail(s) \/ HandleMine(s) \/ RefuseRegister(s)
    BY <1>1, <1>4, <2>2 DEF HandleDetail, HandleMine, RefuseRegister, playerVars
  <2> QED BY <1>4, <2>1, <2>2 DEF Handle
<1>5. ASSUME NEW s \in Slots, Deliver(s), UNCHANGED style PROVE RowsInv'
  BY <1>1, <1>5 DEF Deliver, ShowDetails, DetailsFailed, ShowCard, Prefill, Registered,
                    NotRegistered, LeaveCompetition, playerVars
<1> QED BY <1>2, <1>3, <1>4, <1>5 DEF Next, PlayerNext, SetRegistrationOpen, vars

\* However often the form is opened, sent and answered out of order, a player
\* stands once in a Kyorugi competition and once in each type of a Poomsae one
\* (competitions/views.py, RegisterSelfView and PoomsaeRegisterSelfView).
THEOREM StandsOnce == Spec => []OneStandingEnrollment
<1>1. RowsInv => OneStandingEnrollment
  BY DEF RowsInv, OneStandingEnrollment, Standing
<1> QED BY <1>1, RowsInit, RowsNext, PTL DEF Spec
=============================================================================
