--------------------------- MODULE CoachApprovals ---------------------------
(***************************************************************************)
(* How a coach gets the code that players register with: the approval row  *)
(* of one coach for one competition on the server, and the two places of   *)
(* the web client that ask for it, the agreement a coach meets on the way  *)
(* to the competition and the window behind "coach code" on its page.      *)
(***************************************************************************)
EXTENDS Requests

CONSTANTS
    Styles,     \* kinds of competition that are tried
    Codes       \* the codes rand_code may draw

ASSUME CoachApprovalsAssumption ==
    /\ Styles \subseteq {"kyorugi", "poomsae"}
    /\ Codes \subseteq Nat \ {0}

VARIABLES
    style,     \* of the competition
    regOpen,   \* registration_open_effective of the competition
    appr,      \* the coach's approval row; code 0 for a code that is not set
    staff,     \* have staff edited or deleted the row?
    told,      \* the codes the coach has been shown, until staff touched the row
    flow,      \* state of the agreement (CoachAgreementFlow), step "none" while it is closed
    modal      \* state of the code window (codeModal of CompetitionDetails)

coachVars == <<appr, staff, told, flow, modal>>

NoAppr == [row |-> FALSE, accepted |-> FALSE, active |-> FALSE, code |-> 0]
NoFlow == [step |-> "none", approved |-> FALSE, code |-> 0, busy |-> FALSE]
NoModal == [open |-> FALSE, loading |-> TRUE, approved |-> FALSE, code |-> 0, error |-> FALSE]

CoachInit ==
    /\ appr = NoAppr /\ staff = FALSE /\ told = {}
    /\ flow = NoFlow /\ modal = NoModal

-----------------------------------------------------------------------------
(* The server.                                                             *)

\* The status view: what it says of the approval, any of the three flags the
\* agreement looks at, and the code while the row is active.
Status ==
    LET known == appr.row /\ (style = "kyorugi" \/ appr.active) IN
    [approved |-> known /\ appr.active /\ appr.accepted,
     any |-> known /\ (appr.active \/ appr.accepted),
     code |-> IF known /\ appr.active THEN appr.code ELSE 0]

HandleStatus(s) ==
    /\ Waiting(s, "status")
    /\ Reply(s, Status)
    /\ UNCHANGED coachVars

Approvable == style = "kyorugi" \/ regOpen

\* Mutation: a fresh code on every approval.
ApprovedFresh ==
    {[row |-> TRUE, accepted |-> TRUE, active |-> TRUE, code |-> c] : c \in Codes \ {appr.code}}

\* The row after approving: a code is drawn unless there is one.
Approved ==
    {[row |-> TRUE, accepted |-> TRUE, active |-> TRUE, code |-> c] :
        c \in IF appr.code = 0 THEN Codes ELSE {appr.code}}

\* The code is set on another instance of the row (set_fresh_code), so the
\* answer to the approval that draws it has none.
HandleApprove(s) ==
    /\ Waiting(s, "approve") /\ Approvable
    /\ appr' \in Approved
    /\ Reply(s, [approved |-> TRUE, any |-> TRUE, code |-> appr.code])
    /\ UNCHANGED <<staff, told, flow, modal>>

RefuseApprove(s) ==
    /\ Waiting(s, "approve") /\ ~Approvable
    /\ Refuse(s)
    /\ UNCHANGED coachVars

\* Staff add the row or change its flags; the code is read-only to them.
StaffEdits(accepted, active) ==
    /\ appr' = [row |-> TRUE, accepted |-> accepted, active |-> active, code |-> appr.code]
    /\ staff' = TRUE /\ told' = {}
    /\ UNCHANGED <<flow, modal, calls>>

StaffDeletes ==
    /\ appr.row /\ appr' = NoAppr
    /\ staff' = TRUE /\ told' = {}
    /\ UNCHANGED <<flow, modal, calls>>

-----------------------------------------------------------------------------
(* The agreement.                                                          *)

OpenFlow ==
    /\ flow.step = "none" /\ ~modal.open /\ Quiet({"modal"})
    /\ flow' = [NoFlow EXCEPT !.step = "loading"]
    /\ Send("flow", "status", Nothing)
    /\ UNCHANGED <<appr, staff, modal>>

\* Cancel, a click beside the card, or "continue" to the page.
LeaveFlow ==
    /\ flow.step \in {"terms", "code"}
    /\ flow' = NoFlow
    /\ calls' = Abandoned({"flow"}, {"approve"})
    /\ UNCHANGED <<appr, staff, modal>>

FlowStatus(s) ==
    /\ Answered(s, "flow", "status")
    /\ flow' = IF Failed(s)
               THEN [flow EXCEPT !.step = "terms"]
               ELSE [flow EXCEPT !.step = IF calls[s].data.any THEN "code" ELSE "terms",
                                 !.approved = calls[s].data.any, !.code = calls[s].data.code]
    /\ Take(s)
    /\ UNCHANGED <<appr, staff, modal>>

\* The box is ticked and the button pressed.
ApproveTerms ==
    /\ flow.step = "terms" /\ ~flow.busy
    /\ flow' = [flow EXCEPT !.busy = TRUE]
    /\ Send("flow", "approve", Nothing)
    /\ UNCHANGED <<appr, staff, modal>>

\* Approved; without a code in the answer, the status is asked for.
FlowApproved(s) ==
    /\ Answered(s, "flow", "approve")
    /\ LET a == calls[s].data IN
       IF Failed(s)
       THEN flow' = [flow EXCEPT !.busy = FALSE] /\ Take(s)
       ELSE IF a.code # 0
       THEN /\ flow' = [flow EXCEPT !.step = "code", !.approved = TRUE, !.code = a.code, !.busy = FALSE]
            /\ Take(s)
       ELSE /\ flow' = [flow EXCEPT !.step = "code", !.approved = TRUE]
            /\ calls' = [calls EXCEPT ![s] = Request("flow", "code", Nothing)]
    /\ UNCHANGED <<appr, staff, modal>>

RefreshCode ==
    /\ flow.step = "code" /\ ~flow.busy /\ ~(flow.approved /\ flow.code # 0)
    /\ flow' = [flow EXCEPT !.busy = TRUE]
    /\ Send("flow", "refresh", Nothing)
    /\ UNCHANGED <<appr, staff, modal>>

HandleCode(s) ==
    /\ Waiting(s, "code") \/ Waiting(s, "refresh")
    /\ Reply(s, Status)
    /\ UNCHANGED coachVars

\* The code that was asked for after approving, or with the button.
FlowCode(s) ==
    LET a == calls[s].data IN
    /\ \/ /\ Answered(s, "flow", "code")
          /\ flow' = [flow EXCEPT !.code = IF Failed(s) THEN 0 ELSE a.code, !.busy = FALSE]
       \/ /\ Answered(s, "flow", "refresh")
          /\ flow' = IF Failed(s) THEN [flow EXCEPT !.busy = FALSE]
                     ELSE [flow EXCEPT !.approved = a.any, !.code = a.code, !.busy = FALSE]
    /\ Take(s)
    /\ UNCHANGED <<appr, staff, modal>>

-----------------------------------------------------------------------------
(* The window on the competition's page.                                   *)

OpenCodeWindow ==
    /\ flow.step = "none"
    /\ modal' = [open |-> TRUE, loading |-> TRUE, approved |-> FALSE, code |-> 0, error |-> FALSE]
    /\ Send("modal", "status", Nothing)
    /\ UNCHANGED <<appr, staff, flow>>

\* The window may be closed while it waits; what it waits for opens it again.
\* What a closed window still holds is not seen.
CloseCodeWindow ==
    /\ modal.open
    /\ modal' = NoModal
    /\ UNCHANGED <<appr, staff, flow, calls>>

GetCode ==
    /\ modal.open /\ ~modal.loading /\ ~modal.error /\ ~(modal.approved /\ modal.code # 0)
    /\ modal' = [modal EXCEPT !.loading = TRUE, !.error = FALSE]
    /\ Send("modal", "approve", Nothing)
    /\ UNCHANGED <<appr, staff, flow>>

Told(a) == [open |-> TRUE, loading |-> FALSE, approved |-> a.approved, code |-> a.code, error |-> FALSE]

ModalFailed(op) ==
    IF op = "status" THEN [NoModal EXCEPT !.open = TRUE, !.loading = FALSE, !.error = TRUE]
    ELSE [modal EXCEPT !.loading = FALSE, !.error = TRUE]

ModalAnswered(s) ==
    /\ Answered(s, "modal", "status") \/ Answered(s, "modal", "approve")
    /\ modal' = IF Failed(s) THEN ModalFailed(calls[s].op) ELSE Told(calls[s].data)
    /\ Take(s)
    /\ UNCHANGED <<appr, staff, flow>>

LeavePage ==
    /\ modal.open \/ ~Quiet({"modal"})
    /\ modal' = NoModal
    /\ calls' = Abandoned({"modal"}, {"approve"})
    /\ UNCHANGED <<appr, staff, flow>>

-----------------------------------------------------------------------------
\* The code the coach can read on the screen.
OnScreen ==
    (IF flow.step = "code" /\ flow.approved THEN {flow.code} ELSE {})
    \cup (IF modal.open /\ ~modal.loading /\ ~modal.error /\ modal.approved THEN {modal.code} ELSE {})

Remember == told' = IF staff THEN {} ELSE told \cup (OnScreen' \ {0})

CoachActs ==
    /\ \/ OpenFlow \/ LeaveFlow \/ ApproveTerms \/ RefreshCode
       \/ OpenCodeWindow \/ CloseCodeWindow \/ GetCode \/ LeavePage
       \/ \E s \in Slots : FlowStatus(s) \/ FlowApproved(s) \/ FlowCode(s) \/ ModalAnswered(s)
    /\ Remember

ServerActs(s) == HandleStatus(s) \/ HandleApprove(s) \/ RefuseApprove(s) \/ HandleCode(s)

\* The request or its answer is lost, or the server fails.
Fail(s) ==
    /\ calls[s].phase \in {"waiting", "done"}
    /\ Refuse(s)
    /\ UNCHANGED coachVars

OfficeActs ==
    \/ \E s \in Slots : ServerActs(s)
    \/ \E accepted, active \in BOOLEAN : StaffEdits(accepted, active)
    \/ StaffDeletes

-----------------------------------------------------------------------------
\* A code with which a player may register.
Admits(c) == appr.row /\ appr.active /\ appr.accepted /\ appr.code = c

\* Unless staff changed the row, every code the coach was ever shown, in
\* either place and by whatever answer, is the one players register with: it
\* was never replaced by a later approval, and the flags that show it are
\* those that make it valid.
ShownCodeAdmits == \A c \in told : Admits(c)
=============================================================================
