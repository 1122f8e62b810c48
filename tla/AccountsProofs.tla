---------------------------- MODULE AccountsProofs ----------------------------
(***************************************************************************)
(* An application that was answered "stored" is never lost, for any        *)
(* people, staff and number of requests: an approval deletes the row it    *)
(* read only after it has made the member or the club (Approving).  And no *)
(* late answer leaves a window, a page or a row in a state that is not one *)
(* of the program: what a request carries (Carries) is that of a role, and *)
(* nobody waits for a registration window that was closed (Waits).         *)
(***************************************************************************)
EXTENDS Accounts, WellFoundedInduction, TLAPS

\* What a request carries on its way, and an answer back: the person and the
\* role applied for, how long to wait for a code, the role a code was asked in.
Carries(c) ==
    /\ c \in [by : {c.by}, op : {c.op}, phase : {c.phase}, data : {c.data}]
    /\ c.op = "apply" /\ c.phase = "waiting" =>
          /\ c.data.who \in People \cup {"club"} /\ c.data.role \in Roles
          /\ c.data.who = "club" <=> c.data.role = "club"
    /\ c.op = "send" /\ c.phase = "done" => c.data.retry \in 0..Window
    /\ c.by = "code" => c.op = "verify" /\ (c.phase # "failed" => c.data.role \in Roles)

CallsOK == calls = [s \in Slots |-> calls[s]] /\ \A s \in Slots : Carries(calls[s])

\* No answer reopens the registration window: who closes it asks no more.
Waits == \A s \in Slots : calls[s].by = "reg" => reg.role # "none"

WorkShaped(w) ==
    w \in [kind : {"none", "list", "club", "clubList"}, step : {"none", "login", "create", "delete"},
           row : {w.row}, current : BOOLEAN]

WorkOK == work = [e \in Staff |-> work[e]] /\ \A e \in Staff : WorkShaped(work[e])

\* An approval about to delete has created, and one that is not outdated would
\* delete the very row it read.
Right(w) ==
    /\ w.kind = "list" => w.row # Nobody
    /\ w.kind = "list" /\ w.current => w.row = pending
    /\ w.kind = "list" /\ w.step = "delete" => member = w.row
    /\ w.kind # "list" /\ w.step = "delete" => "approved" \in clubs
Approving == \A e \in Staff : Right(work[e])

Owed == owed \subseteq People \cup {"club"}

\* The other variables, and what approvals work on.
Entries == [code : Codes \cup {0}, age : 0..Window]
WindowsTyped ==
    /\ texts \in Seq(Entries)
    /\ reg \in [role : Roles, step : {1, 2}, timer : 0..Window] \cup {Closed}
    /\ forgot \in [step : {"closed", "phone", "code", "result"}, cooldown : 0..Window, loading : BOOLEAN]
    /\ verified \in BOOLEAN /\ page \in [role : Roles, phone : BOOLEAN] \cup {Home}

RowsTyped ==
    /\ login \in BOOLEAN /\ clubs \subseteq {"pending", "approved"}
    /\ pending \in Persons \cup {Nobody} /\ member \in Persons \cup {Nobody}

WorkTyped ==
    \A e \in Staff : work[e].row \in Persons \cup {Nobody} /\ (work[e].step = "none" => work[e] = Idle)

TypedInv == CallsOK /\ Waits /\ WindowsTyped /\ RowsTyped /\ WorkOK /\ WorkTyped /\ Owed

\* Where the windows are followed, no application is.
KeptInv ==
    IF tab = "pages" THEN Approving /\ AcknowledgedIsKept ELSE owed = {}

-----------------------------------------------------------------------------
(* Requests.                                                               *)

\* Nobody begins to wait for the registration window.
NoneWaits == \A r \in Slots : calls'[r].by = "reg" => calls[r].by = "reg"

LEMMA OneCall ==
    ASSUME CallsOK, NEW s \in Slots, NEW c, Carries(c), calls' = [calls EXCEPT ![s] = c]
    PROVE  CallsOK' /\ (c.by \in {calls[s].by, "nobody"} => NoneWaits)
<1>1. \A r \in Slots : calls'[r] = IF r = s THEN c ELSE calls[r]
  BY DEF CallsOK
<1>2. CallsOK'
  BY <1>1 DEF CallsOK, Carries
<1>3. c.by \in {calls[s].by, "nobody"} => NoneWaits
  BY <1>1 DEF NoneWaits
<1> QED BY <1>2, <1>3

LEMMA NoCallCarries == Carries(NoCall) /\ NoCall.by = "nobody"
BY DEF NoCall, Carries

LEMMA TakeKeeps == ASSUME CallsOK, NEW s \in Slots, Take(s) PROVE CallsOK' /\ NoneWaits
BY OneCall, NoCallCarries DEF Take

\* A request that is sent.
LEMMA SendKeeps ==
    ASSUME CallsOK, NEW by, NEW op, NEW data, Carries(Request(by, op, data)), Send(by, op, data)
    PROVE  CallsOK' /\ (by # "reg" => NoneWaits)
<1>1. PICK s \in Slots : calls' = [calls EXCEPT ![s] = Request(by, op, data)]
  BY DEF Send, Free
<1>2. \A r \in Slots : calls'[r] = IF r = s THEN Request(by, op, data) ELSE calls[r]
  BY <1>1 DEF CallsOK
<1>3. by # "reg" => NoneWaits
  BY <1>2 DEF NoneWaits, Request
<1> QED BY <1>1, <1>3, OneCall

\* The server goes on with a request, or answers it.
LEMMA AdvanceKeeps ==
    ASSUME CallsOK, NEW s \in Slots, NEW phase, NEW answer,
           calls' = [calls EXCEPT ![s] = [@ EXCEPT !.phase = phase, !.data = answer]],
           phase # "waiting",
           calls[s].op = "send" /\ phase = "done" => answer.retry \in 0..Window,
           calls[s].by = "code" /\ phase # "failed" => answer.role \in Roles
    PROVE  CallsOK' /\ NoneWaits
<1> DEFINE c == [calls[s] EXCEPT !.phase = phase, !.data = answer]
<1>1. Carries(calls[s]) /\ calls' = [calls EXCEPT ![s] = c]
  BY DEF CallsOK
<1>2. c \in [by : {calls[s].by}, op : {calls[s].op}, phase : {phase}, data : {answer}]
  BY <1>1 DEF Carries
<1> HIDE DEF c
<1>3. Carries(c) /\ c.by = calls[s].by
  BY <1>1, <1>2 DEF Carries
<1> QED BY <1>1, <1>3, OneCall

LEMMA SettleKeeps ==
    ASSUME CallsOK, NEW s \in Slots, NEW phase, phase # "waiting", NEW answer, Settle(s, phase, answer),
           calls[s].op = "send" /\ phase = "done" => answer.retry \in 0..Window,
           calls[s].by = "code" /\ phase # "failed" => answer.role \in Roles
    PROVE  CallsOK' /\ NoneWaits
<1>1. CASE calls[s].by = "gone"
  BY <1>1, OneCall, NoCallCarries DEF Settle
<1>2. CASE calls[s].by # "gone"
  BY <1>2, AdvanceKeeps DEF Settle
<1> QED BY <1>1, <1>2

LEMMA RefuseKeeps == ASSUME CallsOK, NEW s \in Slots, Refuse(s) PROVE CallsOK' /\ NoneWaits
BY SettleKeeps DEF Refuse

\* What becomes of a request when a component is left.
LEMMA AbandonedCarries ==
    ASSUME CallsOK, NEW who, NEW changing, NEW s \in Slots
    PROVE  LET c == Abandoned(who, changing)[s] IN
           /\ Carries(c) /\ c.by \in {calls[s].by, "gone", "nobody"}
           /\ calls[s].by \in who => c.by \in {"gone", "nobody"}
<1>1. Carries(calls[s]) /\ Carries(NoCall) /\ NoCall.by = "nobody"
  BY NoCallCarries DEF CallsOK
<1> DEFINE c == [calls[s] EXCEPT !.by = "gone"]
<1>2. c \in [by : {"gone"}, op : {calls[s].op}, phase : {calls[s].phase}, data : {calls[s].data}]
  BY <1>1 DEF Carries
<1>3. Abandoned(who, changing)[s] = IF calls[s].by \notin who THEN calls[s]
                                    ELSE IF calls[s].op \in changing /\ calls[s].phase \notin {"done", "failed"}
                                    THEN c ELSE NoCall
  BY DEF Abandoned
<1> HIDE DEF c
<1>4. Carries(c) /\ c.by = "gone"
  BY <1>1, <1>2 DEF Carries
<1> QED BY <1>1, <1>3, <1>4

LEMMA LeaveKeeps ==
    ASSUME CallsOK, NEW who, NEW changing, calls' = Abandoned(who, changing)
    PROVE  /\ CallsOK' /\ NoneWaits
           /\ "reg" \in who => \A r \in Slots : calls'[r].by # "reg"
<1>1. CallsOK'
  BY AbandonedCarries DEF Abandoned, CallsOK, Carries
<1>2. NoneWaits
  BY AbandonedCarries DEF NoneWaits
<1>3. "reg" \in who => \A r \in Slots : calls'[r].by # "reg"
  <2> HAVE "reg" \in who
  <2> TAKE r \in Slots
  <2> QED BY AbandonedCarries
<1> QED BY <1>1, <1>2, <1>3

\* A component is left by the answer it takes.
LEMMA LeaveTaking ==
    ASSUME CallsOK, NEW who, NEW changing, NEW s \in Slots,
           calls' = [Abandoned(who, changing) EXCEPT ![s] = NoCall]
    PROVE  /\ CallsOK' /\ NoneWaits
           /\ "reg" \in who => \A r \in Slots : calls'[r].by # "reg"
<1>1. /\ calls' = [r \in Slots |-> calls'[r]]
      /\ \A r \in Slots : calls'[r] = IF r = s THEN NoCall ELSE Abandoned(who, changing)[r]
  BY DEF Abandoned
<1>2. CallsOK'
  BY <1>1, NoCallCarries, AbandonedCarries DEF CallsOK, Carries
<1>3. NoneWaits
  BY <1>1, NoCallCarries, AbandonedCarries DEF NoneWaits
<1>4. "reg" \in who => \A r \in Slots : calls'[r].by # "reg"
  <2> HAVE "reg" \in who
  <2> TAKE r \in Slots
  <2> QED BY <1>1, NoCallCarries, AbandonedCarries
<1> QED BY <1>2, <1>3, <1>4

LEMMA CallsUnchanged == ASSUME CallsOK, UNCHANGED calls PROVE CallsOK' /\ NoneWaits
BY DEF CallsOK, Carries, NoneWaits

-----------------------------------------------------------------------------
(* The windows.                                                            *)

\* How long to wait for a code is counted from one that was sent lately.
LEMMA OldestIs ==
    ASSUME NEW S \in SUBSET Nat, S # {}
    PROVE  Oldest(S) \in S
<1> DEFINE R == OpToRel(<, Nat)
<1>1. IsWellFoundedOn(R, Nat)
  BY NatLessThanWellFounded
<1> HIDE DEF R
<1>2. PICK x \in S : \A y \in S : <<y, x>> \notin R
  BY <1>1, WFMin
<1>3. ASSUME NEW y \in S, y < x PROVE FALSE
  <2>1. <<y, x>> \in R
    BY <1>3 DEF R, OpToRel
  <2> QED BY <1>2, <2>1
<1>4. \A y \in S : x <= y
  BY <1>3
<1> QED BY <1>4 DEF Oldest

LEMMA EntryTyped ==
    ASSUME texts \in Seq(Entries), NEW n \in DOMAIN texts
    PROVE  texts[n] \in Entries
OBVIOUS

LEMMA NewCode ==
    ASSUME texts \in Seq(Entries), NEW code \in Codes, texts' = Append(texts, [code |-> code, age |-> 0])
    PROVE  texts' \in Seq(Entries)
<1>1. [code |-> code, age |-> 0] \in Entries
  BY PhoneCodesAssumption DEF Entries
<1> QED BY <1>1

LEMMA DeletedTyped == Deleted \in Entries
BY PhoneCodesAssumption DEF Deleted, Entries

LEMMA OneDeleted ==
    ASSUME texts \in Seq(Entries), NEW n, texts' = [texts EXCEPT ![n] = Deleted]
    PROVE  texts' \in Seq(Entries)
<1>1. CASE n \in DOMAIN texts
  BY <1>1, DeletedTyped
<1>2. CASE n \notin DOMAIN texts
  <2>1. texts' = texts
    BY <1>2
  <2> QED BY <2>1
<1> QED BY <1>1, <1>2

LEMMA AllDeleted ==
    ASSUME texts \in Seq(Entries), texts' = [n \in DOMAIN texts |-> Deleted]
    PROVE  texts' \in Seq(Entries)
<1>1. Len(texts) \in Nat /\ DOMAIN texts = 1..Len(texts)
  OBVIOUS
<1>2. texts' \in [1..Len(texts) -> Entries]
  BY <1>1, DeletedTyped
<1> QED BY <1>1, <1>2

\* Asked too soon, one waits for less than the whole time.
LEMMA RetryBounded ==
    ASSUME texts \in Seq(Entries), Recent # {}
    PROVE  Window - texts[Oldest(Recent)].age \in 0..Window
<1>1. Recent \in SUBSET Nat
  BY DEF Recent
<1>2. Oldest(Recent) \in Recent
  BY <1>1, OldestIs
<1> DEFINE n == Oldest(Recent)
<1>3. n \in DOMAIN texts /\ texts[n].age < Window
  BY <1>2 DEF Recent
<1> HIDE DEF n
<1>4. texts[n] \in Entries
  BY <1>3
<1>5. texts[n].age \in 0..Window
  BY <1>4 DEF Entries
<1> QED BY <1>3, <1>5, PhoneCodesAssumption DEF n

\* Waiting for the registration window: nobody begins to, and it stays open.
LEMMA WaitsStay ==
    ASSUME CallsOK, Waits, NoneWaits, reg.role # "none" => reg'.role # "none"
    PROVE  Waits'
BY DEF Waits, NoneWaits

LEMMA ServerKeeps ==
    ASSUME CallsOK, Waits, WindowsTyped, NEW s \in Slots, ServerSends(s)
    PROVE  CallsOK' /\ Waits' /\ WindowsTyped'
<1> DEFINE Keeps == CallsOK' /\ NoneWaits /\ texts' \in Seq(Entries) /\ UNCHANGED <<reg, forgot, verified, page>>
<1>0. /\ texts \in Seq(Entries) /\ Carries(calls[s])
      /\ calls[s].op = "send" => calls[s].by # "code"
  BY DEF WindowsTyped, CallsOK, Carries
<1>1. ASSUME UNCHANGED phoneVars, CallsOK' /\ NoneWaits PROVE Keeps
  BY <1>0, <1>1 DEF phoneVars
<1>2. ASSUME RefusePhone(s) PROVE Keeps
  BY <1>1, <1>2, RefuseKeeps DEF RefusePhone
<1>3. ASSUME TooSoon(s) PROVE Keeps
  <2>1. Window - texts[Oldest(Recent)].age \in 0..Window
    BY <1>0, <1>3, RetryBounded DEF TooSoon
  <2> DEFINE retry == Window - texts[Oldest(Recent)].age
             answer == [sent |-> FALSE, retry |-> retry]
  <2>2. Settle(s, "done", answer) /\ calls[s].by # "code" /\ UNCHANGED phoneVars
    BY <1>0, <1>3 DEF TooSoon, Reply, Waiting
  <2> HIDE DEF retry
  <2>3. answer.retry \in 0..Window
    BY <2>1 DEF retry
  <2> HIDE DEF answer
  <2> QED BY <1>1, <2>2, <2>3, SettleKeeps
<1>4. ASSUME FoundNone(s) PROVE Keeps
  BY <1>0, <1>1, <1>4, AdvanceKeeps DEF FoundNone, Advance, Waiting
<1>5. ASSUME NEW code \in Codes, SendCode(s, code) PROVE Keeps
  <2> DEFINE answer == [sent |-> TRUE, retry |-> 0]
  <2>1. answer.retry \in 0..Window
    BY PhoneCodesAssumption
  <2>2. Settle(s, "done", answer) /\ calls[s].by # "code"
    BY <1>0, <1>5 DEF SendCode, Reply
  <2> HIDE DEF answer
  <2>3. CallsOK' /\ NoneWaits
    BY <2>1, <2>2, SettleKeeps
  <2>4. texts' \in Seq(Entries)
    BY <1>0, <1>5, NewCode DEF SendCode
  <2> QED BY <1>5, <2>3, <2>4 DEF SendCode
\* The answers to a code that is tried.
<1>6. ASSUME NEW ok, calls[s].op = "verify", calls[s].phase # "failed",
             Reply(s, [ok |-> ok, role |-> calls[s].data.role])
      PROVE  CallsOK' /\ NoneWaits
  <2> DEFINE answer == [ok |-> ok, role |-> calls[s].data.role]
  <2>1. answer.role = calls[s].data.role /\ Settle(s, "done", answer)
    BY <1>6 DEF Reply
  <2> HIDE DEF answer
  <2>2. calls[s].by = "code" => answer.role \in Roles
    BY <1>0, <1>6, <2>1 DEF Carries
  <2> QED BY <1>6, <2>1, <2>2, SettleKeeps
<1>7. ASSUME RejectCode(s) PROVE Keeps
  <2>1. calls[s].op = "verify" /\ calls[s].phase # "failed" /\ UNCHANGED <<reg, forgot, verified, page>>
    BY <1>7 DEF RejectCode, Waiting
  <2>2. ASSUME texts' = [n \in DOMAIN texts |-> Deleted] /\ Reply(s, [ok |-> FALSE, role |-> calls[s].data.role]) PROVE Keeps
    BY <1>0, <1>6, <2>1, <2>2, AllDeleted
  <2>3. ASSUME Refuse(s) /\ UNCHANGED texts PROVE Keeps
    BY <1>0, <2>1, <2>3, RefuseKeeps
  <2>4. ASSUME NEW n, texts' = [texts EXCEPT ![n] = Deleted], Reply(s, [ok |-> FALSE, role |-> calls[s].data.role])
        PROVE  Keeps
    BY <1>0, <1>6, <2>1, <2>4, OneDeleted
  <2> QED BY <1>7, <2>2, <2>3, <2>4 DEF RejectCode
<1>8. ASSUME MatchCode(s) PROVE Keeps
  <2>1. PICK n \in Recent : Advance(s, "matched", [text |-> n, role |-> calls[s].data.role])
    BY <1>8 DEF MatchCode
  <2> DEFINE data == [text |-> n, role |-> calls[s].data.role]
  <2>2. data.role = calls[s].data.role /\ Advance(s, "matched", data)
    BY <2>1
  <2> HIDE DEF data
  <2>3. calls[s].op = "verify" /\ calls[s].phase = "waiting" /\ UNCHANGED phoneVars
    BY <1>8 DEF MatchCode, Waiting
  <2>4. calls[s].by = "code" => data.role \in Roles
    BY <1>0, <2>2, <2>3 DEF Carries
  <2> QED BY <1>1, <2>2, <2>3, <2>4, AdvanceKeeps DEF Advance
<1>9. ASSUME AcceptCode(s) PROVE Keeps
  BY <1>0, <1>6, <1>9, OneDeleted DEF AcceptCode
<1>10. Keeps
  BY <1>2, <1>3, <1>4, <1>5, <1>7, <1>8, <1>9 DEF ServerSends
<1>11. Waits'
  BY <1>10, WaitsStay
<1> QED BY <1>10, <1>11 DEF WindowsTyped

LEMMA RegisterKeeps ==
    ASSUME CallsOK, Waits, WindowsTyped, RegisterActs
    PROVE  CallsOK' /\ Waits' /\ WindowsTyped'
<1> DEFINE Open == [role : Roles, step : {1, 2}, timer : 0..Window]
<1>0. /\ reg \in Open \cup {Closed} /\ "none" \notin Roles /\ "home" \notin Roles
      /\ Closed.role = "none" /\ Closed.step = 1 /\ Window \in 0..Window
  BY PhoneCodesAssumption DEF WindowsTyped, Closed
<1>1. ASSUME NEW role \in Asking, OpenRegister(role) PROVE CallsOK' /\ Waits' /\ WindowsTyped'
  <2>1. CallsOK' /\ NoneWaits /\ reg = Closed
    BY <1>1, CallsUnchanged DEF OpenRegister
  <2>2. Waits'
    BY <2>1, <1>0 DEF Waits, NoneWaits
  <2>3. reg' \in Open
    BY <1>1, PhoneCodesAssumption DEF OpenRegister, Closed
  <2> QED BY <1>1, <2>1, <2>2, <2>3 DEF OpenRegister, WindowsTyped
<1>2. CASE SendPhone
  <2> DEFINE data == [role |-> reg.role]
  <2>1. Carries(Request("reg", "send", data))
    BY DEF Carries, Request
  <2>2. Send("reg", "send", data) /\ reg.role # "none" /\ UNCHANGED phoneVars
    BY <1>2 DEF SendPhone
  <2> HIDE DEF data
  <2>3. CallsOK'
    BY <2>1, <2>2, SendKeeps
  <2> QED BY <2>2, <2>3 DEF Waits, phoneVars, WindowsTyped
<1>3. CASE CloseRegister
  <2>1. CallsOK' /\ \A r \in Slots : calls'[r].by # "reg"
    BY <1>3, LeaveKeeps DEF CloseRegister
  <2> QED BY <1>3, <2>1 DEF Waits, WindowsTyped, CloseRegister
<1>4. ASSUME NEW code \in Codes, TypeCode(code) PROVE CallsOK' /\ Waits' /\ WindowsTyped'
  <2> DEFINE data == [code |-> code, role |-> reg.role]
  <2>1. reg.role \in Roles
    BY <1>0, <1>4 DEF TypeCode
  <2>2. data.role = reg.role
    OBVIOUS
  <2>3. Send("code", "verify", data) /\ UNCHANGED phoneVars
    BY <1>4 DEF TypeCode
  <2> HIDE DEF data
  <2>4. Carries(Request("code", "verify", data))
    BY <2>1, <2>2 DEF Carries, Request
  <2>5. CallsOK' /\ NoneWaits
    BY <2>3, <2>4, SendKeeps
  <2> QED BY <2>3, <2>5, WaitsStay DEF phoneVars, WindowsTyped
<1>5. ASSUME NEW s \in Slots, PhoneAnswered(s) PROVE CallsOK' /\ Waits' /\ WindowsTyped'
  <2>1. CallsOK' /\ NoneWaits
    BY <1>5, TakeKeeps DEF PhoneAnswered
  <2>2. reg.role # "none" /\ reg \in Open
    BY <1>0, <1>5 DEF Waits, PhoneAnswered, Answered
  <2>3. reg' \in Open
    <3>1. CASE Failed(s)
      BY <1>5, <2>2, <3>1 DEF PhoneAnswered
    <3>2. CASE ~Failed(s)
      <4> DEFINE timer == IF calls[s].data.sent THEN Window ELSE calls[s].data.retry
      <4>1. timer \in 0..Window
        BY <1>0, <1>5, <3>2 DEF CallsOK, Carries, PhoneAnswered, Answered, Failed
      <4>2. reg' = [reg EXCEPT !.step = 2, !.timer = timer]
        BY <1>5, <3>2 DEF PhoneAnswered
      <4> HIDE DEF timer
      <4> QED BY <2>2, <4>1, <4>2
    <3> QED BY <3>1, <3>2
  <2>4. reg'.role # "none"
    BY <1>0, <2>3
  <2>5. Waits'
    BY <2>1, <2>4, WaitsStay
  <2> QED BY <1>5, <2>1, <2>3, <2>5 DEF PhoneAnswered, WindowsTyped
<1>6. ASSUME NEW s \in Slots, CodeAnswered(s) PROVE CallsOK' /\ Waits' /\ WindowsTyped'
  <2>1. CASE ~Failed(s) /\ calls[s].data.ok
    <3>1. CallsOK' /\ \A r \in Slots : calls'[r].by # "reg"
      BY <1>6, <2>1, LeaveTaking DEF CodeAnswered
    <3>2. calls[s].data.role \in Roles
      BY <1>6, <2>1 DEF CallsOK, Carries, CodeAnswered, Answered, Failed
    <3> DEFINE role == calls[s].data.role
    <3>3. page' = [role |-> role, phone |-> TRUE] /\ role \in Roles
      BY <1>6, <2>1, <3>2 DEF CodeAnswered
    <3> HIDE DEF role
    <3>4. page' \in [role : Roles, phone : BOOLEAN]
      BY <3>3
    <3> QED BY <1>6, <2>1, <3>1, <3>4 DEF CodeAnswered, WindowsTyped, Waits
  <2>2. CASE ~(~Failed(s) /\ calls[s].data.ok)
    <3>1. CallsOK' /\ NoneWaits /\ UNCHANGED phoneVars
      BY <1>6, <2>2, TakeKeeps DEF CodeAnswered, phoneVars
    <3> QED BY <3>1, WaitsStay DEF phoneVars, WindowsTyped
  <2> QED BY <2>1, <2>2
<1> QED BY <1>1, <1>2, <1>3, <1>4, <1>5, <1>6 DEF RegisterActs

LEMMA ForgotKeeps ==
    ASSUME CallsOK, Waits, WindowsTyped, ForgotActs
    PROVE  CallsOK' /\ Waits' /\ WindowsTyped'
<1> DEFINE Forgot == [step : {"closed", "phone", "code", "result"}, cooldown : 0..Window, loading : BOOLEAN]
<1>0. forgot \in Forgot /\ Window \in 0..Window
  BY PhoneCodesAssumption DEF WindowsTyped
<1>1. ASSUME CallsOK' /\ NoneWaits, forgot' \in Forgot, UNCHANGED <<texts, reg, verified, page>>
      PROVE  CallsOK' /\ Waits' /\ WindowsTyped'
  BY <1>1, WaitsStay DEF WindowsTyped
<1>2. CASE OpenForgot
  <2>1. forgot' \in Forgot
    BY <1>0, <1>2 DEF OpenForgot, NoForgot
  <2> QED BY <1>1, <1>2, <2>1, CallsUnchanged DEF OpenForgot
<1>3. CASE ForgotSend
  <2>1. forgot' \in Forgot
    BY <1>0, <1>3 DEF ForgotSend
  <2>2. Carries(Request("forgot", "send", [role |-> "reset"]))
    BY DEF Carries, Request
  <2> QED BY <1>1, <1>3, <2>1, <2>2, SendKeeps DEF ForgotSend
<1>4. CASE CloseForgot
  <2>1. forgot' \in Forgot
    BY <1>0, <1>4 DEF CloseForgot, NoForgot
  <2> QED BY <1>1, <1>4, <2>1, LeaveKeeps DEF CloseForgot
<1>5. ASSUME NEW code \in Codes, ForgotVerify(code) PROVE CallsOK' /\ Waits' /\ WindowsTyped'
  <2>1. forgot' \in Forgot
    BY <1>0, <1>5 DEF ForgotVerify
  <2>2. Carries(Request("forgot", "verify", [code |-> code, role |-> "reset"]))
    BY DEF Carries, Request
  <2> QED BY <1>1, <1>5, <2>1, <2>2, SendKeeps DEF ForgotVerify
<1>6. ASSUME NEW s \in Slots, ForgotAnswered(s) PROVE CallsOK' /\ Waits' /\ WindowsTyped'
  <2> DEFINE step == IF ~Failed(s) /\ calls[s].data.sent THEN "code" ELSE forgot.step
             cooldown == IF Failed(s) THEN forgot.cooldown
                         ELSE IF calls[s].data.sent THEN Window ELSE calls[s].data.retry
  <2>1. step \in {"closed", "phone", "code", "result"}
    BY <1>0
  <2>2. ~Failed(s) => calls[s].data.retry \in 0..Window
    BY <1>6 DEF CallsOK, Carries, ForgotAnswered, Answered, Failed
  <2>3. cooldown \in 0..Window
    BY <1>0, <2>2
  <2>4. forgot' = [forgot EXCEPT !.loading = FALSE, !.step = step, !.cooldown = cooldown]
    BY <1>6 DEF ForgotAnswered
  <2> HIDE DEF step, cooldown
  <2>5. forgot' \in Forgot
    BY <1>0, <2>1, <2>3, <2>4
  <2> QED BY <1>1, <1>6, <2>5, TakeKeeps DEF ForgotAnswered
<1>7. ASSUME NEW s \in Slots, ForgotVerified(s) PROVE CallsOK' /\ Waits' /\ WindowsTyped'
  <2> DEFINE step == IF ~Failed(s) /\ calls[s].data.ok THEN "result" ELSE forgot.step
  <2>1. step \in {"closed", "phone", "code", "result"}
    BY <1>0
  <2>2. forgot' = [forgot EXCEPT !.loading = FALSE, !.step = step]
    BY <1>7 DEF ForgotVerified
  <2> HIDE DEF step
  <2>3. forgot' \in Forgot
    BY <1>0, <2>1, <2>2
  <2> QED BY <1>1, <1>7, <2>3, TakeKeeps DEF ForgotVerified
<1> QED BY <1>2, <1>3, <1>4, <1>5, <1>6, <1>7 DEF ForgotActs

\* Time passes: a code grows older up to the window, the countdowns end at zero.
LEMMA TickKeeps ==
    ASSUME CallsOK, Waits, WindowsTyped, Tick
    PROVE  CallsOK' /\ Waits' /\ WindowsTyped'
<1>1. CallsOK' /\ NoneWaits
  BY CallsUnchanged DEF Tick
<1>2. \A t \in 0..Window : Count(t) \in 0..Window /\ Count(0) = 0
  BY PhoneCodesAssumption DEF Count
<1>3. texts' \in Seq(Entries)
  <2> DEFINE older(n) == IF Live(n) /\ texts[n].age < Window THEN [texts[n] EXCEPT !.age = @ + 1] ELSE texts[n]
  <2>1. texts' = [n \in DOMAIN texts |-> older(n)] /\ texts \in Seq(Entries)
    BY DEF Tick, WindowsTyped
  <2>2. ASSUME NEW n \in DOMAIN texts PROVE older(n) \in Entries
    <3>1. texts[n] \in Entries
      BY <2>1
    <3> DEFINE m == texts[n]
    <3> HIDE DEF m
    <3>2. m \in [code : Codes \cup {0}, age : 0..Window]
      BY <3>1 DEF m, Entries
    <3>3. m.age < Window => [m EXCEPT !.age = m.age + 1] \in [code : Codes \cup {0}, age : 0..Window]
      <4>1. m.age < Window => m.age + 1 \in 0..Window
        BY <3>2, PhoneCodesAssumption
      <4> QED BY <3>2, <4>1
    <3>4. older(n) \in {m, [m EXCEPT !.age = m.age + 1]} /\ (older(n) # m => m.age < Window)
      BY DEF m
    <3> HIDE DEF older
    <3> QED BY <3>2, <3>3, <3>4 DEF Entries
  <2> HIDE DEF older
  <2>3. Len(texts) \in Nat /\ DOMAIN texts = 1..Len(texts)
    BY <2>1
  <2>4. texts' \in [1..Len(texts) -> Entries]
    BY <2>1, <2>2, <2>3
  <2> QED BY <2>3, <2>4
<1>4. /\ reg' \in [role : Roles, step : {1, 2}, timer : 0..Window] \cup {Closed}
      /\ reg'.role = reg.role
  <2>1. CASE reg = Closed
    BY <1>2, <2>1, PhoneCodesAssumption DEF Tick, Closed
  <2>2. CASE reg \in [role : Roles, step : {1, 2}, timer : 0..Window]
    <3>1. Count(reg.timer) \in 0..Window /\ reg' = [reg EXCEPT !.timer = Count(reg.timer)]
      BY <1>2, <2>2 DEF Tick
    <3> DEFINE timer == Count(reg.timer)
    <3> HIDE DEF timer
    <3>2. timer \in 0..Window /\ reg' = [reg EXCEPT !.timer = timer]
      BY <3>1 DEF timer
    <3> QED BY <2>2, <3>2
  <2> QED BY <2>1, <2>2 DEF WindowsTyped
<1>5. forgot' \in [step : {"closed", "phone", "code", "result"}, cooldown : 0..Window, loading : BOOLEAN]
  <2> DEFINE cooldown == Count(forgot.cooldown)
  <2>1. cooldown \in 0..Window /\ forgot' = [forgot EXCEPT !.cooldown = cooldown]
    BY <1>2 DEF Tick, WindowsTyped
  <2> HIDE DEF cooldown
  <2> QED BY <2>1 DEF WindowsTyped
<1>6. Waits'
  BY <1>1, <1>4, WaitsStay
<1> QED BY <1>1, <1>3, <1>4, <1>5, <1>6 DEF Tick, WindowsTyped

-----------------------------------------------------------------------------
(* Staff.                                                                  *)

LEMMA OneWork ==
    ASSUME WorkOK, NEW e \in Staff, NEW w, WorkShaped(w), work' = [work EXCEPT ![e] = w]
    PROVE  WorkOK' /\ work'[e] = w /\ \A f \in Staff \ {e} : work'[f] = work[f]
BY DEF WorkOK, WorkShaped

LEMMA OutdatedWork ==
    ASSUME WorkOK, NEW kinds, NEW e \in Staff
    PROVE  LET w == Outdated(kinds)[e] IN
           /\ WorkShaped(w) /\ w.kind = work[e].kind /\ w.step = work[e].step /\ w.row = work[e].row
           /\ w.current => work[e].current /\ work[e].kind \notin kinds
<1> DEFINE old == work[e]
           w == IF old.kind \in kinds THEN [old EXCEPT !.current = FALSE] ELSE old
<1>1. old \in [kind : {"none", "list", "club", "clubList"}, step : {"none", "login", "create", "delete"},
               row : {old.row}, current : BOOLEAN]
  BY DEF WorkOK, WorkShaped
<1>2. Outdated(kinds)[e] = w
  BY DEF Outdated
<1> HIDE DEF old
<1>3. /\ w \in [kind : {old.kind}, step : {old.step}, row : {old.row}, current : BOOLEAN]
      /\ w.current => old.current /\ old.kind \notin kinds
  BY <1>1
<1> HIDE DEF w
<1>4. WorkShaped(w) /\ w.kind = old.kind /\ w.step = old.step /\ w.row = old.row
  BY <1>1, <1>3 DEF WorkShaped
<1> QED BY <1>2, <1>3, <1>4 DEF old

\* An approval that goes on, or stops.
LEMMA IdleWork == WorkShaped(Idle) /\ Right(Idle) /\ Idle.step = "none"
BY DEF WorkShaped, Right, Idle

LEMMA SteppedWork ==
    ASSUME WorkOK, NEW e \in Staff, work[e].step # "none"
    PROVE  LET w == Stepped(work[e]) IN
           /\ WorkShaped(w)
           /\ w = Idle \/ (/\ w.kind = work[e].kind /\ w.row = work[e].row
                           /\ w.current = work[e].current /\ w.step = After(work[e].step))
           /\ work[e].step = "delete" => w = Idle
<1> DEFINE old == work[e]
           w == [old EXCEPT !.step = After(old.step)]
<1>1. /\ old \in [kind : {"none", "list", "club", "clubList"}, step : {"none", "login", "create", "delete"},
                  row : {old.row}, current : BOOLEAN]
      /\ old.step # "none"
  BY DEF WorkOK, WorkShaped
<1>2. Stepped(work[e]) = IF After(old.step) = "none" THEN Idle ELSE w
  BY DEF Stepped
<1> HIDE DEF old
<1>3. /\ After(old.step) \in {"none", "create", "delete"}
      /\ old.step = "delete" => After(old.step) = "none"
  BY <1>1 DEF After
<1>4. w \in [kind : {old.kind}, step : {After(old.step)}, row : {old.row}, current : {old.current}]
  BY <1>1
<1> HIDE DEF w
<1>5. WorkShaped(w) \/ After(old.step) = "none"
  BY <1>1, <1>3, <1>4 DEF WorkShaped
<1>6. w.kind = old.kind /\ w.row = old.row /\ w.current = old.current /\ w.step = After(old.step)
  BY <1>4
<1> QED BY <1>2, <1>3, <1>5, <1>6, IdleWork DEF old

\* What an approval does to the work of the others, and to its own.
LEMMA OutdatedIsOK == ASSUME WorkOK, NEW kinds, work' = Outdated(kinds) PROVE WorkOK'
<1>1. \A e \in Staff : WorkShaped(Outdated(kinds)[e])
  BY OutdatedWork
<1> QED BY <1>1 DEF WorkOK, Outdated, WorkShaped
LEMMA StopIsOK ==
    ASSUME WorkOK, NEW e \in Staff, Stop(e)
    PROVE  WorkOK' /\ work'[e] = Idle /\ \A f \in Staff \ {e} : work'[f] = work[f]
BY OneWork, IdleWork DEF Stop

LEMMA ProceedIsOK ==
    ASSUME WorkOK, NEW e \in Staff, work[e].step # "none", Proceed(e)
    PROVE  /\ WorkOK' /\ work'[e] = Stepped(work[e])
           /\ \A f \in Staff \ {e} : work'[f] = work[f]
<1>1. WorkShaped(Stepped(work[e]))
  BY SteppedWork
<1>2. work' = [work EXCEPT ![e] = Stepped(work[e])]
  BY DEF Proceed
<1> QED BY <1>1, <1>2, OneWork

-----------------------------------------------------------------------------
(* What staff do keeps what is owed.                                       *)

Kept == WorkOK /\ Approving /\ Owed /\ AcknowledgedIsKept

LEMMA ApproveKeeps == ASSUME Kept, ApprovePendingUser PROVE Kept'
<1> USE DEF Kept
<1>1. WorkOK'
  BY OutdatedIsOK DEF ApprovePendingUser
<1>2. Approving'
  <2>1. ASSUME NEW e \in Staff PROVE Right(work[e])'
    <3>1. Right(work[e])
      BY DEF Approving
    <3>2. /\ work'[e].kind = work[e].kind /\ work'[e].step = work[e].step /\ work'[e].row = work[e].row
          /\ work'[e].current => work[e].kind # "list"
      BY OutdatedWork DEF ApprovePendingUser
    <3> QED BY <3>1, <3>2 DEF Right, ApprovePendingUser
  <2> QED BY <2>1 DEF Approving
<1>3. Owed' /\ AcknowledgedIsKept'
  BY AccountsAssumption DEF ApprovePendingUser, Owed, AcknowledgedIsKept, Nobody
<1> QED BY <1>1, <1>2, <1>3

LEMMA StaffDeleteKeeps == ASSUME Kept, StaffDelete PROVE Kept'
<1> USE DEF Kept
<1>1. PICK kinds \in {{"list"}, {"club", "clubList"}} :
          /\ work' = Outdated(kinds)
          /\ kinds = {"list"} => UNCHANGED clubs
          /\ kinds # {"list"} => UNCHANGED pending /\ clubs' = clubs \ {"pending"}
  BY DEF StaffDelete
<1>2. WorkOK'
  BY <1>1, OutdatedIsOK
<1>3. Approving'
  <2>1. ASSUME NEW e \in Staff PROVE Right(work[e])'
    <3>1. Right(work[e])
      BY DEF Approving
    <3>2. /\ work'[e].kind = work[e].kind /\ work'[e].step = work[e].step /\ work'[e].row = work[e].row
          /\ work'[e].current => work[e].current /\ work[e].kind \notin kinds
      BY <1>1, OutdatedWork
    <3>3. member' = member
      BY DEF StaffDelete
    <3> QED BY <1>1, <3>1, <3>2, <3>3 DEF Right
  <2> QED BY <2>1 DEF Approving
<1>4. Owed' /\ AcknowledgedIsKept'
  BY AccountsAssumption DEF StaffDelete, Owed, AcknowledgedIsKept
<1> QED BY <1>2, <1>3, <1>4

LEMMA BeginKeeps ==
    ASSUME Kept, NEW e \in Staff, NEW kind \in {"list", "club", "clubList"}, Begin(e, kind)
    PROVE  Kept'
<1> USE DEF Kept
<1> DEFINE w == [kind |-> kind, step |-> "login", row |-> IF kind = "list" THEN pending ELSE Nobody,
                 current |-> TRUE]
<1>1. WorkShaped(w) /\ work' = [work EXCEPT ![e] = w]
  BY DEF WorkShaped, Begin
<1>2. Right(w)
  BY DEF Right, Begin
<1> HIDE DEF w
<1>3. WorkOK' /\ work'[e] = w /\ \A f \in Staff \ {e} : work'[f] = work[f]
  BY <1>1, OneWork
<1>4. Approving'
  BY <1>2, <1>3 DEF Approving, Right, Begin, rowVars
<1>5. Owed' /\ AcknowledgedIsKept'
  BY DEF Begin, rowVars, Owed, AcknowledgedIsKept
<1> QED BY <1>3, <1>4, <1>5

\* A step that changes no row but the login.
LEMMA OneStepKeeps ==
    ASSUME Kept, NEW e \in Staff, UNCHANGED <<pending, member, clubs, owed>>,
           Stop(e) \/ (Proceed(e) /\ work[e].step = "login")
    PROVE  Kept'
<1> USE DEF Kept
<1>1. /\ WorkOK' /\ \A f \in Staff \ {e} : work'[f] = work[f]
      /\ work'[e] = Idle \/ (work[e].step = "login" /\ work'[e] = Stepped(work[e]))
  BY StopIsOK, ProceedIsOK
<1>2. Right(work'[e])
  <2>1. Right(work[e]) /\ Right(Idle)
    BY IdleWork DEF Approving
  <2>2. CASE work[e].step = "login" /\ work'[e] = Stepped(work[e])
    BY <2>1, <2>2, SteppedWork DEF Right, After
  <2> QED BY <1>1, <2>1, <2>2
<1>3. Approving'
  BY <1>1, <1>2 DEF Approving, Right
<1>4. Owed' /\ AcknowledgedIsKept'
  BY DEF Owed, AcknowledgedIsKept
<1> QED BY <1>1, <1>3, <1>4

LEMMA CreateKeeps == ASSUME Kept, NEW e \in Staff, CreateRow(e) PROVE Kept'
<1> USE DEF Kept
<1>1. CASE Stop(e) /\ UNCHANGED <<pending, member, clubs, owed>>
  BY <1>1, OneStepKeeps
<1>2. CASE /\ Proceed(e) /\ work[e].step = "create" /\ UNCHANGED <<pending, owed>>
           /\ \/ /\ work[e].kind = "list" /\ member = Nobody /\ member' = work[e].row /\ UNCHANGED clubs
              \/ /\ work[e].kind # "list" /\ clubs' = clubs \cup {"approved"} /\ UNCHANGED member
  <2>1. WorkOK' /\ work'[e] = Stepped(work[e]) /\ \A f \in Staff \ {e} : work'[f] = work[f]
    BY <1>2, ProceedIsOK
  <2>2. Right(work[e])'
    <3>1. Right(work[e])
      BY DEF Approving
    <3>2. CASE work'[e] = Idle
      BY <3>2 DEF Right, Idle
    <3> QED BY <1>2, <2>1, <3>1, <3>2, SteppedWork DEF Right
  <2>3. ASSUME NEW f \in Staff \ {e} PROVE Right(work[f])'
    BY <1>2, <2>1 DEF Approving, Right
  <2>4. Approving'
    BY <2>2, <2>3 DEF Approving
  <2>5. Owed' /\ AcknowledgedIsKept'
    BY <1>2, AccountsAssumption DEF Owed, AcknowledgedIsKept, Nobody
  <2> QED BY <2>1, <2>4, <2>5
<1> QED BY <1>1, <1>2 DEF CreateRow

LEMMA DeleteKeeps == ASSUME Kept, NEW e \in Staff, DeletePending(e) PROVE Kept'
<1> USE DEF Kept
<1> DEFINE kinds == IF work[e].kind = "list" THEN {"list"} ELSE {"club", "clubList"}
           other == IF work[e].current THEN Outdated(kinds) ELSE work
<1>1. /\ work[e].step = "delete" /\ UNCHANGED <<member, owed>> /\ Right(work[e])
      /\ work' = [other EXCEPT ![e] = Stepped(work[e])]
  BY DEF DeletePending, Approving
<1>2. Stepped(work[e]) = Idle
  BY <1>1, SteppedWork
<1>3. /\ other = [f \in Staff |-> other[f]]
      /\ \A f \in Staff : /\ WorkShaped(other[f])
                          /\ other[f].kind = work[f].kind /\ other[f].step = work[f].step
                          /\ other[f].row = work[f].row
                          /\ other[f].current => work[f].current
                          /\ other[f].current /\ work[e].current => work[f].kind \notin kinds
  <2>1. \A f \in Staff : WorkShaped(work[f])
    BY DEF WorkOK
  <2> HIDE DEF kinds
  <2>2. CASE work[e].current
    BY <2>2, OutdatedWork DEF Outdated
  <2>3. CASE ~work[e].current
    BY <2>1, <2>3 DEF WorkOK
  <2> QED BY <2>2, <2>3
<1> HIDE DEF other
<1>4. /\ work' = [f \in Staff |-> work'[f]]
      /\ \A f \in Staff : work'[f] = Idle \/ work'[f] = other[f]
  BY <1>1, <1>2, <1>3
<1>5. WorkOK'
  BY <1>3, <1>4, IdleWork DEF WorkOK, WorkShaped
<1>6. /\ pending' = pending \/ (pending' = Nobody /\ member = pending /\ work[e].current /\ work[e].kind = "list")
      /\ clubs' = clubs \/ (clubs' = clubs \ {"pending"} /\ "approved" \in clubs)
  BY <1>1 DEF DeletePending, Right
<1>7. Approving'
  <2>1. ASSUME NEW f \in Staff PROVE Right(work[f])'
    <3>1. CASE work'[f] = Idle
      BY <3>1 DEF Right, Idle
    <3>2. CASE work'[f] = other[f]
      BY <1>1, <1>3, <1>6, <3>2 DEF Approving, Right
    <3> QED BY <1>4, <3>1, <3>2
  <2> QED BY <2>1 DEF Approving
<1>8. Owed' /\ AcknowledgedIsKept'
  BY <1>1, <1>6 DEF Owed, AcknowledgedIsKept
<1> QED BY <1>5, <1>7, <1>8

LEMMA StaffKeep == ASSUME Kept, StaffActs PROVE Kept'
<1>1. ASSUME NEW e \in Staff, MakeLogin(e) PROVE Kept'
  BY <1>1, OneStepKeeps DEF MakeLogin
<1>2. ASSUME NEW e \in Staff, Crash(e) PROVE Kept'
  BY <1>2, OneStepKeeps DEF Crash, rowVars
<1> QED BY <1>1, <1>2, ApproveKeeps, StaffDeleteKeeps, BeginKeeps, CreateKeeps, DeleteKeeps DEF StaffActs

-----------------------------------------------------------------------------
(* The applications.                                                       *)

LEMMA QuietKeeps == ASSUME Kept, UNCHANGED <<pending, member, clubs, work, owed>> PROVE Kept'
<1>1. WorkOK'
  BY DEF Kept, WorkOK, WorkShaped
<1>2. Approving'
  BY DEF Kept, Approving, Right
<1>3. Owed' /\ AcknowledgedIsKept'
  BY DEF Kept, Owed, AcknowledgedIsKept
<1> QED BY <1>1, <1>2, <1>3 DEF Kept

LEMMA ApplyKeeps ==
    ASSUME Kept, CallsOK, NEW s \in Slots, HandleApply(s) \/ HandleApplyHalf(s)
    PROVE  Kept'
<1> USE DEF Kept
<1> DEFINE a == calls[s].data
<1>1. a.who \in People \cup {"club"} /\ UNCHANGED <<member, work>>
  BY DEF CallsOK, Carries, HandleApply, HandleApplyHalf, Waiting
<1>2. WorkOK'
  BY <1>1 DEF WorkOK, WorkShaped
<1>3. CASE UNCHANGED <<pending, clubs, owed>>
  BY <1>1, <1>3, QuietKeeps
<1>4. CASE Admissible(a) /\ Stored(a) /\ owed' \in {owed, owed \cup {a.who}}
  <2>1. CASE a.who = "club" /\ clubs = {} /\ clubs' = {"pending"} /\ UNCHANGED pending
    BY <1>1, <1>2, <1>4, <2>1 DEF Approving, Right, Owed, AcknowledgedIsKept
  <2>2. CASE a.who # "club" /\ pending = Nobody /\ UNCHANGED clubs
             /\ pending' = [who |-> a.who, role |-> a.role]
    <3>1. Approving'
      BY <1>1, <2>2 DEF Approving, Right
    <3>2. Owed' /\ AcknowledgedIsKept'
      <4>1. pending'.who = a.who /\ pending.who = "nobody"
        BY <2>2 DEF Nobody
      <4> HIDE DEF a
      <4> QED BY <1>1, <1>4, <2>2, <4>1, AccountsAssumption DEF Owed, AcknowledgedIsKept
    <3> QED BY <1>2, <3>1, <3>2
  <2> QED BY <1>4, <2>1, <2>2 DEF Admissible, Stored
<1> QED BY <1>3, <1>4 DEF HandleApply, HandleApplyHalf

-----------------------------------------------------------------------------
(* What the rows and the approvals hold.                                   *)

RowOK(w) == w.row \in Persons \cup {Nobody} /\ (w.step = "none" => w = Idle)

LEMMA OutdatedTyped ==
    ASSUME WorkOK, WorkTyped, NEW kinds, "none" \notin kinds, NEW e \in Staff
    PROVE  RowOK(Outdated(kinds)[e])
<1>1. RowOK(work[e])
  BY DEF WorkTyped, RowOK
<1>2. Outdated(kinds)[e].row = work[e].row /\ Outdated(kinds)[e].step = work[e].step
  BY OutdatedWork
<1>3. work[e] = Idle => Outdated(kinds)[e] = Idle
  BY DEF Outdated, Idle
<1> QED BY <1>1, <1>2, <1>3 DEF RowOK

LEMMA SteppedTyped ==
    ASSUME WorkOK, WorkTyped, NEW e \in Staff, work[e].step # "none"
    PROVE  RowOK(Stepped(work[e]))
<1>1. /\ work[e].row \in Persons \cup {Nobody}
      /\ work[e].step \in {"login", "create", "delete"}
      /\ RowOK(Idle)
  BY DEF WorkTyped, WorkOK, WorkShaped, RowOK, Idle
<1>2. CASE Stepped(work[e]) = Idle
  BY <1>1, <1>2
<1>3. CASE Stepped(work[e]) # Idle
  <2>1. Stepped(work[e]).row = work[e].row /\ Stepped(work[e]).step = After(work[e].step)
        /\ work[e].step # "delete"
    BY <1>3, SteppedWork
  <2>2. After(work[e].step) # "none"
    BY <1>1, <2>1 DEF After
  <2> QED BY <1>1, <2>1, <2>2 DEF RowOK
<1> QED BY <1>2, <1>3

LEMMA StaffTyped ==
    ASSUME RowsTyped, WorkOK, WorkTyped, StaffActs
    PROVE  RowsTyped' /\ WorkTyped'
<1>0. \A e \in Staff : RowOK(work[e])
  BY DEF WorkTyped, RowOK
<1>1. ASSUME \A e \in Staff : RowOK(work'[e]) PROVE WorkTyped'
  BY <1>1 DEF WorkTyped, RowOK
<1>2. CASE ApprovePendingUser
  <2>1. \A e \in Staff : RowOK(work'[e])
    BY <1>2, OutdatedTyped DEF ApprovePendingUser
  <2> QED BY <1>1, <1>2, <2>1 DEF ApprovePendingUser, RowsTyped
<1>3. CASE StaffDelete
  <2>1. \A e \in Staff : RowOK(work'[e])
    BY <1>3, OutdatedTyped DEF StaffDelete
  <2> QED BY <1>1, <1>3, <2>1 DEF StaffDelete, RowsTyped
\* A step of one approval: what the others hold stays.
<1>4. ASSUME NEW e \in Staff, RowsTyped', Stop(e) \/ (work[e].step # "none" /\ Proceed(e))
      PROVE  RowsTyped' /\ WorkTyped'
  <2>1. \A f \in Staff : work'[f] \in {work[f], Idle} \/ (f = e /\ work[e].step # "none" /\ work'[f] = Stepped(work[e]))
    BY <1>4, StopIsOK, ProceedIsOK
  <2>2. RowOK(Idle)
    BY DEF RowOK, Idle
  <2>3. \A f \in Staff : RowOK(work'[f])
    BY <1>0, <2>1, <2>2, SteppedTyped
  <2> QED BY <1>1, <1>4, <2>3
<1>5. ASSUME NEW e \in Staff, NEW kind \in {"list", "club", "clubList"}, Begin(e, kind)
      PROVE  RowsTyped' /\ WorkTyped'
  <2> DEFINE w == [kind |-> kind, step |-> "login", row |-> IF kind = "list" THEN pending ELSE Nobody,
                   current |-> TRUE]
  <2>1. RowOK(w) /\ WorkShaped(w) /\ work' = [work EXCEPT ![e] = w]
    BY <1>5 DEF RowOK, WorkShaped, RowsTyped, Begin
  <2> HIDE DEF w
  <2>2. work'[e] = w /\ \A f \in Staff \ {e} : work'[f] = work[f]
    BY <2>1, OneWork
  <2>3. \A f \in Staff : RowOK(work'[f])
    BY <1>0, <2>1, <2>2
  <2> QED BY <1>1, <1>5, <2>3 DEF Begin, RowsTyped, rowVars
<1>6. ASSUME NEW e \in Staff, MakeLogin(e) PROVE RowsTyped' /\ WorkTyped'
  <2>1. RowsTyped'
    BY <1>6 DEF MakeLogin, RowsTyped
  <2> QED BY <1>4, <1>6, <2>1 DEF MakeLogin
<1>7. ASSUME NEW e \in Staff, CreateRow(e) PROVE RowsTyped' /\ WorkTyped'
  <2>1. /\ UNCHANGED <<login, pending>>
        /\ member' \in {member, work[e].row} /\ clubs' \in {clubs, clubs \cup {"approved"}}
        /\ work[e].step # "none" /\ (Stop(e) \/ Proceed(e))
    BY <1>7 DEF CreateRow
  <2>2. RowsTyped'
    BY <1>0, <2>1 DEF RowsTyped, RowOK
  <2> QED BY <1>4, <2>1, <2>2
<1>8. ASSUME NEW e \in Staff, DeletePending(e) PROVE RowsTyped' /\ WorkTyped'
  <2> DEFINE kinds == IF work[e].kind = "list" THEN {"list"} ELSE {"club", "clubList"}
             other == IF work[e].current THEN Outdated(kinds) ELSE work
  <2>1. work[e].step = "delete" /\ work' = [other EXCEPT ![e] = Stepped(work[e])]
    BY <1>8 DEF DeletePending
  <2>2. other = [f \in Staff |-> other[f]] /\ \A f \in Staff : RowOK(other[f])
    <3>1. CASE work[e].current
      BY <3>1, OutdatedTyped DEF Outdated
    <3>2. CASE ~work[e].current
      BY <1>0, <3>2 DEF WorkOK
    <3> QED BY <3>1, <3>2
  <2> HIDE DEF other
  <2>3. RowOK(Stepped(work[e]))
    BY <2>1, SteppedTyped
  <2>4. \A f \in Staff : RowOK(work'[f])
    BY <2>1, <2>2, <2>3
  <2>5. UNCHANGED <<login, member>> /\ pending' \in {pending, Nobody} /\ clubs' \subseteq clubs
    BY <1>8 DEF DeletePending
  <2> QED BY <1>1, <2>4, <2>5 DEF RowsTyped
<1>9. ASSUME NEW e \in Staff, Crash(e) PROVE RowsTyped' /\ WorkTyped'
  <2>1. RowsTyped'
    BY <1>9 DEF Crash, RowsTyped, rowVars
  <2> QED BY <1>4, <1>9, <2>1 DEF Crash
<1> QED BY <1>2, <1>3, <1>5, <1>6, <1>7, <1>8, <1>9 DEF StaffActs

\* An application holds a person in a role of a person.
LEMMA ApplyTyped ==
    ASSUME CallsOK, RowsTyped, NEW s \in Slots, HandleApply(s) \/ HandleApplyHalf(s)
    PROVE  CallsOK' /\ NoneWaits /\ RowsTyped'
<1> DEFINE a == calls[s].data
<1>1. calls[s].op = "apply" /\ calls[s].phase = "waiting" /\ Carries(calls[s])
  BY DEF HandleApply, HandleApplyHalf, Waiting, CallsOK
<1>2. CallsOK' /\ NoneWaits
  <2>1. calls[s].by # "code"
    BY <1>1 DEF Carries
  <2>2. Refuse(s) \/ Settle(s, "done", Nothing)
    BY DEF HandleApply, HandleApplyHalf, Reply
  <2> QED BY <1>1, <2>1, <2>2, RefuseKeeps, SettleKeeps
<1>3. UNCHANGED <<login, member>> /\ (Stored(a) \/ UNCHANGED <<pending, clubs>>)
  BY DEF HandleApply, HandleApplyHalf
<1>4. a.who \in People \cup {"club"} /\ a.role \in Roles /\ (a.who = "club" <=> a.role = "club")
  BY <1>1 DEF Carries
<1> HIDE DEF a
<1>5. ASSUME Stored(a) PROVE RowsTyped'
  <2>1. CASE a.who = "club"
    BY <1>3, <1>5, <2>1 DEF Stored, RowsTyped
  <2>2. CASE a.who # "club"
    <3>1. a.who \in People /\ a.role \in {"player", "coach"}
      BY <1>4, <2>2, PhoneCodesAssumption
    <3>2. pending' = [who |-> a.who, role |-> a.role] /\ UNCHANGED clubs
      BY <1>5, <2>2 DEF Stored
    <3>3. pending' \in Persons
      BY <3>1, <3>2 DEF Persons
    <3> QED BY <1>3, <3>2, <3>3 DEF RowsTyped
  <2> QED BY <2>1, <2>2
<1>6. RowsTyped'
  BY <1>3, <1>5 DEF RowsTyped
<1> QED BY <1>2, <1>6

\* The pages: a page that is shown has the role it was opened in.
LEMMA PageKeeps ==
    ASSUME CallsOK, Waits, WindowsTyped, PageActs
    PROVE  CallsOK' /\ Waits' /\ WindowsTyped'
<1> DEFINE Shown == [role : Roles, phone : BOOLEAN]
<1>0. page \in Shown \cup {Home} /\ verified \in BOOLEAN
  BY DEF WindowsTyped
<1>1. ASSUME CallsOK' /\ NoneWaits, verified' \in BOOLEAN, page' \in Shown \cup {Home},
             UNCHANGED <<texts, reg, forgot>>
      PROVE  CallsOK' /\ Waits' /\ WindowsTyped'
  BY <1>1, WaitsStay DEF WindowsTyped
<1>2. CASE VerifiedBefore
  BY <1>0, <1>1, <1>2, CallsUnchanged DEF VerifiedBefore
<1>3. ASSUME NEW role \in Roles, VisitPage(role) PROVE CallsOK' /\ Waits' /\ WindowsTyped'
  <2>1. page' = [role |-> role, phone |-> verified]
    BY <1>3 DEF VisitPage
  <2>2. page' \in Shown
    BY <1>0, <2>1
  <2> QED BY <1>0, <1>1, <1>3, <2>2, CallsUnchanged DEF VisitPage
<1>4. ASSUME NEW who \in People \cup {"club"}, Apply(who) PROVE CallsOK' /\ Waits' /\ WindowsTyped'
  <2> DEFINE data == [who |-> who, role |-> page.role, phone |-> page.phone]
  <2>1. page.role \in Roles /\ (who = "club" <=> page.role = "club") /\ Send("page", "apply", data)
        /\ UNCHANGED phoneVars
    BY <1>0, <1>4 DEF Apply
  <2>2. data.who = who /\ data.role = page.role
    OBVIOUS
  <2> HIDE DEF data
  <2>3. Carries(Request("page", "apply", data))
    BY <2>1, <2>2 DEF Carries, Request
  <2>4. CallsOK' /\ NoneWaits
    BY <2>1, <2>3, SendKeeps
  <2> QED BY <1>0, <1>1, <2>1, <2>4 DEF phoneVars
<1>5. ASSUME NEW s \in Slots, Applied(s) PROVE CallsOK' /\ Waits' /\ WindowsTyped'
  <2>1. CallsOK' /\ NoneWaits
    <3>1. CASE Failed(s)
      BY <1>5, <3>1, TakeKeeps DEF Applied
    <3>2. CASE ~Failed(s)
      BY <1>5, <3>2, LeaveTaking DEF Applied
    <3> QED BY <3>1, <3>2
  <2> QED BY <1>0, <1>1, <1>5, <2>1 DEF Applied
<1>6. CASE LeaveRegistration
  BY <1>0, <1>1, <1>6, LeaveKeeps DEF LeaveRegistration
<1> QED BY <1>2, <1>3, <1>4, <1>5, <1>6 DEF PageActs

\* What is only left behind for the windows: any person may have applied.
LEMMA ElsewhereKeeps ==
    ASSUME CallsOK, Waits, WindowsTyped, RowsTyped, Elsewhere
    PROVE  CallsOK' /\ Waits' /\ WindowsTyped' /\ RowsTyped'
<1>1. CallsOK' /\ NoneWaits /\ UNCHANGED <<reg, forgot, verified, page, member, clubs>>
  BY CallsUnchanged DEF Elsewhere
<1>2. texts \in Seq(Entries)
  BY DEF WindowsTyped
<1>3. texts' \in Seq(Entries)
  <2>1. CASE UNCHANGED texts
    BY <1>2, <2>1
  <2>2. ASSUME NEW code \in Codes, texts' = Append(texts, [code |-> code, age |-> 0])
        PROVE  texts' \in Seq(Entries)
    BY <1>2, <2>2, NewCode
  <2>3. CASE texts' = [n \in DOMAIN texts |-> Deleted]
    BY <1>2, <2>3, AllDeleted
  <2> QED BY <2>1, <2>2, <2>3 DEF Elsewhere
<1>4. pending' \in Persons \cup {Nobody} /\ login' \in BOOLEAN
  <2> DEFINE who == CHOOSE p \in People : TRUE
  <2>1. who \in People
    BY AccountsAssumption
  <2>2. /\ pending' \in {pending, Nobody, [who |-> who, role |-> "player"]}
        /\ login' \in {login, login \/ pending' # Nobody}
    BY DEF Elsewhere
  <2> HIDE DEF who
  <2>3. [who |-> who, role |-> "player"] \in Persons
    BY <2>1 DEF Persons
  <2> QED BY <2>2, <2>3 DEF RowsTyped
<1>5. Waits'
  BY <1>1, WaitsStay
<1> QED BY <1>1, <1>3, <1>4, <1>5 DEF WindowsTyped, RowsTyped

-----------------------------------------------------------------------------
\* The rows and the approvals under way agree, whoever is followed: at every
\* moment of a registration every approval that is about to delete an
\* application has made of it what it is approved for (views.py 335-461,
\* admin.py 206-304 of accounts).
THEOREM AccountsInductive == Spec => [](TypedInv /\ KeptInv)
<1>1. Init => TypedInv /\ KeptInv
  <2> SUFFICES ASSUME Init PROVE TypedInv /\ KeptInv
    OBVIOUS
  <2>1. CallsOK /\ Waits
    BY NoCallCarries DEF Init, NoCalls, CallsOK, Waits, Slots
  <2>2. WindowsTyped
    <3>1. texts = <<>> /\ reg = Closed /\ forgot = NoForgot /\ verified = FALSE /\ page = Home
      BY DEF Init, PhoneInit
    <3>2. texts \in Seq(Entries)
      BY <3>1
    <3>3. NoForgot \in [step : {"closed", "phone", "code", "result"}, cooldown : 0..Window, loading : BOOLEAN]
      BY PhoneCodesAssumption DEF NoForgot
    <3> QED BY <3>1, <3>2, <3>3 DEF WindowsTyped
  <2>3. RowsTyped /\ Owed
    BY DEF Init, RowsTyped, Owed
  <2>4. WorkOK /\ WorkTyped
    BY IdleWork DEF Init, WorkOK, WorkTyped, WorkShaped, Idle
  <2>5. KeptInv
    BY IdleWork DEF Init, KeptInv, Approving, AcknowledgedIsKept
  <2> QED BY <2>1, <2>2, <2>3, <2>4, <2>5 DEF TypedInv
<1>2. TypedInv /\ KeptInv /\ [Next]_vars => TypedInv' /\ KeptInv'
  <2> SUFFICES ASSUME TypedInv, KeptInv, [Next]_vars PROVE TypedInv' /\ KeptInv'
    OBVIOUS
  <2>0. /\ CallsOK /\ Waits /\ WindowsTyped /\ RowsTyped /\ WorkOK /\ WorkTyped /\ Owed
        /\ tab' = tab
    BY DEF TypedInv, Next, vars, Time
  <2>1. CASE tab # "pages"
    <3>1. UNCHANGED <<owed, work>>
      BY <2>1 DEF Next, vars, Time, Windows, Elsewhere, ServerSends, Lose
    <3>2. WorkOK' /\ WorkTyped' /\ Owed' /\ KeptInv'
      BY <2>0, <2>1, <3>1 DEF WorkOK, WorkShaped, WorkTyped, Owed, KeptInv
    <3>3. ASSUME UNCHANGED rowVars PROVE RowsTyped'
      BY <2>0, <3>3 DEF RowsTyped, rowVars
    <3>4. CallsOK' /\ Waits' /\ WindowsTyped' /\ RowsTyped'
      <4>1. CASE UNCHANGED vars
        BY <2>0, <3>3, <4>1, CallsUnchanged, WaitsStay DEF vars, phoneVars, WindowsTyped
      <4>2. CASE Time
        BY <2>0, <3>3, <4>2, TickKeeps DEF Time
      <4>3. CASE (RegisterActs \/ ForgotActs) /\ UNCHANGED <<rowVars, work, owed>>
        BY <2>0, <3>3, <4>3, RegisterKeeps, ForgotKeeps
      <4>4. CASE Elsewhere
        BY <2>0, <4>4, ElsewhereKeeps
      <4>5. ASSUME NEW s \in Slots, ServerSends(s) PROVE CallsOK' /\ Waits' /\ WindowsTyped' /\ RowsTyped'
        BY <2>0, <3>3, <4>5, ServerKeeps DEF ServerSends
      <4>6. ASSUME NEW s \in Slots, Lose(s) PROVE CallsOK' /\ Waits' /\ WindowsTyped' /\ RowsTyped'
        BY <2>0, <3>3, <4>6, RefuseKeeps, WaitsStay DEF Lose, phoneVars, WindowsTyped
      <4> QED BY <2>1, <4>1, <4>2, <4>3, <4>4, <4>5, <4>6 DEF Next, Windows
    <3> QED BY <3>2, <3>4 DEF TypedInv
  <2>2. CASE tab = "pages"
    <3>1. Kept
      BY <2>0, <2>2 DEF KeptInv, Kept
    <3>2. ASSUME UNCHANGED <<pending, member, clubs, work, owed>> PROVE Kept'
      BY <3>1, <3>2, QuietKeeps
    <3>3. Kept'
      <4>1. CASE UNCHANGED vars \/ Time
        BY <3>2, <4>1 DEF vars, rowVars, Time
      <4>2. ASSUME NEW s \in Slots, Lose(s) PROVE Kept'
        BY <3>2, <4>2 DEF rowVars, Lose
      <4>3. CASE PageActs
        BY <3>2, <4>3
           DEF rowVars, PageActs, VerifiedBefore, VisitPage, Apply, Applied, LeaveRegistration
      <4> QED BY <2>0, <2>2, <3>1, <4>1, <4>2, <4>3, StaffKeep, ApplyKeeps DEF Next, Pages
    <3>4. ASSUME UNCHANGED <<rowVars, work>> PROVE RowsTyped' /\ WorkTyped'
      BY <2>0, <3>4 DEF RowsTyped, WorkTyped, rowVars
    <3>5. CallsOK' /\ Waits' /\ WindowsTyped' /\ RowsTyped' /\ WorkTyped'
      <4>1. ASSUME CallsOK' /\ NoneWaits, UNCHANGED phoneVars PROVE CallsOK' /\ Waits' /\ WindowsTyped'
        BY <2>0, <4>1, WaitsStay DEF phoneVars, WindowsTyped
      <4>2. CASE UNCHANGED vars
        BY <2>0, <3>4, <4>1, <4>2, CallsUnchanged DEF vars
      <4>3. CASE Time
        BY <2>0, <3>4, <4>3, TickKeeps DEF Time
      <4>4. CASE PageActs
        <5>1. UNCHANGED <<rowVars, work>>
          BY <4>4 DEF PageActs, VerifiedBefore, VisitPage, Apply, Applied, LeaveRegistration
        <5> QED BY <2>0, <3>4, <4>4, <5>1, PageKeeps
      <4>5. CASE StaffActs
        <5>1. UNCHANGED <<calls, phoneVars>>
          BY <4>5 DEF StaffActs, ApprovePendingUser, StaffDelete, Begin, MakeLogin, CreateRow,
                      DeletePending, Crash
        <5> QED BY <2>0, <4>1, <4>5, <5>1, CallsUnchanged, StaffTyped
      <4>6. ASSUME NEW s \in Slots, HandleApply(s) \/ HandleApplyHalf(s)
            PROVE  CallsOK' /\ Waits' /\ WindowsTyped' /\ RowsTyped' /\ WorkTyped'
        <5>1. UNCHANGED <<phoneVars, work>>
          BY <4>6 DEF HandleApply, HandleApplyHalf
        <5>2. WorkTyped'
          BY <2>0, <5>1 DEF WorkTyped
        <5> QED BY <2>0, <4>1, <4>6, <5>1, <5>2, ApplyTyped
      <4>7. ASSUME NEW s \in Slots, Lose(s)
            PROVE  CallsOK' /\ Waits' /\ WindowsTyped' /\ RowsTyped' /\ WorkTyped'
        BY <2>0, <3>4, <4>1, <4>7, RefuseKeeps DEF Lose
      <4> QED BY <2>2, <4>2, <4>3, <4>4, <4>5, <4>6, <4>7 DEF Next, Pages
    <3> QED BY <2>0, <2>2, <3>3, <3>5 DEF TypedInv, KeptInv, Kept
  <2> QED BY <2>1, <2>2
<1> QED BY <1>1, <1>2, PTL DEF Spec

\* TypeOK, in every state: no answer that comes late, whichever window or page
\* it was for, leaves a window, a page or a row without a proper role or a
\* counter outside the time a code lives (RegisterModal.jsx,
\* ForgotPasswordModal.jsx, views.py 96-333 of accounts).
THEOREM AccountsTyped == Spec => []TypeOK
<1>1. TypedInv => TypeOK
  <2> SUFFICES ASSUME TypedInv PROVE TypeOK
    OBVIOUS
  <2>1. \A n \in DOMAIN texts : texts[n].code \in Codes \cup {0} /\ texts[n].age \in 0..Window
    <3>1. ASSUME NEW n \in DOMAIN texts PROVE texts[n].code \in Codes \cup {0} /\ texts[n].age \in 0..Window
      <4>1. texts[n] \in Entries
        BY <3>1, EntryTyped DEF TypedInv, WindowsTyped
      <4> QED BY <4>1 DEF Entries
    <3> QED BY <3>1
  <2>2. reg \in [role : Roles \cup {"none"}, step : {1, 2}, timer : 0..Window]
    <3>1. Closed \in [role : Roles \cup {"none"}, step : {1, 2}, timer : 0..Window]
      BY PhoneCodesAssumption DEF Closed
    <3>2. [role : Roles, step : {1, 2}, timer : 0..Window]
             \subseteq [role : Roles \cup {"none"}, step : {1, 2}, timer : 0..Window]
      OBVIOUS
    <3>3. reg \in [role : Roles, step : {1, 2}, timer : 0..Window] \cup {Closed}
      BY DEF TypedInv, WindowsTyped
    <3> QED BY <3>1, <3>2, <3>3
  <2>3. page \in [role : Roles \cup {"home"}, phone : BOOLEAN]
    <3>1. Home \in [role : Roles \cup {"home"}, phone : BOOLEAN]
      BY DEF Home
    <3>2. page \in [role : Roles, phone : BOOLEAN] \cup {Home}
      BY DEF TypedInv, WindowsTyped
    <3> QED BY <3>1, <3>2
  <2>4. \A e \in Staff : work[e] # Idle => work[e].step \in {"login", "create", "delete"}
    BY DEF TypedInv, WorkOK, WorkShaped, WorkTyped
  <2> QED BY <2>1, <2>2, <2>3, <2>4 DEF TypedInv, WindowsTyped, RowsTyped, Owed, TypeOK
<1> QED BY <1>1, AccountsInductive, PTL

\* AcknowledgedIsKept: an application the server answered "stored" is still
\* there, or is a member or a club, whatever staff approve it at the same time
\* and wherever an approval breaks off (views.py 335-461 of accounts).
THEOREM AcknowledgedKept == Spec => []AcknowledgedIsKept
<1>1. TypedInv /\ KeptInv => AcknowledgedIsKept
  BY DEF KeptInv, AcknowledgedIsKept
<1> QED BY <1>1, AccountsInductive, PTL
=============================================================================
