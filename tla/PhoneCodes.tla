----------------------------- MODULE PhoneCodes -----------------------------
(***************************************************************************)
(* The codes sent to a phone, and the two windows that ask for them: the   *)
(* one that opens the registration pages (RegisterModal) and the one that  *)
(* resets a forgotten password (ForgotPasswordModal), each in a tab of its *)
(* own.  One phone.  Time passes in ticks; a code is valid for Window.     *)
(***************************************************************************)
EXTENDS Requests, Sequences

CONSTANTS
    Codes,      \* the codes that may be drawn
    Roles,      \* who can register: "player", "coach", "club"
    Asking,     \* bound: the roles the window is opened for
    Window,     \* ticks a code is valid, and the ticks between two codes
    MaxTexts    \* bound: codes sent altogether

ASSUME PhoneCodesAssumption ==
    /\ Roles \subseteq {"player", "coach", "club"} /\ Asking \subseteq Roles
    /\ Window \in Nat \ {0} /\ MaxTexts \in Nat

VARIABLES
    texts,      \* SMSVerification: every code sent, with its age; code 0 once deleted
    reg,        \* the registration window, role "none" while it is closed
    forgot,     \* the window of the forgotten password
    verified,   \* is verifiedPhone stored in the browser?
    page        \* the registration page shown, "home" for none, and the phone it read

phoneVars == <<texts, reg, forgot, verified, page>>

Closed == [role |-> "none", step |-> 1, timer |-> 0]
NoForgot == [step |-> "closed", cooldown |-> 0, loading |-> FALSE]
Home == [role |-> "home", phone |-> FALSE]
Deleted == [code |-> 0, age |-> 0]

PhoneInit ==
    /\ texts = <<>> /\ reg = Closed /\ forgot = NoForgot
    /\ verified = FALSE /\ page = Home

-----------------------------------------------------------------------------
(* The server.                                                             *)

Live(n) == texts[n].code # 0
Recent == {n \in DOMAIN texts : Live(n) /\ texts[n].age < Window}
Oldest(S) == CHOOSE n \in S : \A m \in S : n <= m

Advance(s, phase, data) == calls' = [calls EXCEPT ![s] = [@ EXCEPT !.phase = phase, !.data = data]]

\* A code is asked for by a phone that is not entitled to one.
RefusePhone(s) ==
    /\ Waiting(s, "send")
    /\ Refuse(s)
    /\ UNCHANGED phoneVars

\* A code sent lately: how long to wait is counted from the first one found.
TooSoon(s) ==
    /\ Waiting(s, "send") /\ Recent # {}
    /\ Reply(s, [sent |-> FALSE, retry |-> Window - texts[Oldest(Recent)].age])
    /\ UNCHANGED phoneVars

\* None was found; the code is only stored in the next step.
FoundNone(s) ==
    /\ Waiting(s, "send") /\ Recent = {}
    /\ Advance(s, "checked", calls[s].data)
    /\ UNCHANGED phoneVars

SendCode(s, code) ==
    /\ calls[s].op = "send" /\ calls[s].phase = "checked" /\ Len(texts) < MaxTexts
    /\ texts' = Append(texts, [code |-> code, age |-> 0])
    /\ Reply(s, [sent |-> TRUE, retry |-> 0])
    /\ UNCHANGED <<reg, forgot, verified, page>>

Matching(code) == {n \in DOMAIN texts : Live(n) /\ texts[n].code = code}

\* A code that was not sent deletes all that were; two rows with the same code
\* make the lookup fail; an expired one is deleted.
RejectCode(s) ==
    /\ Waiting(s, "verify")
    /\ LET found == Matching(calls[s].data.code) IN
       \/ /\ found = {}
          /\ texts' = [n \in DOMAIN texts |-> Deleted]
          /\ Reply(s, [ok |-> FALSE, role |-> calls[s].data.role])
       \/ /\ Cardinality(found) > 1
          /\ Refuse(s)
          /\ UNCHANGED texts
       \/ \E n \in found :
             /\ found = {n} /\ n \notin Recent
             /\ texts' = [texts EXCEPT ![n] = Deleted]
             /\ Reply(s, [ok |-> FALSE, role |-> calls[s].data.role])
    /\ UNCHANGED <<reg, forgot, verified, page>>

\* A valid code is found in one step and deleted in the next.
MatchCode(s) ==
    /\ Waiting(s, "verify")
    /\ \E n \in Recent :
          /\ Matching(calls[s].data.code) = {n}
          /\ Advance(s, "matched", [text |-> n, role |-> calls[s].data.role])
    /\ UNCHANGED phoneVars

AcceptCode(s) ==
    /\ calls[s].op = "verify" /\ calls[s].phase = "matched"
    /\ texts' = [texts EXCEPT ![calls[s].data.text] = Deleted]
    /\ Reply(s, [ok |-> TRUE, role |-> calls[s].data.role])
    /\ UNCHANGED <<reg, forgot, verified, page>>

-----------------------------------------------------------------------------
(* The registration window.                                                *)

OpenRegister(role) ==
    /\ page = Home /\ reg = Closed
    /\ reg' = [Closed EXCEPT !.role = role]
    /\ UNCHANGED <<texts, forgot, verified, page, calls>>

\* The button of the first step, or "send again" in the second.  Neither is
\* locked while an answer is awaited.
SendPhone ==
    /\ reg.role # "none" /\ reg.timer = 0
    /\ Send("reg", "send", [role |-> reg.role])
    /\ UNCHANGED phoneVars

PhoneAnswered(s) ==
    /\ Answered(s, "reg", "send")
    /\ reg' = IF Failed(s) THEN reg
              ELSE [reg EXCEPT !.step = 2,
                               !.timer = IF calls[s].data.sent THEN Window ELSE calls[s].data.retry]
    /\ Take(s)
    /\ UNCHANGED <<texts, forgot, verified, page>>

\* The last digit of a code is typed.
TypeCode(code) ==
    /\ reg.step = 2
    /\ Send("code", "verify", [code |-> code, role |-> reg.role])
    /\ UNCHANGED phoneVars

\* Also after the window was closed, a right code opens the page of its role.
CodeAnswered(s) ==
    /\ Answered(s, "code", "verify")
    /\ IF ~Failed(s) /\ calls[s].data.ok
       THEN /\ verified' = TRUE /\ page' = [role |-> calls[s].data.role, phone |-> TRUE]
            /\ reg' = Closed
            /\ calls' = [Abandoned({"reg"}, {"send"}) EXCEPT ![s] = NoCall]
       ELSE Take(s) /\ UNCHANGED <<verified, page, reg>>
    /\ UNCHANGED <<texts, forgot>>

CloseRegister ==
    /\ reg # Closed
    /\ reg' = Closed
    /\ calls' = Abandoned({"reg"}, {"send"})
    /\ UNCHANGED <<texts, forgot, verified, page>>

-----------------------------------------------------------------------------
(* The window of the forgotten password.                                   *)

OpenForgot ==
    /\ forgot = NoForgot
    /\ forgot' = [NoForgot EXCEPT !.step = "phone"]
    /\ UNCHANGED <<texts, reg, verified, page, calls>>

ForgotSend ==
    /\ ~forgot.loading
    /\ forgot.step = "phone" \/ (forgot.step = "code" /\ forgot.cooldown = 0)
    /\ forgot' = [forgot EXCEPT !.loading = TRUE]
    /\ Send("forgot", "send", [role |-> "reset"])
    /\ UNCHANGED <<texts, reg, verified, page>>

\* Asked too soon, the window only counts: it stays at the step it is at.
ForgotAnswered(s) ==
    /\ Answered(s, "forgot", "send")
    /\ forgot' = [forgot EXCEPT
          !.loading = FALSE,
          !.step = IF ~Failed(s) /\ calls[s].data.sent THEN "code" ELSE @,
          !.cooldown = IF Failed(s) THEN @
                       ELSE IF calls[s].data.sent THEN Window ELSE calls[s].data.retry]
    /\ Take(s)
    /\ UNCHANGED <<texts, reg, verified, page>>

ForgotVerify(code) ==
    /\ forgot.step = "code" /\ ~forgot.loading
    /\ forgot' = [forgot EXCEPT !.loading = TRUE]
    /\ Send("forgot", "verify", [code |-> code, role |-> "reset"])
    /\ UNCHANGED <<texts, reg, verified, page>>

ForgotVerified(s) ==
    /\ Answered(s, "forgot", "verify")
    /\ forgot' = [forgot EXCEPT !.loading = FALSE,
                                !.step = IF ~Failed(s) /\ calls[s].data.ok THEN "result" ELSE @]
    /\ Take(s)
    /\ UNCHANGED <<texts, reg, verified, page>>

CloseForgot ==
    /\ forgot # NoForgot
    /\ forgot' = NoForgot
    /\ calls' = Abandoned({"forgot"}, {"send", "verify"})
    /\ UNCHANGED <<texts, reg, verified, page>>

-----------------------------------------------------------------------------
\* Mutation: each second counts down from the value the timer was set to.
CountStale(t) == IF t = 0 THEN 0 ELSE Window - 1

\* Mutation: nothing stops the count at zero.
CountOn(t) == t - 1

Count(t) == IF t = 0 THEN 0 ELSE t - 1

Tick ==
    /\ texts' = [n \in DOMAIN texts |->
                    IF Live(n) /\ texts[n].age < Window THEN [texts[n] EXCEPT !.age = @ + 1] ELSE texts[n]]
    /\ reg' = [reg EXCEPT !.timer = Count(@)]
    /\ forgot' = [forgot EXCEPT !.cooldown = Count(@)]
    /\ UNCHANGED <<verified, page, calls>>

RegisterActs ==
    \/ \E role \in Asking : OpenRegister(role)
    \/ SendPhone \/ CloseRegister
    \/ \E code \in Codes : TypeCode(code)
    \/ \E s \in Slots : PhoneAnswered(s) \/ CodeAnswered(s)

ForgotActs ==
    \/ OpenForgot \/ ForgotSend \/ CloseForgot
    \/ \E code \in Codes : ForgotVerify(code)
    \/ \E s \in Slots : ForgotAnswered(s) \/ ForgotVerified(s)
=============================================================================
