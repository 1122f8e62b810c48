------------------------------ MODULE Accounts ------------------------------
(***************************************************************************)
(* From a phone to an account: the codes of PhoneCodes, the applications   *)
(* that the registration pages send, and the staff who approve them, each  *)
(* with the view of its own or with the action of the admin list.  All     *)
(* applications are made with one phone; members differ in their national  *)
(* code, and there is one club.  The windows and the pages meet in the     *)
(* codes, the stored phone and what the server knows of it, so one of them *)
(* is followed at a time (tab), and of the others what they leave behind.  *)
(***************************************************************************)
EXTENDS PhoneCodes

CONSTANTS
    Tabs,       \* bound: what is followed, "register", "reset" or "pages"
    People,     \* the national codes applications are made with
    Staff,      \* bound: the staff who approve at the same time
    MaxPosts    \* bound: applications under way at a time

ASSUME AccountsAssumption ==
    /\ IsFiniteSet(People) /\ People # {} /\ {"club", "nobody"} \cap People = {}
    /\ MaxPosts \in Nat

VARIABLES
    tab,        \* what is followed
    login,      \* has the phone a login?
    pending,    \* PendingUserProfile: the application of a person, or none
    member,     \* UserProfile: the member with the phone, or none
    clubs,      \* what there is of the club: "pending" and "approved" rows
    work,       \* per staff: an approval under way
    owed        \* whose application was answered "stored" and not deleted by staff

rowVars == <<login, pending, member, clubs>>
vars == <<tab, calls, phoneVars, rowVars, work, owed>>

Nobody == [who |-> "nobody", role |-> "none"]
Idle == [kind |-> "none", step |-> "none", row |-> Nobody, current |-> FALSE]

Init ==
    /\ tab \in Tabs
    /\ calls = NoCalls /\ PhoneInit
    /\ login = FALSE /\ pending = Nobody /\ member = Nobody /\ clubs = {}
    /\ work = [e \in Staff |-> Idle]
    /\ owed = {}

-----------------------------------------------------------------------------
(* Codes.  To register, the phone must be unknown in the role; to reset a  *)
(* password it must have a login.                                          *)

Entitled(role) ==
    CASE role = "reset" -> login
      [] role = "club" -> clubs = {}
      [] OTHER -> pending = Nobody /\ member = Nobody

ServerSends(s) ==
    /\ \/ RefusePhone(s) /\ ~Entitled(calls[s].data.role)
       \/ TooSoon(s) /\ Entitled(calls[s].data.role)
       \/ FoundNone(s) /\ Entitled(calls[s].data.role)
       \/ \E code \in Codes : SendCode(s, code)
       \/ RejectCode(s) \/ MatchCode(s)
       \/ AcceptCode(s)
    /\ UNCHANGED <<rowVars, work, owed>>

-----------------------------------------------------------------------------
(* The registration pages.                                                 *)

\* A page can be opened without a code, by its address.
VisitPage(role) ==
    /\ page = Home /\ reg = Closed
    /\ page' = [role |-> role, phone |-> verified]
    /\ UNCHANGED <<calls, texts, reg, forgot, verified, rowVars, work, owed>>

\* Nothing keeps an application from being sent twice.
Apply(who) ==
    /\ page # Home /\ (who = "club" <=> page.role = "club")
    /\ Cardinality({s \in Slots : calls[s].op = "apply"}) < MaxPosts
    /\ Send("page", "apply", [who |-> who, role |-> page.role, phone |-> page.phone])
    /\ UNCHANGED <<phoneVars, rowVars, work, owed>>

\* "successfully stored" is read and closed: back to the front page.
Applied(s) ==
    /\ Answered(s, "page", "apply")
    /\ IF Failed(s)
       THEN Take(s) /\ UNCHANGED <<verified, page>>
       ELSE /\ verified' = FALSE /\ page' = Home
            /\ calls' = [Abandoned({"page"}, {"apply"}) EXCEPT ![s] = NoCall]
    /\ UNCHANGED <<texts, reg, forgot, rowVars, work, owed>>

LeaveRegistration ==
    /\ page # Home
    /\ page' = Home
    /\ calls' = Abandoned({"page"}, {"apply"})
    /\ UNCHANGED <<texts, reg, forgot, verified, rowVars, work, owed>>

\* A coach's phone is looked up among the members too, a player's only among
\* the applications.
Admissible(a) ==
    /\ a.phone
    /\ IF a.who = "club" THEN clubs = {}
       ELSE /\ pending = Nobody /\ member.who # a.who
            /\ a.role = "coach" => member = Nobody

Stored(a) ==
    IF a.who = "club" THEN clubs' = {"pending"} /\ UNCHANGED pending
    ELSE pending' = [who |-> a.who, role |-> a.role] /\ UNCHANGED clubs

HandleApply(s) ==
    /\ Waiting(s, "apply")
    /\ LET a == calls[s].data IN
       IF Admissible(a) THEN Stored(a) /\ owed' = owed \cup {a.who} /\ Reply(s, Nothing)
       ELSE Refuse(s) /\ UNCHANGED <<pending, clubs, owed>>
    /\ UNCHANGED <<phoneVars, login, member, work>>

\* The chosen coach is only looked up after the row was stored: the applicant
\* is refused and the application stays.
HandleApplyHalf(s) ==
    /\ Waiting(s, "apply") /\ calls[s].data.role = "coach" /\ Admissible(calls[s].data)
    /\ Stored(calls[s].data) /\ Refuse(s)
    /\ UNCHANGED <<phoneVars, login, member, work, owed>>

-----------------------------------------------------------------------------
(* Staff.                                                                  *)

\* Others who work on a row that is gone will not delete a later one.
Outdated(kinds) ==
    [e \in Staff |-> IF work[e].kind \in kinds THEN [work[e] EXCEPT !.current = FALSE] ELSE work[e]]

\* approve_pending_user: one transaction, undone if the phone has a member.
ApprovePendingUser ==
    /\ pending # Nobody /\ member = Nobody
    /\ login' = TRUE /\ member' = pending /\ pending' = Nobody
    /\ work' = Outdated({"list"})
    /\ UNCHANGED <<calls, phoneVars, clubs, owed>>

\* The approvals that are not transactions: that of the admin lists, for
\* persons ("list") and clubs ("clubList"), and approve_pending_club ("club").
\* Each works on the row as it read it.
Begin(e, kind) ==
    /\ work[e] = Idle
    /\ IF kind = "list" THEN pending # Nobody ELSE "pending" \in clubs
    /\ work' = [work EXCEPT ![e] = [kind |-> kind, step |-> "login",
                                    row |-> IF kind = "list" THEN pending ELSE Nobody,
                                    current |-> TRUE]]
    /\ UNCHANGED <<calls, phoneVars, rowVars, owed>>

\* Mutation: the application is deleted first, as it has been read.
AfterDeletingFirst(step) ==
    CASE step = "login" -> "delete" [] step = "delete" -> "create" [] step = "create" -> "none"

After(step) ==
    CASE step = "login" -> "create" [] step = "create" -> "delete" [] step = "delete" -> "none"

\* The page fails: what was done stays done.
Stop(e) == work' = [work EXCEPT ![e] = Idle]

Stepped(w) == IF After(w.step) = "none" THEN Idle ELSE [w EXCEPT !.step = After(w.step)]

Proceed(e) == work' = [work EXCEPT ![e] = Stepped(@)]

\* get_or_create finds a login that is there, create_user fails on it.
MakeLogin(e) ==
    /\ work[e].step = "login"
    /\ login' = TRUE
    /\ IF login /\ work[e].kind = "club" THEN Stop(e) ELSE Proceed(e)
    /\ UNCHANGED <<calls, phoneVars, pending, member, clubs, owed>>

CreateRow(e) ==
    /\ work[e].step = "create"
    /\ IF work[e].kind = "list"
       THEN IF member = Nobody THEN member' = work[e].row /\ Proceed(e) ELSE Stop(e) /\ UNCHANGED member
       ELSE UNCHANGED member
    /\ IF work[e].kind # "list"
       THEN IF "approved" \in clubs THEN Stop(e) /\ UNCHANGED clubs
            ELSE clubs' = clubs \cup {"approved"} /\ Proceed(e)
       ELSE UNCHANGED clubs
    /\ UNCHANGED <<calls, phoneVars, login, pending, owed>>

DeletePending(e) ==
    /\ work[e].step = "delete"
    /\ LET kinds == IF work[e].kind = "list" THEN {"list"} ELSE {"club", "clubList"} IN
       /\ IF ~work[e].current THEN UNCHANGED <<pending, clubs>>
          ELSE IF work[e].kind = "list" THEN pending' = Nobody /\ UNCHANGED clubs
          ELSE clubs' = clubs \ {"pending"} /\ UNCHANGED pending
       /\ work' = [(IF work[e].current THEN Outdated(kinds) ELSE work) EXCEPT ![e] = Stepped(work[e])]
    /\ UNCHANGED <<calls, phoneVars, login, member, owed>>

\* The server stops in between.
Crash(e) ==
    /\ work[e] # Idle
    /\ Stop(e)
    /\ UNCHANGED <<calls, phoneVars, rowVars, owed>>

StaffDelete ==
    /\ \/ /\ pending # Nobody /\ pending' = Nobody
          /\ owed' = owed \ {pending.who}
          /\ work' = Outdated({"list"})
          /\ UNCHANGED clubs
       \/ /\ "pending" \in clubs /\ clubs' = clubs \ {"pending"}
          /\ owed' = owed \ {"club"}
          /\ work' = Outdated({"club", "clubList"})
          /\ UNCHANGED pending
    /\ UNCHANGED <<calls, phoneVars, login, member>>

-----------------------------------------------------------------------------
\* A request or its answer is lost, or the server stops before an answer.
Lose(s) ==
    /\ calls[s].phase \notin {"free", "failed"}
    /\ Refuse(s)
    /\ UNCHANGED <<phoneVars, rowVars, work, owed>>

\* What the windows leave behind for the pages: a verified phone.
VerifiedBefore ==
    /\ page = Home /\ verified' = TRUE
    /\ UNCHANGED <<calls, texts, reg, forgot, page, rowVars, work, owed>>

\* What the pages and the staff leave behind for the windows, a phone that is
\* known or not, and what a window in another tab does to the codes.
Elsewhere ==
    /\ \/ /\ \E row \in {Nobody, [who |-> CHOOSE p \in People : TRUE, role |-> "player"]} :
                pending' = row /\ login' = (login \/ row # Nobody)
          /\ UNCHANGED texts
       \/ /\ Len(texts) < MaxTexts /\ Recent = {}
          /\ \E code \in Codes : texts' = Append(texts, [code |-> code, age |-> 0])
          /\ UNCHANGED <<pending, login>>
       \/ texts' = [n \in DOMAIN texts |-> Deleted] /\ UNCHANGED <<pending, login>>
    /\ UNCHANGED <<calls, reg, forgot, verified, page, member, clubs, work, owed>>

PageActs ==
    \/ VerifiedBefore
    \/ \E role \in Roles : VisitPage(role)
    \/ \E who \in People \cup {"club"} : Apply(who)
    \/ \E s \in Slots : Applied(s)
    \/ LeaveRegistration

StaffActs ==
    \/ ApprovePendingUser \/ StaffDelete
    \/ \E e \in Staff :
          \/ \E kind \in {"list", "club", "clubList"} : Begin(e, kind)
          \/ MakeLogin(e) \/ CreateRow(e) \/ DeletePending(e) \/ Crash(e)

Time == Tick /\ UNCHANGED <<tab, rowVars, work, owed>>

Windows ==
    \/ /\ \/ tab = "register" /\ RegisterActs
          \/ tab = "reset" /\ ForgotActs
       /\ UNCHANGED <<rowVars, work, owed>>
    \/ Elsewhere
    \/ \E s \in Slots : ServerSends(s)

Pages ==
    \/ PageActs \/ StaffActs
    \/ \E s \in Slots : HandleApply(s) \/ HandleApplyHalf(s)

Next ==
    \/ /\ \/ tab # "pages" /\ Windows
          \/ tab = "pages" /\ Pages
          \/ \E s \in Slots : Lose(s)
       /\ UNCHANGED tab
    \/ Time

Spec == Init /\ [][Next]_vars

\* Clocks run.
FairSpec == Spec /\ WF_vars(Time)

-----------------------------------------------------------------------------
Persons == [who : People, role : {"player", "coach"}]

TypeOK ==
    /\ \A n \in DOMAIN texts : texts[n].code \in Codes \cup {0} /\ texts[n].age \in 0..Window
    /\ reg \in [role : Roles \cup {"none"}, step : {1, 2}, timer : 0..Window]
    /\ forgot \in [step : {"closed", "phone", "code", "result"}, cooldown : 0..Window, loading : BOOLEAN]
    /\ verified \in BOOLEAN /\ page \in [role : Roles \cup {"home"}, phone : BOOLEAN]
    /\ login \in BOOLEAN /\ {pending, member} \subseteq Persons \cup {Nobody}
    /\ clubs \subseteq {"pending", "approved"}
    /\ owed \subseteq (People \cup {"club"})
    /\ \A e \in Staff : work[e] # Idle => work[e].step \in {"login", "create", "delete"}

\* Nothing the server answered to be stored is ever lost: whichever ways
\* several staff approve it, and wherever an approval breaks off between its
\* steps, the application is pending, or became a member or a club, unless
\* staff deleted it.
AcknowledgedIsKept ==
    \A who \in owed :
        IF who = "club" THEN clubs # {} ELSE who \in {pending.who, member.who}

\* A window that asks for a code does not keep its user there: it offers to
\* send a new one, lets a code through, or is closed, whatever answers of
\* earlier requests set its counter again.
ResendIsOffered ==
    /\ (reg.step = 2) ~> (reg.timer = 0)
    /\ (forgot.step = "code") ~> (forgot.cooldown = 0)
=============================================================================
