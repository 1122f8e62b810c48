---------------------------- MODULE ProfileForm -----------------------------
(***************************************************************************)
(* The form in which a member edits the profile (PersonalInfoForm), the    *)
(* edit row it leaves on the server, and the approval that puts the edit   *)
(* into the profile.                                                       *)
(*                                                                         *)
(* The columns of the row fall into two groups, those of results and those *)
(* of the form.  The handlers relate them only by reading and writing both *)
(* at once, so a behaviour follows one of them: the results, where an edit *)
(* has no content (ProfileEdits), or one member's form, where nothing is   *)
(* announced.  Of the form's columns the model has those the code treats   *)
(* differently: the place, club and coach, the coach's and the referee's   *)
(* titles with one discipline and the national grades; of a photo only     *)
(* that one was chosen.  Messages are left out.                            *)
(***************************************************************************)
EXTENDS ProfileEdits, Requests

CONSTANTS
    Members,       \* whose form is followed
    Tries          \* bound: the columns a member changes, and how many edits are submitted

ASSUME FormAssumption ==
    /\ Members \subseteq Players \cup Coaches
    /\ NULL \notin {"", "set"}
    /\ \A t \in Tries : t.submits \in Nat

VARIABLES
    followed,   \* the member whose form is followed, or NULL for the results
    trying,     \* one of Tries
    profile,    \* the form's columns of the member's row
    edit,       \* content of the member's PendingEditProfile, or Nothing
    reading,    \* per member of staff, what the approval under way has read
    form,       \* state of the page
    submits,    \* edits submitted
    acked       \* history: the last edit acknowledged and not replaced, or Nothing

formVars == <<profile, edit, reading, form, submits, acked>>
allVars == <<vars, calls, followed, trying, formVars>>

\* A place is <<province, county, city>>, 0 for one not chosen; each of the two
\* provinces has one county and that one city.
Provinces == {1, 2}
CountiesOf(p) == Provinces \cap {p}
CitiesOf(c) == Provinces \cap {c}
Complete(place) == \A i \in 1..3 : place[i] # 0

\* How the browser holds a reference or a grade: chosen, emptied by the user
\* (sent as ""), null as loaded (not sent at all), and "-" for a missing club.
Dash == "-"

NoForm == [mounted |-> FALSE]
Mounted ==
    [mounted |-> TRUE, loaded |-> FALSE, data |-> Nothing, base |-> Nothing,
     known |-> {},          \* history: the contents loaded or acknowledged since mounting
     coaches |-> {},        \* options for the coach
     unlocked |-> FALSE,    \* editableFields["club"]; the other fields are unlocked at will
     busy |-> FALSE]

FormInit ==
    /\ Init /\ calls = NoCalls
    /\ \/ followed = NULL /\ trying = Nothing
       \/ followed \in Members /\ trying \in Tries
    /\ \E club \in IF followed = NULL THEN {NULL} ELSE Clubs \cup {NULL} :
        profile = [place |-> <<1, 1, 1>>, club |-> club, coach |-> NULL,
                   isCoach |-> followed \in Coaches,
                   coachGrade |-> IF followed \in Coaches THEN "set" ELSE "null",
                   isReferee |-> FALSE, kyorogi |-> FALSE, kyorogiGrade |-> "null",
                   image |-> FALSE]
    /\ edit = Nothing
    /\ reading = [a \in Staff |-> Nothing]
    /\ form = NoForm /\ submits = 0 /\ acked = Nothing

-----------------------------------------------------------------------------
(* The page.                                                               *)

Mount ==
    /\ ~form.mounted /\ Send("form", "profile", Nothing)
    /\ form' = Mounted

\* Another page of the panel, the cancel button or the reload after a photo.
Unmount ==
    /\ form.mounted
    /\ form' = NoForm
    /\ calls' = Abandoned({"form"}, {"edit"})

\* A failure leads to the front page.
Loaded(s) ==
    /\ Answered(s, "form", "profile")
    /\ LET read == calls[s].data
       IN form' = IF Failed(s) THEN NoForm
                  ELSE [form EXCEPT !.loaded = TRUE, !.data = read, !.base = read,
                                    !.known = {read}, !.coaches = Coaches]
    /\ Take(s)

Ready == form.mounted /\ form.loaded
\* (In the code a value chosen back may still differ, by its type.)
Changed == form.data # form.base
Differences(d) == {f \in DOMAIN d : d[f] # form.base[f]}

\* The windows that ask before a field is unlocked and before the edit is sent
\* cover the page, so that asking and saying yes are one step.  A coach has no
\* button to unlock the club.
UnlockClub ==
    /\ Ready /\ ~form.unlocked /\ ~form.data.isCoach
    /\ form' = [form EXCEPT !.unlocked = TRUE]
    /\ UNCHANGED calls

\* An input writes its field, within the bound.
Enter(d) ==
    /\ Differences(d) \subseteq trying.columns
    /\ form' = [form EXCEPT !.data = d]

\* Mutation: the county and the city stay when another province is chosen.
ChooseProvinceOnly(p) ==
    /\ Ready
    /\ Enter([form.data EXCEPT !.place = <<p, @[2], @[3]>>])
    /\ UNCHANGED calls

ChooseProvince(p) ==
    /\ Ready
    /\ Enter([form.data EXCEPT !.place = <<p, 0, 0>>])
    /\ UNCHANGED calls

ChooseCounty(c) ==
    /\ Ready
    /\ c \in CountiesOf(form.data.place[1]) \cup {0}
    /\ Enter([form.data EXCEPT !.place = <<@[1], c, 0>>])
    /\ UNCHANGED calls

ChooseCity(t) ==
    /\ Ready
    /\ t \in CitiesOf(form.data.place[2]) \cup {0}
    /\ Enter([form.data EXCEPT !.place = <<@[1], @[2], t>>])
    /\ UNCHANGED calls

\* The coach is emptied, and the coaches of the club are asked for.
ChooseClub(k) ==
    /\ Ready /\ form.unlocked /\ k # form.data.club
    /\ Enter([form.data EXCEPT !.club = k, !.coach = ""])
    /\ Send("form", "coaches", [club |-> k])

\* Answers are taken as they arrive, a late one after the newer.
ShowCoaches(s) ==
    /\ Answered(s, "form", "coaches")
    /\ form' = [form EXCEPT !.coaches = IF Failed(s) THEN {} ELSE calls[s].data.coaches]
    /\ Take(s)

ChooseCoach(c) ==
    /\ Ready /\ c \in form.coaches \cup {""}
    /\ Enter([form.data EXCEPT !.coach = c])
    /\ UNCHANGED calls

\* The titles and their grades are never locked; a grade shows with its title.
ChooseTitle(title) ==
    /\ Ready
    /\ title = "kyorogi" => form.data.isReferee
    /\ Enter([form.data EXCEPT ![title] = ~@])
    /\ UNCHANGED calls

ChooseGrade(grade, g) ==
    /\ Ready
    /\ IF grade = "coachGrade" THEN form.data.isCoach ELSE form.data.isReferee /\ form.data.kyorogi
    /\ Enter([form.data EXCEPT ![grade] = g])
    /\ UNCHANGED calls

ChooseImage ==
    /\ Ready
    /\ Enter([form.data EXCEPT !.image = TRUE])
    /\ UNCHANGED calls

\* Nothing is sent while a referee's grade is missing.
GradesGiven(d) == d.isReferee /\ d.kyorogi => d.kyorogiGrade = "set"

Confirm ==
    /\ Ready /\ Changed /\ ~form.busy /\ GradesGiven(form.data)
    /\ submits < trying.submits
    /\ Send("form", "edit", form.data)
    /\ form' = [form EXCEPT !.busy = TRUE]
    /\ submits' = submits + 1

\* Mutation: what is on the form when the answer comes counts as submitted.
SubmittedNow(s) ==
    /\ Answered(s, "form", "edit")
    /\ form' = IF Failed(s) THEN [form EXCEPT !.busy = FALSE]
               ELSE [form EXCEPT !.busy = FALSE, !.known = @ \cup {calls[s].data},
                                 !.base = IF calls[s].data.image THEN @ ELSE form.data]
    /\ Take(s)

\* What was submitted counts as saved; a photo reloads the page a
\* little later, and until then the form counts as changed.
Submitted(s) ==
    /\ Answered(s, "form", "edit")
    /\ form' = IF Failed(s) THEN [form EXCEPT !.busy = FALSE]
               ELSE [form EXCEPT !.busy = FALSE, !.known = @ \cup {calls[s].data},
                                 !.base = IF calls[s].data.image THEN @ ELSE calls[s].data]
    /\ Take(s)

-----------------------------------------------------------------------------
(* The server.                                                             *)

\* The serializer names the club, "-" if there is none.
HandleProfile(s) ==
    /\ Waiting(s, "profile")
    /\ Reply(s, [profile EXCEPT !.club = IF @ = NULL THEN Dash ELSE @])
    /\ UNCHANGED <<vars, formVars>>

\* The coaches of a club; without one the request fails; every coach here works for every club.
HandleCoaches(s) ==
    /\ Waiting(s, "coaches")
    /\ IF calls[s].data.club = "" THEN Refuse(s) ELSE Reply(s, [coaches |-> Coaches])
    /\ UNCHANGED <<vars, formVars>>

\* What validation refuses, the columns of other kinds apart.
Valid(f) ==
    /\ Complete(f.place) /\ f.club # Dash
    /\ f.isCoach => f.coachGrade = "set"
    /\ f.kyorogi => f.kyorogiGrade = "set"

\* A null is not sent, and the column of an edit that is there keeps its value.
Sent(new, old, default) == IF new \in {NULL, "null"} THEN old ELSE IF new = "" THEN default ELSE new

Content(f) ==
    LET old == IF edit = Nothing THEN [f EXCEPT !.coach = NULL] ELSE edit
    IN [f EXCEPT !.image = FALSE, !.club = IF @ = "" THEN NULL ELSE @,
                 !.coach = Sent(@, old.coach, NULL),
                 !.coachGrade = Sent(@, old.coachGrade, ""),
                 !.kyorogiGrade = Sent(@, old.kyorogiGrade, "")]

\* serializer.save stores the edit, over the one that is there.
StoreEdit(s) ==
    /\ Waiting(s, "edit") /\ Valid(calls[s].data)
    /\ SubmitEdit(followed)
    /\ edit' = Content(calls[s].data)
    /\ calls' = [calls EXCEPT ![s].phase = "handling",
                              ![s].data = [sent |-> @, stored |-> Content(@)]]
    /\ acked' = Nothing
    /\ UNCHANGED <<profile, reading, form, submits>>

Handling(s) == calls[s].op = "edit" /\ calls[s].phase = "handling"

\* A coach who is the member is refused, with the edit stored.
RefuseOwnCoach(s) ==
    /\ Handling(s) /\ calls[s].data.sent.coach = followed
    /\ Refuse(s)
    /\ UNCHANGED <<vars, formVars>>

\* pending.save writes the whole row again, and makes it anew if it is gone.
FinishEdit(s) ==
    LET stored == calls[s].data.stored IN
    /\ Handling(s) /\ calls[s].data.sent.coach # followed
    /\ SubmitEdit(followed)
    /\ edit' = stored
    /\ acked' = IF \E a \in Staff : reading[a] # Nothing
                                    /\ (reading[a].edit # stored \/ approving[a].saved)
                THEN Nothing ELSE stored
    /\ Reply(s, calls[s].data.sent)
    /\ UNCHANGED <<profile, reading, form, submits>>

\* Lost on the way, refused for a column left out here, or cut short.
Fail(s) ==
    /\ calls[s].phase \in {"waiting", "handling", "done"}
    /\ Refuse(s)
    /\ UNCHANGED <<vars, formVars>>

-----------------------------------------------------------------------------
(* The approval, from the page of one edit or as the action on a list.     *)

BeginFormApproval(a, list) ==
    /\ BeginApproval(a, followed)
    /\ reading' = [reading EXCEPT ![a] = [list |-> list, old |-> profile, edit |-> edit]]
    /\ UNCHANGED <<profile, edit, form, submits, acked>>

\* The page keeps a club or coach where the edit has none; the list has no place.
Applied(r) ==
    IF r.list THEN [r.edit EXCEPT !.place = r.old.place]
    ELSE [r.edit EXCEPT !.club = IF @ = NULL THEN r.old.club ELSE @,
                        !.coach = IF @ = NULL THEN r.old.coach ELSE @]

SaveForm(a) ==
    /\ SaveProfile(a)
    /\ profile' = Applied(reading[a])
    /\ UNCHANGED <<edit, reading, form, submits, acked>>

DeleteForm(a) ==
    /\ DeleteEdit(a)
    /\ edit' = Nothing
    /\ reading' = [reading EXCEPT ![a] = Nothing]
    /\ UNCHANGED <<profile, form, submits, acked>>

ApprovalCut(a) ==
    /\ ApprovalDies(a)
    /\ reading' = [reading EXCEPT ![a] = Nothing]
    /\ UNCHANGED <<profile, edit, form, submits, acked>>

-----------------------------------------------------------------------------
Browser ==
    /\ \/ Confirm
       \/ /\ \/ Mount \/ Unmount \/ UnlockClub \/ ChooseImage
             \/ \E p \in Provinces \cup {0} : ChooseProvince(p) \/ ChooseCounty(p) \/ ChooseCity(p)
             \/ \E k \in Clubs \cup {""} : ChooseClub(k)
             \/ \E c \in Coaches \cup {""} : ChooseCoach(c)
             \/ \E title \in {"isCoach", "isReferee", "kyorogi"} : ChooseTitle(title)
             \/ \E grade \in {"coachGrade", "kyorogiGrade"}, g \in {"", "set"} : ChooseGrade(grade, g)
             \/ \E s \in Slots : Loaded(s) \/ ShowCoaches(s) \/ Submitted(s)
          /\ UNCHANGED submits
    /\ UNCHANGED <<vars, profile, edit, reading, acked>>

Server ==
    \E s \in Slots :
        \/ HandleProfile(s) \/ HandleCoaches(s)
        \/ StoreEdit(s) \/ RefuseOwnCoach(s) \/ FinishEdit(s) \/ Fail(s)

Approvals ==
    /\ \E a \in Staff :
        \/ \E list \in BOOLEAN : BeginFormApproval(a, list)
        \/ SaveForm(a) \/ DeleteForm(a) \/ ApprovalCut(a)
    /\ UNCHANGED calls

FormNext ==
    /\ UNCHANGED <<followed, trying>>
    /\ IF followed = NULL
       THEN Next /\ UNCHANGED <<calls, formVars>>
       ELSE Browser \/ Server \/ Approvals

FormSpec == FormInit /\ [][FormNext]_allVars

-----------------------------------------------------------------------------
(* Properties                                                              *)

\* What e has is in the profile.  An approval from the list leaves the place
\* as it was; the other one a club or coach where the edit has none.
Carries(e) ==
    /\ \A f \in DOMAIN e \ {"place", "club", "coach"} : profile[f] = e[f]
    /\ \/ profile.place = e.place /\ \A f \in {"club", "coach"} : e[f] \in {NULL, profile[f]}
       \/ profile.club = e.club /\ profile.coach = e.coach

\* An edit the member was told is registered waits for approval or is in the
\* profile, unless the member submitted again or it came while an approval was
\* under way that had read an older content or already written the profile:
\* then alone it is deleted unseen.
AcknowledgedEditIsKept == acked = Nothing \/ edit = acked \/ Carries(acked)

\* Whoever finds nothing to submit sees what the server had: as loaded, or as
\* it acknowledged, whatever was entered while a submission was under way.
NothingLooksSubmitted ==
    form.mounted /\ form.loaded /\ ~Changed => form.data \in form.known

\* However edits, approvals of both kinds and crashes overlap, the place is one
\* city with its own county and province, and each title has its grade.
ProfileIsSound ==
    /\ profile.place \in {<<p, p, p>> : p \in Provinces}
    /\ profile.isCoach => profile.coachGrade = "set"
    /\ profile.kyorogi => profile.kyorogiGrade = "set"
=============================================================================
