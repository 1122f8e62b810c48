----------------------------- MODULE ClubPages ------------------------------
(***************************************************************************)
(* The pages of the panel that work on coaches and clubs: the coach's      *)
(* choice of clubs (ChangeCoachClubs) and the coaches a club asks for      *)
(* (ClubCoachesManagement).  The page on which the coach would answer      *)
(* (CoachRequests) is not among them: the list it asks for is never        *)
(* answered, because PendingCoachRequestsView names a serializer that      *)
(* views.py does not import, so it shows no request.  Requests are         *)
(* answered through the handler alone.                                     *)
(*                                                                         *)
(* One page of one user is followed, MyCoach or the owner of MyClub, as it *)
(* is opened and left again and again; what other tabs and users do is     *)
(* what the handlers of CoachClubs do on their own.  A handler that runs   *)
(* several statements for the page is the same handler, and its answer     *)
(* leaves when it is through.                                              *)
(***************************************************************************)
EXTENDS CoachClubs, Requests

CONSTANTS MyCoach, MyClub

ASSUME ClubPagesAssumption == MyCoach \in Coaches /\ MyClub \in Askers

VARIABLE view    \* state of the page shown

pageVars == <<vars, calls, view>>

Page(name) ==
    [page |-> name, open |-> FALSE, loaded |-> FALSE,
     selected |-> {},     \* the boxes ticked
     full |-> {}, awaiting |-> {},    \* coaches with three clubs, coaches with a pending request
     removing |-> NULL,   \* the coach of the "really remove?" window
     confirming |-> FALSE,
     busy |-> FALSE]

PageNames == {"choose", "club"}

PagesInit == Init /\ calls = NoCalls /\ \E name \in PageNames : view = Page(name)

Changing == {"patch", "update"}
Flipped(S, x) == IF x \in S THEN S \ {x} ELSE S \cup {x}
Handling(s, op) == calls[s].op = op /\ calls[s].phase = "handling"
BeginHandling(s) == calls' = [calls EXCEPT ![s].phase = "handling"]

\* Each page reads what it shows when it is mounted.
Open ==
    /\ ~view.open /\ Send(view.page, "read", Nothing)
    /\ view' = [view EXCEPT !.open = TRUE]

Leave ==
    /\ view.open
    /\ view' = Page(view.page)
    /\ calls' = Abandoned({view.page}, Changing)

-----------------------------------------------------------------------------
(* ChangeCoachClubs.                                                       *)

\* Both lists in one Promise.all; that of all clubs does not change here.
HandleMyClubs(s) ==
    /\ Waiting(s, "read") /\ calls[s].by = "choose"
    /\ Reply(s, [clubs |-> clubsOf[MyCoach]])

ShowMyClubs(s) ==
    /\ Answered(s, "choose", "read")
    /\ view' = IF Failed(s) THEN view
               ELSE [view EXCEPT !.loaded = TRUE, !.selected = calls[s].data.clubs]
    /\ Take(s)

\* Mutation: the limit is one too high in the page.
ToggleClubOneMore(k) ==
    /\ view.page = "choose" /\ view.loaded
    /\ k \in view.selected \/ Cardinality(view.selected) <= Limit
    /\ view' = [view EXCEPT !.selected = Flipped(@, k)]
    /\ UNCHANGED calls

\* A fourth box is refused with a message, but a list that was read with four
\* stays as it is until boxes are unticked.
ToggleClub(k) ==
    /\ view.page = "choose" /\ view.loaded
    /\ k \in view.selected \/ Cardinality(view.selected) < Limit
    /\ view' = [view EXCEPT !.selected = Flipped(@, k)]
    /\ UNCHANGED calls

\* The button is there before the lists are.
SubmitClubs ==
    /\ view.page = "choose" /\ view.open /\ ~view.busy
    /\ Send("choose", "patch", [selected |-> view.selected])
    /\ view' = [view EXCEPT !.busy = TRUE]

HandlePatch(s) ==
    /\ Waiting(s, "patch")
    /\ ChooseClubs(MyCoach, calls[s].data.selected)
    /\ Reply(s, Nothing)

\* "At most three clubs are allowed": 400, and nothing is changed.
HandleLongPatch(s) ==
    /\ Waiting(s, "patch") /\ Cardinality(calls[s].data.selected) > Limit
    /\ Refuse(s)
    /\ UNCHANGED vars

\* An alert says whether it was saved; nothing is read again.
ClubsSaved(s) ==
    /\ Answered(s, "choose", "patch")
    /\ view' = [view EXCEPT !.busy = FALSE]
    /\ Take(s)

-----------------------------------------------------------------------------
(* ClubCoachesManagement.                                                  *)

HandleCoaches(s) ==
    /\ Waiting(s, "read") /\ calls[s].by = "club"
    /\ Reply(s, [active |-> {c \in Coaches : MyClub \in clubsOf[c]},
                 full |-> {c \in Coaches : Cardinality(clubsOf[c]) >= Limit},
                 awaiting |-> {c \in Coaches : \E t \in Types : requests[<<c, MyClub, t>>] = "pending"}])

ShowCoaches(s) ==
    /\ Answered(s, "club", "read")
    /\ view' = IF Failed(s) THEN view
               ELSE [view EXCEPT !.loaded = TRUE, !.selected = calls[s].data.active,
                                 !.full = calls[s].data.full, !.awaiting = calls[s].data.awaiting]
    /\ Take(s)

WindowOpen == view.removing # NULL \/ view.confirming

Clickable(c) == view.page = "club" /\ view.loaded /\ ~WindowOpen /\ c \notin view.awaiting

\* Unticking asks first; a coach with three clubs cannot be ticked.
ToggleCoach(c) ==
    /\ Clickable(c)
    /\ \/ /\ c \in view.selected
          /\ view' = [view EXCEPT !.removing = c]
       \/ /\ c \notin view.selected \cup view.full
          /\ view' = [view EXCEPT !.selected = @ \cup {c}]
    /\ UNCHANGED calls

ConfirmRemoval ==
    /\ view.removing # NULL
    /\ view' = [view EXCEPT !.removing = NULL, !.selected = @ \ {view.removing}]
    /\ UNCHANGED calls

CancelRemoval ==
    /\ view.removing # NULL
    /\ view' = [view EXCEPT !.removing = NULL]
    /\ UNCHANGED calls

SubmitCoaches ==
    /\ view.page = "club" /\ view.open /\ ~WindowOpen /\ ~view.busy
    /\ view' = [view EXCEPT !.confirming = TRUE]
    /\ UNCHANGED calls

\* The last window stays open while the request is under way, "yes" included.
ConfirmCoaches ==
    /\ view.confirming
    /\ Send("club", "update", [selected |-> view.selected])
    /\ view' = [view EXCEPT !.busy = TRUE]

CancelCoaches ==
    /\ view.confirming
    /\ view' = [view EXCEPT !.confirming = FALSE]
    /\ UNCHANGED calls

HandleUpdate(s) ==
    /\ Waiting(s, "update")
    /\ SelectCoaches(MyClub, calls[s].data.selected)
    /\ BeginHandling(s)

FinishUpdate(s) ==
    /\ Handling(s, "update") /\ ~Busy(MyClub) /\ checked[MyClub] = NULL
    /\ Reply(s, Nothing)
    /\ UNCHANGED vars

CoachesAsked(s) ==
    /\ Answered(s, "club", "update")
    /\ view' = [view EXCEPT !.busy = FALSE, !.confirming = FALSE]
    /\ Take(s)

-----------------------------------------------------------------------------
\* Before a request is handled, or when its answer is lost on the way.
Fail(s) ==
    /\ calls[s].phase \in {"waiting", "done"}
    /\ Refuse(s)

\* The browser: what the user does, and the answers that arrive.
Browser ==
    /\ \/ Open
       \/ Leave
       \/ \E k \in Clubs : ToggleClub(k)
       \/ SubmitClubs
       \/ \E c \in Coaches : ToggleCoach(c)
       \/ ConfirmRemoval \/ CancelRemoval \/ SubmitCoaches \/ ConfirmCoaches \/ CancelCoaches
       \/ \E s \in Slots :
            \/ ShowMyClubs(s) \/ ClubsSaved(s)
            \/ ShowCoaches(s) \/ CoachesAsked(s)
    /\ UNCHANGED vars

\* The server on behalf of the tab.
Server ==
    /\ \E s \in Slots :
        \/ HandlePatch(s) \/ HandleLongPatch(s) \/ HandleUpdate(s) \/ FinishUpdate(s)
        \/ HandleMyClubs(s) /\ UNCHANGED vars
        \/ HandleCoaches(s) /\ UNCHANGED vars
        \/ Fail(s) /\ UNCHANGED vars
    /\ UNCHANGED view

\* The server on behalf of everyone else, and the later statements of handlers.
Elsewhere ==
    /\ \/ \E c \in Coaches, ks \in SUBSET Clubs : ChooseClubs(c, ks)
       \/ \E k \in Askers, selected \in SUBSET Coaches : SelectCoaches(k, selected)
       \/ \E k \in Clubs, c \in Coaches : CheckCoach(k, c) \/ RequestRemove(k, c)
       \/ \E k \in Clubs : RequestAdd(k)
       \/ \E t \in Tabs, key \in Keys, accept \in BOOLEAN : BeginAnswer(t, key, accept)
       \/ \E t \in Tabs : ApplyAnswer(t) \/ SaveAnswer(t) \/ AnswerDies(t)
    /\ UNCHANGED <<calls, view>>

PagesNext == Browser \/ Server \/ Elsewhere

PagesSpec == PagesInit /\ [][PagesNext]_pageVars

-----------------------------------------------------------------------------
(* Properties                                                              *)

\* The page counts the boxes, the server what arrives, and between the two lie
\* an old list, other tabs, and requests accepted past the limit.  Still a coach
\* is told that three clubs at most are allowed only when a club among those
\* sent has once asked for him: with clubs of his own choice alone he never is.
RefusedOnlyByAsked ==
    \A s \in Slots :
        Waiting(s, "patch") /\ Cardinality(calls[s].data.selected) > Limit
            => \E k \in calls[s].data.selected : requests[<<MyCoach, k, "add">>] # "none"
=============================================================================
