-------------------------- MODULE CompetitionPage ---------------------------
(***************************************************************************)
(* A player on the page of a competition (CompetitionDetails), with the    *)
(* form to register oneself, together with the coach whose code it needs.  *)
(* One player, one coach, one competition; each has a tab of the client.   *)
(*                                                                         *)
(* Of the entries of the form only the code and the type are told apart.   *)
(* The player is eligible: for others its button stays disabled.  The two  *)
(* meet in the approval row alone, so one client is followed at a time     *)
(* (tab), and the other is seen by what it does to the row.                *)
(***************************************************************************)
EXTENDS CoachApprovals, Sequences

CONSTANTS
    Tabs,          \* bound: whose client is followed, "coach" or "player"
    SimulatePaid,  \* values of simulate_paid: no gateway is in use, or there is no fee
    MaxRows        \* bound: enrollments of the player

VARIABLES
    tab,        \* the client followed; of the other one only what it changes
    details,    \* the competition as the page loaded it
    form,       \* reg or regP, by style
    card,       \* cardInfo
    rows        \* server: the player's enrollments in the competition, in id order

playerVars == <<details, form, card, rows>>
vars == <<tab, style, regOpen, coachVars, calls, playerVars>>

Types == IF style = "kyorugi" THEN {"bout"} ELSE {"standard", "creative"}

NoDetails == [loaded |-> FALSE, open |-> FALSE]
NoForm == [open |-> FALSE, loading |-> FALSE, can |-> FALSE]
NoCard == [id |-> 0]

Init ==
    /\ tab \in Tabs /\ style \in Styles /\ regOpen = TRUE
    /\ CoachInit
    /\ calls = NoCalls
    /\ details = NoDetails /\ form = NoForm /\ card = NoCard
    /\ rows = <<>>

-----------------------------------------------------------------------------
(* The page and its form.                                                  *)

OpenPage ==
    /\ ~details.loaded /\ \A s \in Slots : calls[s].by # "page"
    /\ Send("page", "detail", Nothing)
    /\ UNCHANGED playerVars

\* Back, or one of the buttons that lead to another page.
LeaveCompetition ==
    /\ details' = NoDetails /\ form' = NoForm /\ card' = NoCard
    /\ calls' = Abandoned({"page", "form", "card"}, {"register"})
    /\ UNCHANGED rows

\* The details arrive, and the page asks whether the player is enrolled.
ShowDetails(s) ==
    /\ Answered(s, "page", "detail") /\ ~Failed(s)
    /\ details' = [loaded |-> TRUE, open |-> calls[s].data.open]
    /\ card' = NoCard
    /\ calls' = [calls EXCEPT ![s] = Request("card", "mine", Nothing)]
    /\ UNCHANGED <<form, rows>>

DetailsFailed(s) ==
    /\ Answered(s, "page", "detail") /\ Failed(s)
    /\ Take(s)
    /\ UNCHANGED playerVars

ShowCard(s) ==
    /\ Answered(s, "card", "mine")
    /\ card' = IF Failed(s) THEN NoCard ELSE calls[s].data
    /\ Take(s)
    /\ UNCHANGED <<details, form, rows>>

\* "Register myself"; it can be pressed again while the form is open.
CanClickSelf == details.loaded /\ details.open

OpenForm ==
    /\ CanClickSelf
    /\ form' = [form EXCEPT !.open = TRUE, !.loading = TRUE]
    /\ Send("form", "prefill", Nothing)
    /\ UNCHANGED <<details, card, rows>>

Prefill(s) ==
    /\ Answered(s, "form", "prefill")
    /\ LET a == calls[s].data IN
       form' = CASE ~Failed(s) ->
                      [form EXCEPT !.loading = FALSE, !.can = a.open]
                 [] Failed(s) /\ style = "kyorugi" ->
                      [form EXCEPT !.loading = FALSE]
                 [] Failed(s) /\ style = "poomsae" ->
                      [form EXCEPT !.loading = FALSE, !.can = details.open]
    /\ Take(s)
    /\ UNCHANGED <<details, card, rows>>

CancelForm ==
    /\ form.open /\ ~form.loading
    /\ form' = [form EXCEPT !.open = FALSE]
    /\ UNCHANGED <<details, card, rows, calls>>

\* What the entries of each form may hold when it finds no fault with them.
\* They can be edited while it waits.
KyorugiEntries == [type : {"bout"}, code : Codes]
PoomsaeEntries == [type : {"standard", "creative"}, code : Codes]
Entries == IF style = "kyorugi" THEN KyorugiEntries ELSE PoomsaeEntries

Submit(entries) ==
    /\ form.open /\ ~form.loading /\ form.can
    /\ form' = [form EXCEPT !.loading = TRUE]
    /\ Send("form", "register", entries)
    /\ UNCHANGED <<details, card, rows>>

\* Only the Kyorugi form tells the card button.  An enrollment that is paid
\* takes the player to the card and so away from the page.
Registered(s) ==
    /\ Answered(s, "form", "register") /\ ~Failed(s)
    /\ LET a == calls[s].data IN
       IF a.paid
       THEN LeaveCompetition
       ELSE /\ form' = [form EXCEPT !.loading = FALSE, !.open = FALSE]
            /\ card' = IF style = "kyorugi" THEN [id |-> a.id] ELSE card
            /\ Take(s)
            /\ UNCHANGED <<details, rows>>

\* Mutation: the form of a refused registration stays disabled.
NotRegisteredWaiting(s) ==
    /\ Answered(s, "form", "register") /\ Failed(s)
    /\ Take(s)
    /\ UNCHANGED <<details, form, card, rows>>

NotRegistered(s) ==
    /\ Answered(s, "form", "register") /\ Failed(s)
    /\ form' = [form EXCEPT !.loading = FALSE]
    /\ Take(s)
    /\ UNCHANGED <<details, card, rows>>

-----------------------------------------------------------------------------
(* The server.                                                             *)

HandleDetail(s) ==
    /\ Waiting(s, "detail") \/ Waiting(s, "prefill")
    /\ Reply(s, [open |-> regOpen])
    /\ UNCHANGED playerVars

\* The row the page shows the card of: the first, or the standard one.
Mine ==
    LET std == {i \in DOMAIN rows : rows[i].type = "standard"}
        from == IF std = {} THEN DOMAIN rows ELSE std
    IN  IF from = {} THEN NoCard
        ELSE LET i == CHOOSE i \in from : \A j \in from : i <= j
             IN [id |-> i]

HandleMine(s) ==
    /\ Waiting(s, "mine")
    /\ Reply(s, Mine)
    /\ UNCHANGED playerVars

Standing == {i \in DOMAIN rows : ~rows[i].canceled}

\* Mutation: the check for an enrollment that exists is left to the page.
TakenNever(type) == FALSE

\* A canceled enrollment lets a player register again for Kyorugi only.
Taken(type) ==
    IF style = "kyorugi" THEN Standing # {} ELSE \E i \in DOMAIN rows : rows[i].type = type

\* The dates, the weight and the insurance are other reasons to refuse (Fail).
Admissible(a) == regOpen /\ ~Taken(a.type) /\ Admits(a.code)

\* Whether the player is told that it is paid depends on the gateway.
HandleRegister(s, simulated) ==
    /\ Waiting(s, "register") /\ Admissible(calls[s].data)
    /\ Len(rows) < MaxRows
    /\ rows' = Append(rows, [type |-> calls[s].data.type, canceled |-> FALSE])
    /\ Reply(s, [id |-> Len(rows) + 1, paid |-> simulated])
    /\ UNCHANGED <<details, form, card>>

RefuseRegister(s) ==
    /\ Waiting(s, "register") /\ ~Admissible(calls[s].data)
    /\ Refuse(s)
    /\ UNCHANGED playerVars

CancelEnrollment(i) ==
    /\ i \in Standing
    /\ rows' = [rows EXCEPT ![i].canceled = TRUE]
    /\ UNCHANGED <<details, form, card, calls>>

SetRegistrationOpen ==
    /\ regOpen' \in BOOLEAN
    /\ UNCHANGED <<tab, style, coachVars, calls, playerVars>>

-----------------------------------------------------------------------------
\* What the coach and staff do to the row while the player is followed, as far
\* as registering tells it apart.
RowChangesElsewhere ==
    /\ appr' \in Approved \cup {NoAppr}
    /\ UNCHANGED <<staff, told, flow, modal, calls>>

PlayerActs ==
    \/ OpenPage
    \/ OpenForm \/ CancelForm
    \/ \E entries \in Entries : Submit(entries)
    \/ details.loaded /\ LeaveCompetition
    \/ \E i \in DOMAIN rows : CancelEnrollment(i)

Handle(s) ==
    \/ HandleDetail(s) \/ HandleMine(s) \/ RefuseRegister(s)
    \/ \E simulated \in SimulatePaid : HandleRegister(s, simulated)

Deliver(s) ==
    \/ ShowDetails(s) \/ DetailsFailed(s) \/ ShowCard(s) \/ Prefill(s)
    \/ Registered(s) \/ NotRegistered(s)

PlayerNext == (tab = "player" /\ PlayerActs) \/ \E s \in Slots : Handle(s) \/ Deliver(s)

Next ==
    \/ tab = "coach" /\ CoachActs /\ UNCHANGED <<tab, style, regOpen, playerVars>>
    \/ (IF tab = "coach" THEN OfficeActs ELSE RowChangesElsewhere) /\ UNCHANGED <<tab, style, regOpen, playerVars>>
    \/ PlayerNext /\ UNCHANGED <<tab, style, regOpen, coachVars>>
    \/ (\E s \in Slots : Fail(s)) /\ UNCHANGED <<tab, style, regOpen, playerVars>>
    \/ SetRegistrationOpen

Spec == Init /\ [][Next]_vars

Progress(s) ==
    \/ (ServerActs(s) \/ Fail(s)) /\ UNCHANGED <<tab, style, regOpen, playerVars>>
    \/ (Handle(s) \/ Deliver(s)) /\ UNCHANGED <<tab, style, regOpen, coachVars>>
    \/ /\ FlowStatus(s) \/ FlowApproved(s) \/ FlowCode(s) \/ ModalAnswered(s)
       /\ Remember
       /\ UNCHANGED <<tab, style, regOpen, playerVars>>

\* The browser settles every request it has sent, with an answer or a failure.
FairSpec == Spec /\ \A s \in Slots : WF_vars(Progress(s))

-----------------------------------------------------------------------------
(* Properties.                                                             *)

\* However often the form is opened, submitted and answered out of order, a
\* player stands once in a Kyorugi competition and once in each type of a
\* Poomsae one, a canceled enrollment aside.
OneStandingEnrollment ==
    \A i, j \in Standing : rows[i].type = rows[j].type => i = j

\* Neither the form nor the window of the code waits for ever, although each
\* is told by several requests that may fail in any order.
EveryWaitEnds ==
    /\ form.loading ~> ~form.loading
    /\ (modal.open /\ modal.loading) ~> ~(modal.open /\ modal.loading)
=============================================================================
