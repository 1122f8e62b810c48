------------------------------- MODULE Portal -------------------------------
(***************************************************************************)
(* The signed-in part of the web client: one browser tab, the localStorage *)
(* it shares with the browser's other tabs, and the tokens the server has  *)
(* issued.  A token is its number in the order of issue, 0 stands for none.*)
(*                                                                         *)
(* React runs the effects of a location before the next event, so a user's *)
(* action waits until the location is settled (~due); other tabs and late  *)
(* answers do not.  What the pages below the dashboard do is in modules of *)
(* their own.                                                              *)
(***************************************************************************)
EXTENDS Integers, Sequences

CONSTANTS
    Accounts, RoleOf, None,
    Sections,      \* the sections of the menu that are tried, "matches" among them
    MaxLogins,     \* bound: tokens issued
    MaxHistory     \* bound: entries remembered of the tab's history

Roles == {"player", "coach", "referee", "both", "club", "heyat"}

Pages == {"home", "main", "nested", "dead"}
InDashboard == {"main", "nested"}
Url == [page : Pages, role : Roles \cup {"coachref", None}, section : Sections]

ASSUME PortalAssumption ==
    /\ RoleOf \in [Accounts -> Roles]
    /\ "matches" \in Sections
    /\ None \notin Roles \cup Accounts \cup Sections \cup (Pages \X (Roles \cup {"coachref", None}))
    /\ MaxLogins \in Nat /\ MaxHistory \in Nat \ {0}

Home == [page |-> "home", role |-> None, section |-> "matches"]
Main(r, sec) == [page |-> "main", role |-> r, section |-> sec]
Nested(r) == [page |-> "nested", role |-> r, section |-> "matches"]
Dead(r) == [page |-> "dead", role |-> r, section |-> "matches"]

VARIABLES
    issued,     \* server: the account of each token
    expired,    \* server: the tokens past their lifetime
    stored,     \* localStorage: the token under each <role>_token
    userRole,   \* localStorage: user_role, or None
    history,    \* the tab's session history; the last entry is shown
    due,        \* are effects of the shown location still to run?
    role,       \* Dashboard's role, or None while it is not mounted
    path,       \* the path Dashboard's effects have run for, or None
    section,    \* Dashboard's selectedSection
    menu,       \* the role in the profile the sidebar has loaded, or None
    asked,      \* tokens of the mounted dashboard's unanswered requests
    orphans,    \* tokens of unanswered requests of components that are gone
    signin      \* the account whose login is under way, or None

server == <<issued, expired>>
storage == <<stored, userRole>>
view == <<role, path, section, menu>>
requests == <<asked, orphans>>
vars == <<issued, expired, stored, userRole, history, due, role, path, section,
          menu, asked, orphans, signin>>

Tokens == 1..Len(issued)
NoTokens == [r \in Roles |-> 0]
Here == history[Len(history)]

Init ==
    /\ issued = <<>> /\ expired = {}
    /\ stored = NoTokens /\ userRole = None
    /\ history = <<Home>> /\ due = FALSE
    /\ role = None /\ path = None /\ section = "matches" /\ menu = None
    /\ asked = {} /\ orphans = {} /\ signin = None

-----------------------------------------------------------------------------
(* The three functions that choose a token try keys in different orders.   *)

FirstOf(keys) ==
    LET found == {i \in DOMAIN keys : keys[i] \in Roles /\ stored[keys[i]] # 0}
    IN  IF found = {} THEN 0
        ELSE stored[keys[CHOOSE i \in found : \A j \in found : i <= j]]

RouteToken == FirstOf(<<userRole, "both", "player", "coach", "referee", "club", "heyat">>)
ApiToken == FirstOf(<<"coach", "both", userRole>>)
ProfileToken == FirstOf(<<userRole, "both", "coach", "player", "referee", "club">>)

-----------------------------------------------------------------------------
(* Moving between locations.                                               *)

Recent(urls) == SubSeq(urls, IF Len(urls) > MaxHistory THEN Len(urls) - MaxHistory + 1 ELSE 1, Len(urls))

Push(urls) ==
    /\ history' = Recent(history \o urls)
    /\ due' = TRUE

Replace(url) ==
    /\ history' = [history EXCEPT ![Len(history)] = url]
    /\ due' = TRUE

Unmount ==
    /\ role' = None /\ path' = None /\ menu' = None
    /\ orphans' = orphans \cup asked /\ asked' = {}

\* Reloading, or typing an address: the tab starts afresh and its requests are gone.
Load(url) ==
    /\ ~due
    /\ \/ url = Here /\ Replace(url)
       \/ url # Here /\ Push(<<url>>)
    /\ role' = None /\ path' = None /\ section' = "matches" /\ menu' = None
    /\ asked' = {} /\ orphans' = {} /\ signin' = None
    /\ UNCHANGED <<server, storage>>

Back ==
    /\ ~due /\ Len(history) > 1
    /\ history' = SubSeq(history, 1, Len(history) - 1)
    /\ due' = TRUE
    /\ signin' = None
    /\ UNCHANGED <<server, storage, view, requests>>

-----------------------------------------------------------------------------
(* Effects of a new location.  Those of the dashboard that look at the      *)
(* session depend on the path: another section is only a change of query.  *)

ShowPublicPage ==
    /\ due /\ Here.page \notin InDashboard
    /\ due' = FALSE
    /\ Unmount
    /\ UNCHANGED <<server, storage, history, section, signin>>

Path(url) == <<url.page, url.role>>
NewPath == path # Path(Here)
HasSession == userRole # None /\ stored[userRole] # 0

\* Mutation: whoever is not signed in is sent to a page for members.
TurnedAwayInside == Main("player", "matches")

TurnedAwayTo == Home

\* PrivateRoute, or the effect of Dashboard, finds nobody signed in.
TurnAway ==
    /\ due /\ Here.page \in InDashboard
    /\ RouteToken = 0 \/ (NewPath /\ ~HasSession)
    /\ Replace(TurnedAwayTo)
    /\ UNCHANGED <<server, storage, view, requests, signin>>

Corrected(url) == [url EXCEPT !.role = userRole]

\* The sidebar and the statistics ask for the profile on every new path.
Asking == asked \cup {stored[userRole]}

CorrectRole ==
    /\ due /\ Here.page \in InDashboard /\ RouteToken # 0
    /\ NewPath /\ HasSession /\ Here.role # userRole
    /\ role' = userRole /\ path' = Path(Here)
    /\ Replace(Corrected(Here))
    /\ asked' = IF role = None THEN asked ELSE Asking
    /\ UNCHANGED <<server, storage, section, menu, orphans, signin>>

\* Mutation: the section follows the address only when the dashboard is mounted.
SectionOnMount ==
    IF Here.page = "main" /\ role = None THEN Here.section ELSE section

SyncedSection == IF Here.page = "main" THEN Here.section ELSE section

ShowDashboard ==
    /\ due /\ Here.page \in InDashboard /\ RouteToken # 0
    /\ NewPath /\ HasSession /\ Here.role = userRole
    /\ due' = FALSE
    /\ role' = userRole /\ path' = Path(Here)
    /\ section' = SyncedSection
    /\ asked' = Asking
    /\ UNCHANGED <<server, storage, history, menu, orphans, signin>>

ShowSection ==
    /\ due /\ Here.page \in InDashboard /\ RouteToken # 0 /\ ~NewPath
    /\ due' = FALSE
    /\ section' = SyncedSection
    /\ UNCHANGED <<server, storage, history, role, path, menu, requests, signin>>

Effects == ShowPublicPage \/ TurnAway \/ CorrectRole \/ ShowDashboard \/ ShowSection

-----------------------------------------------------------------------------
(* Signing in and out.                                                     *)

OpenLogin(a) ==
    /\ ~due /\ Here.page = "home" /\ signin = None
    /\ signin' = a
    /\ UNCHANGED <<server, storage, history, due, view, requests>>

\* Mutation: the key is made from the role stored before this sign-in.
IssueUnderOldRole(a) ==
    /\ Len(issued) < MaxLogins
    /\ issued' = Append(issued, a)
    /\ stored' = [stored EXCEPT ![IF userRole = None THEN RoleOf[a] ELSE userRole] = Len(issued) + 1]
    /\ userRole' = RoleOf[a]
    /\ UNCHANGED expired

\* The token goes under the role the server names; other tokens stay.
Issue(a) ==
    /\ Len(issued) < MaxLogins
    /\ issued' = Append(issued, a)
    /\ stored' = [stored EXCEPT ![RoleOf[a]] = Len(issued) + 1]
    /\ userRole' = RoleOf[a]
    /\ UNCHANGED expired

Landing(r) == IF r \in {"player", "club", "heyat"} THEN r ELSE "coachref"

FinishLogin ==
    /\ ~due /\ signin # None
    /\ Issue(signin)
    /\ Push(<<Main(Landing(RoleOf[signin]), "matches")>>)
    /\ signin' = None
    /\ UNCHANGED <<view, requests>>

FailLogin ==
    /\ ~due /\ signin # None
    /\ signin' = None
    /\ UNCHANGED <<server, storage, history, due, view, requests>>

\* Mutation: the list is not complete.
ListedKeysShort == Roles \ {"player"}

ListedKeys == Roles

\* Dashboard's logout; the sidebar's, run before it, removes a part of the same.
Forget ==
    /\ stored' = [r \in Roles |-> IF r \in ListedKeys THEN 0 ELSE stored[r]]
    /\ userRole' = None

\* The button, or ten minutes without an event in this tab.
Logout ==
    /\ ~due /\ role # None
    /\ Forget
    /\ Replace(Home)
    /\ UNCHANGED <<server, view, requests, signin>>

Expire(t) ==
    /\ t \notin expired
    /\ expired' = expired \cup {t}
    /\ UNCHANGED <<issued, storage, history, due, view, requests, signin>>

\* A request with token t is answered; more of them may carry the same one.
AskedAnswered(t) ==
    t \in asked /\ asked' \in {asked, asked \ {t}} /\ UNCHANGED orphans
OrphanAnswered(t) ==
    t \in orphans /\ orphans' \in {orphans, orphans \ {t}} /\ UNCHANGED asked

\* The profile arrives; a component that is gone does not use it.
ProfileArrives(t) ==
    /\ \/ AskedAnswered(t) /\ menu' = RoleOf[issued[t]]
       \/ OrphanAnswered(t) /\ UNCHANGED menu
    /\ UNCHANGED <<server, storage, history, due, role, path, section, signin>>

\* Mutation: any failure is taken for a refusal.
RefusalUnchecked(t) == t \in asked \cup orphans

Refusal(t) == t \in (asked \cup orphans) \cap expired

\* 401: whoever asked, localStorage is emptied and the tab goes home.
ProfileRefused(t) ==
    /\ Refusal(t)
    /\ stored' = NoTokens /\ userRole' = None
    /\ AskedAnswered(t) \/ OrphanAnswered(t)
    /\ Push(<<Home>>)
    /\ UNCHANGED <<server, view, signin>>

\* Another tab of the browser signs in or out.
ElsewhereSignIn(a) ==
    /\ Issue(a)
    /\ UNCHANGED <<history, due, view, requests, signin>>

ElsewhereSignOut ==
    /\ userRole # None
    /\ Forget
    /\ UNCHANGED <<server, history, due, view, requests, signin>>

-----------------------------------------------------------------------------
(* Using the dashboard.                                                    *)

MenuRole ==
    IF menu # None THEN menu ELSE IF userRole # None THEN userRole ELSE "player"

MenuSections(r) ==
    {"matches", "exams", "courses", "circulars", "news"} \cup
    CASE r \in {"player", "referee"} -> {"profile"}
      [] r \in {"coach", "both"} -> {"profile", "students", "club-change", "club-requests"}
      [] r = "club" -> {"club-coaches", "club-students"}
      [] r = "heyat" -> {"students", "heyat-coaches", "heyat-referees", "heyat-clubs", "heyat-create-news"}

\* A click on the menu is written to the history twice: by the sidebar with
\* the role of the profile, and by the dashboard with the stored one.
Select(sec) ==
    /\ ~due /\ role # None /\ sec \in MenuSections(MenuRole)
    /\ section' = sec
    /\ Push(<<Main(MenuRole, sec), Main(IF userRole # None THEN userRole ELSE role, sec)>>)
    /\ UNCHANGED <<server, storage, role, path, menu, requests, signin>>

OpenDetails ==
    /\ ~due /\ role # None /\ Here.page = "main" /\ section = "matches"
    /\ Push(<<Nested(role)>>)
    /\ UNCHANGED <<server, storage, view, requests, signin>>

RoleSegment(r) == IF r = "both" THEN "coach" ELSE r

\* A coach who has accepted the terms is sent to an address without a route,
\* then to the competition.
FinishAgreement ==
    /\ ~due /\ role \in {"coach", "both"} /\ Here.page = "main" /\ section = "matches"
    /\ Push(<<Dead(RoleSegment(role)), Nested(role)>>)
    /\ UNCHANGED <<server, storage, view, requests, signin>>

UserActs ==
    \/ Load(Here) \/ Load(Home) \/ Back
    \/ \E a \in Accounts, sec \in Sections : Load(Main(RoleOf[a], sec))
    \/ \E a \in Accounts : OpenLogin(a)
    \/ Logout \/ OpenDetails \/ FinishAgreement
    \/ \E sec \in Sections : Select(sec)

Next ==
    \/ Effects \/ UserActs \/ FinishLogin \/ FailLogin
    \/ \E t \in Tokens : Expire(t) \/ ProfileArrives(t) \/ ProfileRefused(t)
    \/ \E a \in Accounts : ElsewhereSignIn(a)
    \/ ElsewhereSignOut

Spec == Init /\ [][Next]_vars
FairSpec == Spec /\ WF_vars(Effects)

-----------------------------------------------------------------------------
(* Properties.                                                             *)

\* A token is stored under the role of its account, whatever was signed in to
\* before without signing out: the keys of LoginModal are those the pages read.
TokensOfTheirRole ==
    \A r \in Roles : stored[r] # 0 => RoleOf[issued[stored[r]]] = r

\* However a session ended, none of the three functions that look for a token
\* finds one that an earlier sign-in left behind; during one each of them does.
SignedOutMeansNoToken ==
    \A t \in {RouteToken, ApiToken, ProfileToken} : t = 0 <=> userRole = None

\* A settled dashboard shows the role and the section of its address, by
\* whatever links, redirects and steps back it was reached and whoever
\* signed in elsewhere meanwhile.
ShowsItsAddress ==
    ~due => /\ role # None <=> Here.page \in InDashboard
            /\ Here.page \in InDashboard => role = Here.role
            /\ Here.page = "main" => section = Here.section

\* Unless somebody signs out, a session only ends when the server has refused
\* an expired token - not always this session's own: a late answer to an
\* earlier one ends it too.
SessionEndsForAReason ==
    [][userRole # None /\ userRole' = None
        => Logout \/ ElsewhereSignOut \/ \E t \in expired : t \in asked \cup orphans]_vars

\* The redirects come to rest.
AddressSettles == due ~> ~due
=============================================================================
