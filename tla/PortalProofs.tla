----------------------------- MODULE PortalProofs -----------------------------
(***************************************************************************)
(* What Portal guarantees for any accounts, sections and number of         *)
(* sign-ins and for a history of any length.                               *)
(***************************************************************************)
EXTENDS Portal, SequenceTheorems, TLAPS

TypeOK ==
    /\ issued \in Seq(Accounts) /\ expired \subseteq Nat
    /\ stored \in [Roles -> 0..Len(issued)] /\ userRole \in Roles \cup {None}
    /\ history \in Seq(Url) /\ Len(history) > 0 /\ due \in BOOLEAN
    /\ role \in Roles \cup {None} /\ path \in (Pages \X (Roles \cup {"coachref", None})) \cup {None}
    /\ section \in Sections /\ menu \in Roles \cup {None}
    /\ asked \subseteq Nat /\ orphans \subseteq Nat /\ signin \in Accounts \cup {None}

-----------------------------------------------------------------------------
\* The history is cut at its old end: what was pushed last is shown.
LEMMA RecentKeeps ==
    ASSUME NEW urls \in Seq(Url), Len(urls) > 0
    PROVE  /\ Recent(urls) \in Seq(Url) /\ Len(Recent(urls)) > 0
           /\ Recent(urls)[Len(Recent(urls))] = urls[Len(urls)]
<1> DEFINE from == IF Len(urls) > MaxHistory THEN Len(urls) - MaxHistory + 1 ELSE 1
<1>1. from \in 1..Len(urls) /\ Len(urls) \in Nat
  BY PortalAssumption
<1>2. \A i \in from..Len(urls) : urls[i] \in Url
  BY <1>1
<1>3. /\ SubSeq(urls, from, Len(urls)) \in Seq(Url)
      /\ Len(SubSeq(urls, from, Len(urls))) = Len(urls) - from + 1
      /\ SubSeq(urls, from, Len(urls))[Len(urls) - from + 1] = urls[Len(urls)]
  BY <1>1, <1>2
<1> QED BY <1>1, <1>3 DEF Recent

LEMMA PushShows ==
    ASSUME TypeOK, NEW urls \in Seq(Url), Len(urls) > 0, Push(urls)
    PROVE  /\ history' \in Seq(Url) /\ Len(history') > 0 /\ due' = TRUE
           /\ Here' = urls[Len(urls)]
<1>1. /\ history \o urls \in Seq(Url) /\ Len(history \o urls) > 0
      /\ (history \o urls)[Len(history \o urls)] = urls[Len(urls)]
  BY DEF TypeOK
<1> QED BY <1>1, RecentKeeps DEF Push, Here

LEMMA PushOne ==
    ASSUME TypeOK, NEW url \in Url, Push(<<url>>)
    PROVE  history' \in Seq(Url) /\ Len(history') > 0 /\ due' = TRUE /\ Here' = url
<1> DEFINE urls == <<url>>
<1>1. urls \in Seq(Url) /\ Len(urls) > 0 /\ urls[Len(urls)] = url /\ Push(urls)
  OBVIOUS
<1> HIDE DEF urls
<1> QED BY <1>1, PushShows

LEMMA PushTwo ==
    ASSUME TypeOK, NEW from \in Url, NEW url \in Url, Push(<<from, url>>)
    PROVE  history' \in Seq(Url) /\ Len(history') > 0 /\ due' = TRUE /\ Here' = url
<1> DEFINE urls == <<from, url>>
<1>1. urls \in Seq(Url) /\ Len(urls) > 0 /\ urls[Len(urls)] = url /\ Push(urls)
  OBVIOUS
<1> HIDE DEF urls
<1> QED BY <1>1, PushShows

LEMMA ReplaceShows ==
    ASSUME TypeOK, NEW url \in Url, Replace(url)
    PROVE  /\ history' \in Seq(Url) /\ Len(history') > 0 /\ due' = TRUE
           /\ Here' = url
BY DEF TypeOK, Replace, Here

LEMMA BackShows ==
    ASSUME TypeOK, Back
    PROVE  history' \in Seq(Url) /\ Len(history') > 0 /\ Here' \in Url
<1>1. Len(history) \in Nat /\ Len(history) > 1
  BY DEF TypeOK, Back
<1>2. /\ history' \in Seq(Url) /\ Len(history') = Len(history) - 1
  BY <1>1, SubSeqProperties DEF TypeOK, Back
<1> QED BY <1>1, <1>2 DEF Here

LEMMA Urls ==
    /\ Home \in Url
    /\ \A r \in Roles \cup {"coachref", None}, sec \in Sections : Main(r, sec) \in Url
    /\ \A r \in Roles \cup {"coachref", None} : Nested(r) \in Url /\ Dead(r) \in Url
BY PortalAssumption DEF Url, Home, Main, Nested, Dead, Pages

\* What a step puts on the screen, and that the history stays one of addresses.
LEMMA HistoryStep ==
    ASSUME TypeOK, [Next]_vars
    PROVE  history' \in Seq(Url) /\ Len(history') > 0
<1> USE DEF TypeOK
<1>1. CASE UNCHANGED history
  BY <1>1
<1>2. ASSUME NEW url \in Url, Load(url) PROVE history' \in Seq(Url) /\ Len(history') > 0
  BY <1>2, PushOne, ReplaceShows DEF Load
<1>3. CASE Back
  BY <1>3, BackShows
<1>4. Here \in Url
  BY DEF Here
<1>5. CASE TurnAway \/ Logout
  BY <1>5, ReplaceShows, Urls DEF TurnAway, TurnedAwayTo, Logout
<1>6. CASE CorrectRole
  <2>1. Corrected(Here) \in Url
    BY <1>4, <1>6 DEF CorrectRole, HasSession, Corrected, Url
  <2> QED BY <1>6, <2>1, ReplaceShows DEF CorrectRole
<1>7. CASE FinishLogin
  <2>1. Main(Landing(RoleOf[signin]), "matches") \in Url
    BY <1>7, PortalAssumption, Urls DEF FinishLogin, Landing
  <2> QED BY <1>7, <2>1, PushOne DEF FinishLogin
<1>8. ASSUME NEW t \in Tokens, ProfileRefused(t) PROVE history' \in Seq(Url) /\ Len(history') > 0
  BY <1>8, PushOne, Urls DEF ProfileRefused
<1>9. ASSUME NEW sec \in Sections, Select(sec) PROVE history' \in Seq(Url) /\ Len(history') > 0
  <2>1. MenuRole \in Roles
    BY DEF MenuRole, Roles
  <2>2. (IF userRole # None THEN userRole ELSE role) \in Roles
    BY <1>9 DEF Select
  <2> QED BY <1>9, <2>1, <2>2, PushTwo, Urls DEF Select
<1>10. CASE OpenDetails
  BY <1>10, PushOne, Urls DEF OpenDetails
<1>11. CASE FinishAgreement
  <2>1. role \in Roles /\ RoleSegment(role) \in Roles
    BY <1>11 DEF FinishAgreement, RoleSegment, Roles
  <2> QED BY <1>11, <2>1, PushTwo, Urls DEF FinishAgreement
<1>12. CASE UserActs
  <2>1. ASSUME NEW a \in Accounts, NEW sec \in Sections PROVE Main(RoleOf[a], sec) \in Url
    BY PortalAssumption, Urls
  <2> QED
    BY <1>1, <1>2, <1>3, <1>4, <1>5, <1>9, <1>10, <1>11, <1>12, <2>1, Urls
       DEF UserActs, OpenLogin
<1> QED
  BY <1>1, <1>5, <1>6, <1>7, <1>8, <1>12 DEF Next, Effects, ShowPublicPage, ShowDashboard,
     ShowSection, FailLogin, Expire, ProfileArrives, ElsewhereSignIn, ElsewhereSignOut, vars

LEMMA IssueTypes ==
    ASSUME TypeOK, NEW a \in Accounts, Issue(a)
    PROVE  /\ issued' \in Seq(Accounts) /\ Len(issued') = Len(issued) + 1
           /\ stored' \in [Roles -> 0..Len(issued')] /\ userRole' \in Roles
BY PortalAssumption DEF TypeOK, Issue

LEMMA TypeStep == TypeOK /\ [Next]_vars => TypeOK'
<1> SUFFICES ASSUME TypeOK, [Next]_vars PROVE TypeOK'
  OBVIOUS
<1>0. history' \in Seq(Url) /\ Len(history') > 0
  BY HistoryStep
<1>1. issued' \in Seq(Accounts) /\ stored' \in [Roles -> 0..Len(issued')]
      /\ userRole' \in Roles \cup {None}
  <2>1. CASE UNCHANGED issued /\ UNCHANGED storage
    BY <2>1 DEF storage, TypeOK
  <2>2. ASSUME NEW a \in Accounts, Issue(a)
        PROVE  /\ issued' \in Seq(Accounts) /\ stored' \in [Roles -> 0..Len(issued')]
               /\ userRole' \in Roles \cup {None}
    BY <2>2, IssueTypes
  <2>3. CASE UNCHANGED issued /\ stored' = NoTokens /\ userRole' = None
    BY <2>3 DEF NoTokens, TypeOK
  <2>4. CASE UNCHANGED issued /\ Forget
    BY <2>4 DEF Forget, TypeOK
  <2>5. CASE FinishLogin
    BY <2>2, <2>5 DEF FinishLogin, TypeOK
  <2>6. CASE Effects
    BY <2>1, <2>6 DEF Effects, ShowPublicPage, TurnAway, CorrectRole, ShowDashboard, ShowSection, server
  <2>7. CASE UserActs
    BY <2>1, <2>4, <2>7 DEF UserActs, Load, Back, OpenLogin, Logout, OpenDetails,
       FinishAgreement, Select, server
  <2> QED
    BY <2>1, <2>2, <2>3, <2>4, <2>5, <2>6, <2>7 DEF Next, FailLogin, Expire, ProfileArrives,
       ProfileRefused, ElsewhereSignIn, ElsewhereSignOut, server, storage, vars
<1>2. /\ due' \in BOOLEAN /\ role' \in Roles \cup {None} /\ signin' \in Accounts \cup {None}
      /\ path' \in (Pages \X (Roles \cup {"coachref", None})) \cup {None}
      /\ section' \in Sections /\ menu' \in Roles \cup {None}
      /\ expired' \subseteq Nat /\ asked' \subseteq Nat /\ orphans' \subseteq Nat
  <2> USE DEF TypeOK
  <2>0. Here \in Url /\ Path(Here) \in Pages \X (Roles \cup {"coachref", None})
        /\ SyncedSection \in Sections
    <3>1. Here \in Url
      BY DEF Here
    <3>2. Here.page \in Pages /\ Here.role \in Roles \cup {"coachref", None}
          /\ Here.section \in Sections
      BY <3>1 DEF Url
    <3> QED BY <3>1, <3>2 DEF Path, SyncedSection
  <2>1. CASE UNCHANGED view /\ UNCHANGED requests /\ UNCHANGED expired
             /\ due' \in BOOLEAN /\ signin' \in Accounts \cup {None}
    BY <2>1 DEF view, requests
  <2>2. CASE Effects
    <3>1. HasSession => Asking \subseteq Nat
      <4>1. \A r \in Roles : stored[r] \in Nat
        OBVIOUS
      <4> QED BY <4>1 DEF HasSession, Asking
    <3> QED
      BY <2>0, <2>2, <3>1 DEF Effects, ShowPublicPage, TurnAway, CorrectRole, ShowDashboard,
         ShowSection, HasSession, Unmount, Replace, server, view, requests
  <2>3. CASE UserActs
    BY <2>1, <2>3, PortalAssumption DEF UserActs, Load, Back, OpenLogin, Logout, OpenDetails,
       FinishAgreement, Select, Push, Replace, server, view, requests
  <2>4. CASE \E t \in Tokens : Expire(t) \/ ProfileArrives(t) \/ ProfileRefused(t)
    <3>1. \A t \in Tokens : t \in Nat /\ RoleOf[issued[t]] \in Roles
      BY PortalAssumption DEF Tokens
    <3> QED
      BY <2>4, <3>1 DEF Expire, ProfileArrives, ProfileRefused, AskedAnswered, OrphanAnswered,
         Push, server, view, requests
  <2> QED
    BY <2>1, <2>2, <2>3, <2>4 DEF Next, FinishLogin, FailLogin, ElsewhereSignIn, ElsewhereSignOut,
       Issue, Push, server, view, requests, vars
<1> QED BY <1>0, <1>1, <1>2 DEF TypeOK

-----------------------------------------------------------------------------
(* The location.                                                           *)

\* The dashboard's effects have run for the address shown: it wears its role.
Located ==
    /\ role = None => path = None
    /\ Here.page \in InDashboard /\ path = Path(Here) => role = Here.role /\ role # None
    /\ ~due => /\ Here.page \in InDashboard => path = Path(Here)
               /\ Here.page \notin InDashboard => role = None
               /\ Here.page = "main" => section = Here.section

\* A step to another address that leaves the dashboard as it is.
LEMMA LocatedMoves ==
    ASSUME TypeOK, Located, Here' \in Url, due' = TRUE, UNCHANGED <<role, path>>,
           Here'.page \notin InDashboard \/ ~due
    PROVE  Located'
<1>1. CASE Here'.page \notin InDashboard
  BY <1>1 DEF Located
<1>2. ASSUME ~due, Here'.page \in InDashboard, path = Path(Here')
      PROVE  role = Here'.role /\ role # None
  <2>1. CASE Here.page \in InDashboard
    <3>1. Path(Here) = Path(Here') /\ role = Here.role /\ role # None
      BY <1>2, <2>1 DEF Located
    <3> QED BY <3>1 DEF Path
  <2>2. CASE Here.page \notin InDashboard
    <3>1. path = None
      BY <1>2, <2>2 DEF Located
    <3>2. Path(Here') \in Pages \X (Roles \cup {"coachref", None})
      BY DEF Path, Url
    <3> QED BY <1>2, <3>1, <3>2, PortalAssumption
  <2> QED BY <2>1, <2>2
<1> QED BY <1>1, <1>2 DEF Located

LEMMA LocatedStep == TypeOK /\ Located /\ [Next]_vars => Located'
<1> SUFFICES ASSUME TypeOK, Located, [Next]_vars PROVE Located'
  OBVIOUS
<1>0. /\ Here \in Url /\ Here' \in Url
      /\ \A r \in Roles \cup {None} : r # None => r \in Roles
      /\ \A url \in Url : Path(url) # None
  <2>1. ASSUME NEW url \in Url PROVE Path(url) # None
    <3>1. Path(url) \in Pages \X (Roles \cup {"coachref", None})
      BY DEF Path, Url
    <3> QED BY <3>1, PortalAssumption
  <2> QED BY <2>1, HistoryStep DEF TypeOK, Here
<1>1. CASE UNCHANGED <<history, due, role, path, section>>
  BY <1>1 DEF Located, Here, Path
<1>2. ASSUME NEW url \in Url, Load(url) PROVE Located'
  <2>1. Here' = url /\ due' = TRUE
    BY <1>2, PushOne, ReplaceShows DEF Load
  <2> QED BY <1>0, <1>2, <2>1 DEF Load, Located, Path, InDashboard
<1>3. CASE Back
  BY <1>0, <1>3, LocatedMoves DEF Back, view
<1>4. ASSUME NEW url \in Url, Push(<<url>>), UNCHANGED <<role, path>>,
             url.page \notin InDashboard \/ ~due
      PROVE  Located'
  BY <1>0, <1>4, PushOne, LocatedMoves
<1>5. ASSUME NEW from \in Url, NEW url \in Url, Push(<<from, url>>), UNCHANGED <<role, path>>, ~due
      PROVE  Located'
  BY <1>0, <1>5, PushTwo, LocatedMoves
<1>6. CASE TurnAway \/ Logout
  <2>1. Here' = Home /\ due' = TRUE
    BY <1>6, ReplaceShows, Urls DEF TurnAway, TurnedAwayTo, Logout
  <2> QED BY <1>0, <1>6, <2>1, LocatedMoves DEF TurnAway, Logout, view, Home, InDashboard
<1>7. CASE ShowPublicPage
  BY <1>7 DEF ShowPublicPage, Unmount, Located, Here, InDashboard
<1>8. CASE CorrectRole
  <2>1. userRole \in Roles /\ Corrected(Here) \in Url /\ Corrected(Here).role = userRole
    BY <1>0, <1>8 DEF CorrectRole, HasSession, Corrected, Url, TypeOK
  <2>2. Here' = Corrected(Here) /\ due' = TRUE
    BY <1>8, <2>1, ReplaceShows DEF CorrectRole
  <2>3. Path(Here)' # Path(Here)
    BY <1>8, <2>1, <2>2 DEF CorrectRole, Path
  <2>4. role' # None
    BY <2>1, <1>8, PortalAssumption DEF CorrectRole
  <2> QED BY <1>8, <2>2, <2>3, <2>4 DEF CorrectRole, Located
<1>9. CASE ShowDashboard
  BY <1>9 DEF ShowDashboard, HasSession, SyncedSection, Located, Here, Path
<1>10. CASE ShowSection
  BY <1>10 DEF ShowSection, NewPath, SyncedSection, Located, Here, Path, InDashboard
<1>11. CASE FinishLogin
  <2>1. Main(Landing(RoleOf[signin]), "matches") \in Url
    BY <1>11, PortalAssumption, Urls DEF FinishLogin, Landing, TypeOK
  <2> QED BY <1>4, <1>11, <2>1 DEF FinishLogin, view
<1>12. ASSUME NEW t \in Tokens, ProfileRefused(t) PROVE Located'
  BY <1>4, <1>12, Urls DEF ProfileRefused, view, Home, InDashboard
<1>13. ASSUME NEW sec \in Sections, Select(sec) PROVE Located'
  <2>1. MenuRole \in Roles /\ (IF userRole # None THEN userRole ELSE role) \in Roles
    BY <1>13 DEF MenuRole, Roles, Select, TypeOK
  <2> QED BY <1>5, <1>13, <2>1, Urls DEF Select
<1>14. CASE OpenDetails
  BY <1>4, <1>14, Urls DEF OpenDetails, view, TypeOK
<1>15. CASE FinishAgreement
  <2>1. role \in Roles /\ RoleSegment(role) \in Roles
    BY <1>15 DEF FinishAgreement, RoleSegment, Roles, TypeOK
  <2> QED BY <1>5, <1>15, <2>1, Urls DEF FinishAgreement, view
<1>16. CASE UserActs
  <2>1. ASSUME NEW a \in Accounts, NEW sec \in Sections PROVE Main(RoleOf[a], sec) \in Url
    BY PortalAssumption, Urls
  <2> QED
    BY <1>0, <1>1, <1>2, <1>3, <1>6, <1>13, <1>14, <1>15, <1>16, <2>1, Urls
       DEF UserActs, OpenLogin, view
<1> QED
  BY <1>1, <1>6, <1>7, <1>8, <1>9, <1>10, <1>11, <1>12, <1>16 DEF Next, Effects, FailLogin,
     Expire, ProfileArrives, ElsewhereSignIn, ElsewhereSignOut, view, vars

-----------------------------------------------------------------------------
(* The session.                                                            *)

\* user_role and the tokens are written and removed together.
SessionWhole ==
    IF userRole = None THEN \A r \in Roles : stored[r] = 0 ELSE stored[userRole] # 0

\* The choice among several keys finds the first that holds a token.
LEMMA FirstOfFinds ==
    ASSUME NEW keys, NEW i \in DOMAIN keys, keys[i] \in Roles, stored[keys[i]] # 0,
           \A j \in DOMAIN keys : keys[j] \in Roles /\ stored[keys[j]] # 0 => i <= j
    PROVE  FirstOf(keys) # 0
<1> DEFINE found == {j \in DOMAIN keys : keys[j] \in Roles /\ stored[keys[j]] # 0}
           first == CHOOSE j \in found : \A k \in found : j <= k
<1>1. \E j \in found : \A k \in found : j <= k
  OBVIOUS
<1>2. first \in found
  BY <1>1
<1> QED BY <1>2 DEF FirstOf

LEMMA SessionHasTokens ==
    TypeOK /\ SessionWhole => SignedOutMeansNoToken
<1> SUFFICES ASSUME TypeOK, SessionWhole PROVE SignedOutMeansNoToken
  OBVIOUS
<1>1. CASE userRole = None
  <2>1. \A keys : FirstOf(keys) = 0
    BY <1>1 DEF FirstOf, SessionWhole
  <2> QED BY <1>1, <2>1 DEF SignedOutMeansNoToken, RouteToken, ApiToken, ProfileToken
<1>2. CASE userRole # None
  <2>1. userRole \in Roles /\ stored[userRole] # 0
    BY <1>2 DEF TypeOK, SessionWhole
  <2>2. RouteToken # 0
    <3> DEFINE keys == <<userRole, "both", "player", "coach", "referee", "club", "heyat">>
    <3>1. 1 \in DOMAIN keys /\ keys[1] = userRole /\ \A j \in DOMAIN keys : 1 <= j
      OBVIOUS
    <3> HIDE DEF keys
    <3>2. FirstOf(keys) # 0
      BY <2>1, <3>1, FirstOfFinds
    <3> QED BY <3>2 DEF RouteToken, keys
  <2>3. ProfileToken # 0
    <3> DEFINE keys == <<userRole, "both", "coach", "player", "referee", "club">>
    <3>1. 1 \in DOMAIN keys /\ keys[1] = userRole /\ \A j \in DOMAIN keys : 1 <= j
      OBVIOUS
    <3> HIDE DEF keys
    <3>2. FirstOf(keys) # 0
      BY <2>1, <3>1, FirstOfFinds
    <3> QED BY <3>2 DEF ProfileToken, keys
  <2>4. ApiToken # 0
    <3> DEFINE keys == <<"coach", "both", userRole>>
    <3>1. DOMAIN keys = 1..3 /\ keys[1] = "coach" /\ keys[2] = "both" /\ keys[3] = userRole
          /\ "coach" \in Roles /\ "both" \in Roles
      BY DEF Roles
    <3> HIDE DEF keys
    <3>2. FirstOf(keys) # 0
      <4>1. CASE stored["coach"] # 0
        BY <3>1, <4>1, FirstOfFinds
      <4>2. CASE stored["coach"] = 0 /\ stored["both"] # 0
        BY <3>1, <4>2, FirstOfFinds
      <4>3. CASE stored["coach"] = 0 /\ stored["both"] = 0
        <5>1. \A j \in DOMAIN keys : keys[j] \in Roles /\ stored[keys[j]] # 0 => 3 <= j
          BY <3>1, <4>3
        <5> QED BY <2>1, <3>1, <5>1, FirstOfFinds
      <4> QED BY <4>1, <4>2, <4>3
    <3> QED BY <3>2 DEF ApiToken, keys
  <2> QED BY <1>2, <2>2, <2>3, <2>4 DEF SignedOutMeansNoToken
<1> QED BY <1>1, <1>2

LEMMA SessionStep ==
    TypeOK /\ SessionWhole /\ TokensOfTheirRole /\ [Next]_vars
        => SessionWhole' /\ TokensOfTheirRole'
<1> SUFFICES ASSUME TypeOK, SessionWhole, TokensOfTheirRole, [Next]_vars
             PROVE  SessionWhole' /\ TokensOfTheirRole'
  OBVIOUS
<1>1. CASE UNCHANGED issued /\ UNCHANGED storage
  BY <1>1 DEF storage, SessionWhole, TokensOfTheirRole
<1>2. ASSUME NEW a \in Accounts, Issue(a) PROVE SessionWhole' /\ TokensOfTheirRole'
  <2>1. RoleOf[a] \in Roles /\ Len(issued) \in Nat
    BY PortalAssumption DEF TypeOK
  <2>2. SessionWhole'
    BY <1>2, <2>1, PortalAssumption DEF Issue, SessionWhole, TypeOK
  <2>3. ASSUME NEW r \in Roles, stored'[r] # 0 PROVE RoleOf[issued'[stored'[r]]] = r
    <3>1. CASE r = RoleOf[a]
      <4>1. stored'[r] = Len(issued) + 1 /\ issued'[Len(issued) + 1] = a
        BY <1>2, <2>1, <3>1 DEF Issue, TypeOK
      <4> QED BY <3>1, <4>1
    <3>2. CASE r # RoleOf[a]
      <4>1. stored'[r] = stored[r] /\ stored[r] \in 1..Len(issued)
        BY <1>2, <2>1, <2>3, <3>2 DEF Issue, TypeOK
      <4>2. issued'[stored[r]] = issued[stored[r]]
        BY <1>2, <4>1 DEF Issue, TypeOK
      <4> QED BY <2>3, <4>1, <4>2 DEF TokensOfTheirRole
    <3> QED BY <3>1, <3>2
  <2> QED BY <2>2, <2>3 DEF TokensOfTheirRole
<1>3. CASE stored' = NoTokens /\ userRole' = None
  BY <1>3 DEF NoTokens, SessionWhole, TokensOfTheirRole
<1>4. CASE Forget
  BY <1>3, <1>4 DEF Forget, ListedKeys, NoTokens
<1>5. CASE Effects
  BY <1>1, <1>5 DEF Effects, ShowPublicPage, TurnAway, CorrectRole, ShowDashboard, ShowSection, server
<1>6. CASE UserActs
  BY <1>1, <1>4, <1>6 DEF UserActs, Load, Back, OpenLogin, Logout, OpenDetails,
     FinishAgreement, Select, server
<1> QED
  BY <1>1, <1>2, <1>3, <1>4, <1>5, <1>6 DEF Next, FinishLogin, FailLogin, Expire, ProfileArrives,
     ProfileRefused, ElsewhereSignIn, ElsewhereSignOut, server, storage, vars, TypeOK

-----------------------------------------------------------------------------
PortalInv == TypeOK /\ Located /\ SessionWhole /\ TokensOfTheirRole

LEMMA PortalInit == Init => PortalInv
<1> SUFFICES ASSUME Init PROVE PortalInv
  OBVIOUS
<1>1. history \in Seq(Url) /\ Len(history) = 1 /\ Here = Home
  <2>1. history = <<Home>> /\ Home \in Url
    BY Urls DEF Init
  <2>2. <<Home>> \in Seq(Url) /\ Len(<<Home>>) = 1 /\ <<Home>>[1] = Home
    BY <2>1
  <2> QED BY <2>1, <2>2 DEF Here
<1>2. TypeOK
  <2>1. issued \in Seq(Accounts) /\ Len(issued) = 0
    BY DEF Init
  <2>2. stored \in [Roles -> 0..Len(issued)]
    BY <2>1 DEF Init, NoTokens
  <2>3. Len(history) > 0 /\ "matches" \in Sections
    BY <1>1, PortalAssumption
  <2> QED BY <1>1, <2>1, <2>2, <2>3 DEF Init, TypeOK
<1>3. Located
  BY <1>1 DEF Init, Located, Home, InDashboard
<1>4. SessionWhole /\ TokensOfTheirRole
  BY DEF Init, NoTokens, SessionWhole, TokensOfTheirRole
<1> QED BY <1>2, <1>3, <1>4 DEF PortalInv

\* The inductive invariant of the portal.
THEOREM PortalInductive == Spec => []PortalInv
<1>1. Init => PortalInv
  BY PortalInit
<1>2. PortalInv /\ [Next]_vars => PortalInv'
  BY TypeStep, LocatedStep, SessionStep DEF PortalInv
<1> QED BY <1>1, <1>2, PTL DEF Spec

\* A token is stored under the role of its account (LoginModal.jsx).
THEOREM TokensCorrect == Spec => []TokensOfTheirRole
<1>1. PortalInv => TokensOfTheirRole
  BY DEF PortalInv
<1> QED BY <1>1, PortalInductive, PTL

\* The functions that pick a token find one exactly during a session
\* (PrivateRoute.jsx, api/competitions.js, Dashboard.jsx).
THEOREM SignedOutEverywhere == Spec => []SignedOutMeansNoToken
<1>1. PortalInv => SignedOutMeansNoToken
  BY SessionHasTokens DEF PortalInv
<1> QED BY <1>1, PortalInductive, PTL

\* A settled dashboard shows the role and the section of its address (Dashboard.jsx).
THEOREM AddressShown == Spec => []ShowsItsAddress
<1>1. PortalInv => ShowsItsAddress
  BY DEF PortalInv, Located, ShowsItsAddress, InDashboard
<1> QED BY <1>1, PortalInductive, PTL

\* A session ends when somebody signs out or the server has refused a token
\* (Dashboard.jsx, api.js).
THEOREM SessionEndsProperly == Spec => SessionEndsForAReason
<1> DEFINE Reason == userRole # None /\ userRole' = None
                       => Logout \/ ElsewhereSignOut \/ \E t \in expired : t \in asked \cup orphans
<1>1. TypeOK /\ [Next]_vars => Reason
  <2> SUFFICES ASSUME TypeOK, [Next]_vars, userRole # None, userRole' = None
               PROVE  Logout \/ ElsewhereSignOut \/ \E t \in expired : t \in asked \cup orphans
    OBVIOUS
  <2>1. ~UNCHANGED storage
    BY DEF storage
  <2>2. ASSUME NEW a \in Accounts, Issue(a) PROVE FALSE
    BY <2>2, IssueTypes, PortalAssumption
  <2>3. ~Effects
    BY <2>1 DEF Effects, ShowPublicPage, TurnAway, CorrectRole, ShowDashboard, ShowSection
  <2>4. UserActs => Logout
    BY <2>1 DEF UserActs, Load, Back, OpenLogin, OpenDetails, FinishAgreement, Select
  <2>5. ASSUME NEW t \in Tokens, ProfileRefused(t)
        PROVE  \E u \in expired : u \in asked \cup orphans
    BY <2>5 DEF ProfileRefused, Refusal
  <2> QED
    BY <2>1, <2>2, <2>3, <2>4, <2>5 DEF Next, FinishLogin, FailLogin, Expire, ProfileArrives,
       ElsewhereSignIn, storage, vars, TypeOK
<1>2. PortalInv => TypeOK
  BY DEF PortalInv
<1>3. Spec => [][Reason]_vars
  BY <1>1, <1>2, PortalInductive, PTL DEF Spec
<1> QED BY <1>3 DEF SessionEndsForAReason
=============================================================================
