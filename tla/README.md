# TLA+ models of the federation's competition platform

The repository is a Django back end (`src/tkdjango`) and a React client
(`src/tkdfrontend`) for a taekwondo federation: members and clubs join and are
approved, coaches enrol students in competitions, staff draw and number the
brackets, results and points are recorded. This directory models the logic of
both in TLA+, checks it with TLC and proves much of it with TLAPS.

`PROJECT.json` lists the components, the runs, the mutations that each property
finds, the source lines of every definition, the hazards and the theorems.

Paths below: `CB` = `Login/competitions/CompetitionBracket.jsx`, `CD` =
`Login/competitions/CompetitionDetails.jsx`, both under
`src/tkdfrontend/src/components`.

## 1. Inventory

| Component | State | Operations | Interacts with |
|---|---|---|---|
| Kyorugi registration (`competitions/views.py`, `serializers.py`, `models.py`) | `Enrollment` rows, the window, coach approvals | self registration with a coach's code, a coach's bulk registration, `mark_paid` | the signal; approvals; scores |
| Participation points (`models.py` 663-738, `signals.py`) | `RankingAward` rows, scores of players, coaches, clubs, boards; callbacks held in memory | `post_save` signal, `on_commit` callback, one insert and four `F()` updates | every save of a paid enrollment |
| Kyorugi draw (`services/draw_service.py`, `admin.py` 420-560) | `Draw`, `Match`, `FirstRoundPairHistory` | count and size, BYE slots, penalty search, re-draw, yearly cleanup | enrollments; earlier draws |
| Numbering and publication (`numbering_service.py`, `admin.py` 598-735, `views.py` 1050-1110, `CB`) | `Match.mat_no`, `match_number`, `MatAssignment`, `bracket_published_at`; the board on the page | number, number again, clear, publish, show, draw the board | draws |
| Kyorugi results (`services/results_service.py`) | results, `RankingTransaction`, medal counters | apply and re-apply results | fires the award signal; shares rows with profile edits |
| Coach approvals (`views.py` 626-694, `models.py` 315-435, `CD`, `CoachAgreementFlow.jsx`) | `CoachApproval` (code, terms, active); two windows of the client | approve, refresh the code, staff edits | self registration |
| Onboarding (`accounts/views.py` 165-461, `accounts/admin.py`, registration pages) | applications, members, clubs, logins; the forms | fill in, apply, approve in three ways, delete | phone codes |
| Phone verification and password reset (`accounts/views.py` 96-163, 1466-1597, two windows) | `SMSVerification` rows; countdowns | send, verify, reset | onboarding |
| Coach and club requests (`accounts/views.py` 901-992, two pages and one that never works) | `CoachClubRequest`, `coaching_clubs`; lists loaded by the pages | choose clubs, request, answer | profiles |
| Profile edits (`accounts/views.py` 695-833, `PersonalInfoForm.jsx`) | pending edits, `UserProfile`; the form | fill in, submit, approve | scores in the same row |
| Sign-in and dashboards (`LoginModal`, `PrivateRoute`, `Dashboard`, `Sidebar`, `App.js`) | tokens and role in `localStorage`, history, sections | sign in and out, navigate, expire | every page |
| Seminars, Poomsae, payments, reports, news, cards, lists | see section 8 | | |

Every request handler is a thread or process of its own over one database.
`ATOMIC_REQUESTS` is not set, so a handler without `@transaction.atomic` commits
each statement by itself. Signals run inside the saving transaction; what they
pass to `transaction.on_commit` runs after the commit, outside any transaction.
The pages of the client send requests whose answers arrive in any order, after
the page has changed, or never.

What is hard: callbacks that are lost with their process or test a stale cache;
counts and rows that are read in one statement and used in a later one; rows
written back whole; approvals that stop half way; requests sent twice; late
answers; draws, numberings and mat assignments in any order; tokens of earlier
sessions. What makes each part correct is said with the runs below. The hazards,
each at its line, are in `PROJECT.json`; two have no property: whole lists that
are submitted stale or unread (section 7), and the second seminar handler (section
8).

## 2. Plan and how the modules build on each other

    ParticipationLedger <= Enrollment                      EnrollmentProofs
    FirstRound -> OrderSearch
               -> Brackets -> BracketBoard                 BracketsProofs (all four)
    KyorugiResults -> ProfileEdits -> ProfileForm  <- Requests   ProfileFormProofs
    CoachClubs -> ClubPages                        <- Requests   ClubPagesProofs
    CoachApprovals -> CompetitionPage              <- Requests   CompetitionPageProofs
    PhoneCodes -> Accounts                         <- Requests   AccountsProofs
    Portal                                                 PortalProofs
    RegisterWizard                                         RegisterWizardProofs

`->` is EXTENDS, `<=` is implemented by. The plan started from the core of the back
end (registration and its points), went to the draw and its numbering, then to the
handlers that are not transactions, and last to the client, composed with the
handlers it calls. What is left: a `Students` page (the coach's bulk registration
in the client) and several tables at once for the results.

## 3. The modules

### Enrollment and ParticipationLedger

One Kyorugi competition. `enrollments` (positions are ids), `awards` (ids with a
`RankingAward`), `approved` (coaches with an active, accepted approval), scores in
quarter points. `hooks[w]` are the `on_commit` callbacks worker `w` still has to
run, `stage[w]` the next statement of the first. A registration request is
`@transaction.atomic`, hence one action (`RegisterSelf`, `CoachRegister`): the
database of the settings is SQLite, whose transactions are serializable. No key on
(competition, player) stands behind it. The callback is one action per statement:
`AwardCreate` (insert), `AwardRefused` (the one-to-one key raises and drops the
queue behind), `AwardCredit` (one `F()` update). `SaveMedals` is the part of the
results service that fires the signal again. `Crash` forgets a worker's
callbacks. Players are eligible; the window is two free Booleans, because self
registration tests the dates as well as the effective state. `SimulatePaid` holds
the values of `simulate_paid` (payments are off in the settings).
`ParticipationLedger` is the promise: a paid enrollment is awarded at most once
and for good.

### FirstRound, OrderSearch, Brackets, BracketBoard

`FirstRound` is pure: sizes, BYE patterns, seats, costs, and the orders in which
entries can be dealt. `OrderSearch` is the search loop; each turn picks any order.
In `Brackets`, `draws[g]` is the draw of a group with its matches keyed by round and
index, or `NoDraw`. A draw is two actions, since the
page's count and the service's reading are two queries: `CountEntrants`, then
`StartDraw`. Each draw chooses whether it is 1 Farvardin (`newYear`), the day on
which all histories are emptied; `cleared` is the newest draw at that moment.
`Number` is one call for some weights, with the missing rounds it makes;
`ClearNumbers`, `AssignMats`, `Publish`, `Unpublish` are the other buttons.
`BracketBoard` is what the client draws from the rows: five columns of cells filled
with names, BYEs carried on, the path of a single player, and the numbers.

### KyorugiResults, ProfileEdits, ProfileForm

`Announce` is `apply_results_and_points`, one transaction: the transactions of a
result are taken back, deleted and made for the new podium; what a subject gets is
a number of medals of each colour, worth points. `ProfileEdits` adds
`approve_edited_profile`, which has none: `BeginApproval` reads the row,
`SaveProfile` writes every column, `DeleteEdit` deletes the edit, and the process
may die in between; `overwritten` is a history variable. `ProfileForm` adds the
member's form with its loaded base, its locked club, dependent lists and late coach
lists, the edit row the server keeps of it, and the approval from the page or from
the list. A behaviour follows either the results or one member's form, which the
handlers relate only by reading and writing both groups of columns at once.

### CoachClubs and ClubPages

`requests` is one status per coach, club and type (their unique key). The club's
handler is a loop of statements (`SelectCoaches`, `CheckCoach`, `RequestAdd`,
`RequestRemove`); the coach's answer is `BeginAnswer`, `ApplyAnswer`,
`SaveAnswer`. `ClubPages` adds the coach's choice of clubs and the club's
selection: each loads lists, lets boxes be changed, and submits what it holds,
loaded or not. With the pages the server still behaves as `CoachClubs` (proved).
The page on which the coach would answer (`CoachRequests.jsx`) is not modelled: its
list is answered by `PendingCoachRequestsView`, which names
`CoachClubRequestSerializer` (`accounts/views.py` 962) although `views.py` 34-40 does
not import it, so every request for it ends with a 500 and the page shows nothing.
The handler of the answers works, and is called in `Elsewhere`.

### CoachApprovals and CompetitionPage

The approval row of one coach, the agreement on the way to a competition and the
window of the code on its page, each request and answer by itself; and the form
with which a player registers with that code, in Kyorugi and in Poomsae.

### Requests, PhoneCodes, Accounts

`Requests` is the client's traffic: a request is sent, handled and answered in
three steps; the answer of a page that was left is dropped, its effect is not.
`PhoneCodes` are the codes of one phone with their age, and the two windows that
count down. `Accounts` are the applications: storing (with its two rows),
approving from the page, from the list or as a club, statement by statement with a
crash between any two, and deleting.

### Portal

One tab, the `localStorage` it shares with others, and the tokens of the server.
`Effects` are the redirects and effects of an address; a user's action waits for
them, other tabs and late answers do not.

### RegisterWizard

The forms of players, coaches with referees, and clubs: entries, the validation of
each step, going back, the lookup of national codes, and what the server makes of
the application. An entry may be *empty*, *wrong* for its step, *unfit* (blanks only,
too long for its column, a picture that is none), *padded*, *misnamed* or *known*;
`Refuses` says which the server turns down on each form. What the page cannot know is
free: `Post` may always end in `refused` (a phone or a club's name in use, a code
registered since, a row that is gone) or in `failed` (an answer lost, an error after
the row was stored). `open` are the steps tried in every way; the others are filled
in well.

## 4. Runs

| Run | Instance | Shows | States |
|---|---|---|---|
| EnrollmentPoints | 2 players (one also the coach), 2 workers, 2 enrollments, lists and podiums of up to 2, 1 crash | one enrollment per player; a credit needs its award row; every score reconciles with the rows up to what a crash interrupts; refinement of `ParticipationLedger` | 108 thousand |
| EnrollmentDelivery | the same, no crash, no results, fair workers | every payment is eventually awarded | 2.7 thousand |
| EnrollmentPointsOnce | the same | **violated**: `mark_paid` and the callback both add points | |
| OrderSearch | tables of 4 and 8 with up to five players, one of each pattern size up to 64 | the best order tried is returned, repeats before clubs; BYEs are spread evenly, players fill the rest; the search ends | 32 thousand |
| Brackets | groups of 3 and 2 players, 2 mats, 2 draws, manual sizes 3 and 8 | everyone seated once; pairs remembered until the new year; no match before its feeders; mats count from 1; the page shows the seats, BYEs and numbers of the draw | 365 thousand |
| ProfileEdits | 3 enrollments in 2 weights, 4 podiums, 1 approval; forms with 1-2 submissions | standings are those of the podiums but for overwritten rows; an edit that was acknowledged waits or is in the profile; a form that shows nothing to submit shows what the server had; places are consistent and titles graded | 348 thousand |
| ClubPages | 1 coach, 3 clubs, limit 2, 1 club asks, 1 request of the page, 2 other tabs | only a club that asked takes a coach past the limit, or gets his choice refused for its length; answers are final | 906 thousand |
| CoachClubsLimit | 1 coach, 4 clubs, 2 ask, 2 tabs | **violated**: the limit of three | |
| CompetitionPage | 2 styles, 2 codes, 2 requests, 2 enrollments | every code shown admits players; a player stands once; no form waits for ever | 224 thousand |
| Accounts | 2 codes, 2 texts, window of 2 ticks, 2 people, 1 member of staff, 2 requests | an acknowledged application is never lost; a window offers a new code some day | 533 thousand |
| Portal | a player and a coach in one browser, 2 tokens, 3 history entries | tokens under their role; signed out means no token is found; the page is that of its address; sessions end for a reason; redirects come to rest | 216 thousand |
| RegisterWizard | 3 forms, 2 provinces, ages 3, 21 and 22, 2 kinds, any 2 steps in every way | passed steps stay complete; when the server refuses, all that the steps ask for is there | 5.5 million |

Why the bounds are enough. Two workers and two enrollments give every overlap of
the award's five statements and a queue behind its head; one crash gives every
point of interruption. Two draws give a re-draw of one group and a draw of each;
three players in four slots give one BYE, a table of eight three rounds and empty
first matches; the BYE patterns are checked for every ready-made size. One approval
overwrites announcements before and after it. `Limit` is 2 with three clubs in
ClubPages, as the limit enters only by comparison; one page is followed at a time
with one request, and what a request left under way would do, other tabs do in
`Elsewhere`, where any list may be submitted at any moment; two answers may overlap.
Elsewhere two requests under way overtake each other. One client is followed at a
time in CompetitionPage and Accounts (`Tabs`), since the two meet in the server's
row alone, which the other one's steps still change. In ProfileEdits one group of
columns is varied per behaviour (`MCTries`); no handler relates two groups. In
RegisterWizard two open steps show a later step relying on an earlier one, and the
ages lie on either side of what a player, a woman and a man must be; a second post
after a success is left out. Three history entries hold the dead one
and a return over it. The windows of three minutes are two ticks.

Fairness. `Enrollment`: a live process runs the callbacks it has committed to.
`OrderSearch`: the loop goes on. `CompetitionPage`: a request that was sent is
handled and answered or fails (`Progress`; `fetch` always settles). `Accounts`: time
passes. `Portal`: React runs the effects of a location. No user, member of staff
or request is ever assumed to act. Deadlock is checked everywhere but in
`OrderSearch`, whose loop ends.

## 5. Proofs

Eight modules prove, for every value of the constants that meets the named
assumptions, every invariant and every action property that a passing run checks
on one instance. Each defines an inductive invariant that strengthens the
properties; why the properties alone do not do:

* **EnrollmentProofs** (`IInv`): that an award only ever goes to a paid row needs
  `QueuedArePaid`; that a worker starts at the insert needs `IdleAtStart`; two
  workers past the insert for one row are excluded because the second would have
  needed the row to be absent. Then `OneEnrollmentPerPlayer`, `CreditNeedsAward`,
  `CreditedOnce` and the refinement. `ScoresReconciled` proves `LedgerReconciled`
  as a whole: what is due to a player, coach or club is counted with `Cardinality`
  of its rows, what is on its way with that of the workers that have still to
  credit it (`CreditorsOf`), and a lemma per action says how the step moves each
  count. Each crash loses at most three credits of a total.
* **BracketsProofs**, for tables of every size.
  * Draws and numbers (`TablesInv`, `BracketsInv`): `BoutsInOrder`,
    `PairsRemembered`, `TypeOK`. A match has a number only from its position in the
    queue of its mat; the queue is ordered lexicographically, so a position grows
    with the rank, and a match ranks after its feeders, which are in an earlier
    round. A match outside the queue has lost its number, which needs that a draw
    with two players keeps two (`TableOK`). `WholeScheduleInOrder` needs besides
    that no two matches rank equal (`RanksDiffer`), so that the positions of a queue
    are exactly 1 to n (`PositionsAreDense`).
  * Seats: `EveryoneSeatedOnce` counts. The BYEs are a prefix of an order that
    names no slot twice, ready-made or not (`ByeOrderIsInjective`), so as many slots
    stay open as there are players (`OpenSlots`), and dealing an order to them in
    turn meets each player once (`SlotsAreSeats`).
  * The search (`SearchInv`): `RepeatsOutweighClubs`. That the fold over the pairs
    is 100 per repeat and 1 per clash (`CostIsWeighted`) cannot go by induction
    over data; the fold's defining equation has a second solution, the count, and a
    smallest set on which the two differed would have an element to remove
    (`FoldIs`). The theorem assumes tables of less than 200 slots: with a hundred
    matches the clashes can outweigh a repeat. `SearchSettles` is what lets
    `Brackets` take any order of the entries.
  * BYEs: `ByesAreSpread` for the six ready-made patterns, whose slots alternate
    between the halves of the table and hit each match once in the first half but
    one (`Alternates`). Other sizes have no such pattern: three BYEs on a table of
    128 leave its last match empty (slots 127 and 128).
  * The board (`BoardInv`): the client finds players by name and round, so
    `BoardShowsTheDraw` and `BoutsWearTheirNumbers` need that the whole first round
    is there, that players sit in no later one and in one seat each, and that
    nobody is entered twice. The property is about tables of up to 32 slots without
    homonyms, which is what the board can show.
* **ProfileFormProofs** (`EditsInv`, `FormInv`): `StandingsFollowPodiums` needs that
  the transactions of a result are exactly those of its podium (`RowsArePodium`);
  then taking back the old rows and adding the new ones moves each count by the
  difference. `DriftOnlyByApproval` follows. The form implements `ProfileEdits`
  (`FormImplementsEdits`), so both carry over. `AcknowledgedEditIsKept` needs that
  every approval under way has read the acknowledged edit, and that one which has
  saved has put it into the profile (`AckedIsKept`). The proof showed which edits
  an acknowledgment can promise to keep: an approval that has already saved also
  deletes a later submission with the same contents (section 7).
  `NothingLooksSubmitted` and `ProfileIsSound` need what each answer and each held
  content may be (`FormTyped`).
* **ClubPagesProofs** (`IInv` for the handlers, `PagesInv` with the pages):
  `LimitWithoutRequests`, `AnswersAreFinal`. The limit needs `AnswersHaveRows`:
  without it `ApplyAnswer` could add a club that never asked. With the pages the
  server still implements `CoachClubs` (`PagesImplement`), so the limit carries
  over. `RefusedOnlyByAsked` is about lists that are old by the time they arrive: of the
  clubs that never asked, every list that the server reads, the page holds or a
  request carries names at most three (`ListsAreFew`); the server's own list because
  of the limit, the boxes because a box can be ticked only below it, and a club that
  asked never counts as one that did not (`NeverAsked`).
* **CompetitionPageProofs** (`PageInv`, `RowsInv`): `ShownCodeAdmits`: as long as
  staff leave the row alone, every code in the client or on its way there is that
  of the row. `OneStandingEnrollment`: in Kyorugi the handler looks at the rows that
  stand, in the other styles at all rows of a type, so what keeps rows apart
  depends on the style.
* **AccountsProofs** (`TypedInv`, `KeptInv`): `AcknowledgedIsKept`: an approval that
  is about to delete has created, and one that is not outdated would delete the very
  row it read (`Approving`). `TypeOK` needs what requests and answers carry
  (`Carries`) and that nobody waits for a registration window that was closed
  (`Waits`): an answer that reopened it would leave a window without a role.
* **PortalProofs** (`PortalInv`): `TokensOfTheirRole`, `SignedOutMeansNoToken`,
  `ShowsItsAddress`, `SessionEndsForAReason`, for histories of any length. A
  session has a token under its role (`SessionWhole`), and the dashboard's path is
  that of its address once effects have run (`Located`).
* **RegisterWizardProofs** (`WizardInv`): `StepsBeforeAreComplete` and
  `RefusedBeyondTheSteps`. No two steps of a form show the same field (`StepsApart`),
  a step changes only what it shows (`OnlyStep`), the chosen place exists as far as
  it is chosen (`PlaceExists`), and a refused application is that of a valid last
  step. The assumption is that no province, county or city is called `None`.

Model-checked only: the five liveness properties (`PaidIsAwarded`,
`EndsWithAnOrder`, `EveryWaitEnds`, `ResendIsOffered`, `AddressSettles`), which are
out of the prover's reach, and the two properties found violated.

## 6. Where code and documentation disagree

Two runs find a violation, listed under `findings`: points are given twice
(`models.py` 529 against its comment 528 and 692), and a coach gets a fourth club
(`accounts/views.py` 980 against the answer at 912).

## 7. Observed without a run of their own

Draw and numbering:
* The table is sized from the page's count; a registration in between, or a manual
  size that is too small, leaves a player without a seat (`draw_service.py` 228
  says it is enlarged).
* Weights of one mat numbered in two calls get the same numbers (`models.py` 621).
* A match keeps its `mat_no` when its weight is moved (`models.py` 618).
* A draw of two players with two BYEs is shown with nothing numbered.
* `admin.py` 427 promises the same-club rule from the threshold on,
  `draw_service.py` 92 applies it above.
* A draw on 1 Farvardin forgets even the pairs it has just stored.
* The penalties 100 and 1 put repeats before clubs only below a hundred first-round
  matches (`draw_service.py` 14-16).
* On the ready-made table of 16 exactly eight BYEs leave a match empty (slots 5
  and 6); on a table of 128 three do (slots 127 and 128).
* On the board homonyms look like one player (`CB` 143), a table of 64 loses its
  first round (`CB` 63), and unnumbered matches get fallback numbers next to
  numbered ones (`CB` 208).

Results and profiles:
* An approval undoes points given between its read and its save
  (`accounts/views.py` 829); an enrollment that loses its place keeps its medal
  (`results_service.py` 112).
* The form resubmits all it loaded, so approving a stale form reverts later
  changes; a second edit from a fresh page drops the first one's other changes.
* An approval that has saved but not yet deleted removes a second submission of the
  same contents too, even if another approval wrote the profile in between.
* "Coach cannot be himself" is answered after the edit was stored; a member
  without a club sends "-" and is refused; an emptied club is not applied.
* The list action `PendingEditsAdmin.approve` applies no place, name of the
  father, gender or role.

Clubs:
* A club whose request was answered before is told its request is registered
  (`accounts/views.py` 953), but the answered row stays as it is.
* `GET` of the coach's requests always ends with a 500 (`accounts/views.py` 962), so
  the coach cannot answer from the page, only through the endpoint behind it.
* The button of a club page works before its list has loaded, or after loading it
  has failed, and then sends an empty one: for a coach that leaves every club, for a
  club it asks every coach to leave. A stale page overwrites memberships accepted
  elsewhere. No property covers either: what is sent is the whole list, with nothing
  to compare it with.
* A coach with four clubs cannot save his choice until he is down to three, even if
  he has changed nothing. "Yes" twice sends twice.

Competition page:
* The first approval answers without a code (another instance holds it).
* A late status answer reopens a closed code window. The agreement takes an active
  row without code for approved and stops there. Approving reactivates a row that
  staff deactivated.
* The prefill erases typed entries but keeps the tick; pressing "register myself"
  again enables the button while a submission is under way. After a Poomsae
  registration the card is not updated; a canceled row can hide a standing one.
* Client and server differ in the limits of the insurance date, and in whether
  coaches need a code.

Accounts:
* The reset window keeps its first step on a 429; one wrong code deletes all codes
  while the client counts on; `is_expired` (five minutes) is unused.
* A second person's application on a member's phone is accepted and can never be
  approved; the list actions set no password and drop the coach;
  `approve_pending_club` fails once the login exists; a double click applies twice.
* The forms keep a coach of another gender or club; a late coach list overwrites;
  hidden entries of a former role are sent; the flag of a known code is lost when
  the step is shown again.
* The server refuses what no step looks at: blanks only, entries too long for their
  column (`accounts/models.py` 79-230), a padded address, a coach's photo not named
  `.jpg` (`serializers.py` 133), a phone or a club's name in use (108-121, 215-219,
  `models.py` 215).
  That a coach may not be his own is answered after the application was stored
  (`accounts/views.py` 294); `validate_phone` refuses a member's phone before, so
  this takes a member who appears in between.
* `MultiStepForm` imports files that do not exist.

Portal:
* `pickToken` prefers a coach's token left from an earlier sign-in; a late 401 of
  an older token ends a newer session; a tab in the background signs the active one
  out; finishing the agreement leaves a dead entry in the history; a menu click
  writes two.

## 8. Not modelled

* **Seminars**: one `get_or_create` on a pair that is unique in the database; a second,
  unused handler registers without the checks. No step depends on another.
* **Payments**: nothing creates a `PaymentIntent`; the endpoint only refuses.
* **Old schedule service**: imported by nothing, and reads fields that do not exist.
* **Poomsae** beyond self registration and approvals: it has no draw and no
  numbering. Its `mark_paid` (`models.py` 1370-1402) adds points once, as Kyorugi's
  does, and no signal adds them again: `signals.py` names `Enrollment` only.
* **Registration window**: its dates and override are two free Booleans.
* **Reports, news, dashboards' numbers, serializers, cards, lists**: reads and
  formatting.
* **The coach's bulk registration page**: the server side is `CoachRegister`; the
  page ignores the server's errors per student, and a retry after a lost answer is
  told that ids are missing.
* Inside the modelled parts: eligibility by belt, weight, gender and insurance;
  wording; clubs in an approved edit (the form sends none); the Jalali conversion
  (`CD` 95-136).
