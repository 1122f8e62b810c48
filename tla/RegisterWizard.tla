--------------------------- MODULE RegisterWizard ---------------------------
(***************************************************************************)
(* The registration pages of players, coaches with referees, and clubs:    *)
(* forms of three or four steps that validate what they hold when they are *)
(* left forwards, and the rules the server applies to what is sent.        *)
(*                                                                         *)
(* Entries that are only looked at one by one are told apart as empty,     *)
(* wrong for the step that shows them, unfit for the server alone, or      *)
(* fine; the ones that depend on each other have their values.             *)
(***************************************************************************)
EXTENDS Integers, Sequences, FiniteSets

CONSTANTS
    Forms,         \* the pages: "player", "coach", "club"
    Cities,        \* provincesData: the cities of each county of each province
    Ages,          \* bound: ages that are tried
    Kinds,         \* the kinds of refereeing
    MaxOpen        \* bound: steps of a form whose entries are tried in every way

None == "none"   \* nothing is chosen

ASSUME WizardAssumption ==
    /\ Forms \subseteq {"player", "coach", "club"}
    /\ DOMAIN Cities # {} /\ \A p \in DOMAIN Cities : DOMAIN Cities[p] # {}
    /\ \A p \in DOMAIN Cities : \A c \in DOMAIN Cities[p] : Cities[p][c] # {}
    /\ None \notin DOMAIN Cities /\ \A p \in DOMAIN Cities : None \notin DOMAIN Cities[p]
    /\ \A p \in DOMAIN Cities : \A c \in DOMAIN Cities[p] : None \notin Cities[p][c]
    /\ Ages \subseteq Nat \ {0} /\ MaxOpen \in Nat

VARIABLES
    form,      \* the page
    open,      \* the steps tried in every way; the others are filled in well
    step,      \* the step shown
    data,      \* formData
    checks,    \* national codes whose lookup has not been answered
    flagged,   \* nationalCodeExists, of the first step as it is mounted
    posted     \* what the page was told of the application: "none", "stored",
               \* "refused" by the server, or "failed" on the way

vars == <<form, open, step, data, checks, flagged, posted>>

\* The entries of each step that are validated on their own.
PlayerSteps ==
    << {"names", "national_code"},
       {"address", "profile_image"},
       {"tkd_board", "belt", "belt_certificate_number", "confirm_info"} >>

CoachSteps ==
    << {"names", "national_code"},
       {"address", "profile_image"},
       {"belt", "belt_certificate_number"},
       {"confirm_info"} >>

ClubSteps ==
    << {"club_and_founder", "founder_national_code", "club_type", "activity_description"},
       {"tkd_board", "phone", "address"},
       {"license_number", "federation_id", "license_image", "confirm_info"} >>

StepFields == [player |-> PlayerSteps, coach |-> CoachSteps, club |-> ClubSteps]

Fields == UNION {UNION {StepFields[f][k] : k \in DOMAIN StepFields[f]} : f \in Forms}
LastStep == Len(StepFields[form])
Steps == 1..LastStep

Chosen == {"tkd_board", "belt", "club_type", "confirm_info"}
Unread == {"club_and_founder", "federation_id"}   \* only asked for by their step

\* What no step looks at: a name of blanks only or too long for its column, a
\* file with a picture's type that is none.
CanBeUnfit ==
    {"names", "address", "profile_image", "belt_certificate_number",
     "club_and_founder", "license_number", "federation_id", "license_image"}

\* A padded address is long enough with its blanks only; a misnamed photo is a
\* JPEG whose name does not end so; a known national code is that of a member
\* or of an applicant.
Values(field) ==
    {"empty", "fine"}
    \cup (IF field \in Chosen \cup Unread THEN {} ELSE {"wrong"})
    \cup (IF field \in CanBeUnfit THEN {"unfit"} ELSE {})
    \cup (IF field = "address" THEN {"padded"} ELSE {})
    \cup (IF field = "profile_image" THEN {"misnamed"} ELSE {})
    \cup (IF field = "national_code" THEN {"known"} ELSE {})

NoType == [selected |-> FALSE, grade |-> FALSE]

Blank ==
    [entry |-> [f \in Fields |-> "empty"], age |-> 0, gender |-> None,
     province |-> None, county |-> None, city |-> None,
     role |-> "coach", clubs |-> 0, club |-> None, coach |-> None, custom |-> "empty",
     grade |-> FALSE, types |-> [t \in Kinds |-> NoType]]

Init ==
    /\ form \in Forms
    /\ open \in {S \in SUBSET Steps : Cardinality(S) <= MaxOpen}
    /\ step = 1 /\ data = Blank /\ checks = {} /\ flagged = FALSE /\ posted = "none"

-----------------------------------------------------------------------------
(* What the steps validate.                                                *)

IsCoach == data.role \in {"coach", "both"}
IsReferee == data.role \in {"referee", "both"}

PlayerOldEnough == data.age >= 4
CoachOldEnough == data.age >= (IF data.gender = "female" THEN 21 ELSE 22)
OldEnough == IF form = "player" THEN PlayerOldEnough ELSE CoachOldEnough

Selected == {t \in Kinds : data.types[t].selected}

\* Mutation: a grade for one of the kinds is enough.
GradedOnce == \E t \in Selected : data.types[t].grade

Graded == Selected # {} /\ \A t \in Selected : data.types[t].grade

Entered(fields) == \A f \in fields : data.entry[f] \notin {"empty", "wrong"}

ValidPerson == data.age # 0 /\ data.gender # None /\ ~flagged /\ OldEnough
ValidPlace == None \notin {data.province, data.county, data.city}

ValidPlayerSport == None \notin {data.club, data.coach}

ValidCoachSport ==
    /\ data.role # None /\ data.clubs >= 1 /\ data.coach # None
    /\ data.coach = "other" => data.custom # "empty"

ValidGrades == (IsCoach => data.grade) /\ (IsReferee => Graded)

Valid ==
    /\ Entered(StepFields[form][step])
    /\ form # "club" /\ step = 1 => ValidPerson
    /\ step = 2 => ValidPlace
    /\ form = "player" /\ step = 3 => ValidPlayerSport
    /\ form = "coach" /\ step = 3 => ValidCoachSport
    /\ form = "coach" /\ step = 4 => ValidGrades

-----------------------------------------------------------------------------
(* Filling in.                                                             *)

Store(new) == data' = new /\ UNCHANGED <<form, open, step, checks, flagged, posted>>

Kept == {"profile_image"}   \* choosing no file keeps the one that was chosen

Type(field, value) ==
    /\ ~(field \in Kept /\ value = "empty")
    /\ data' = [data EXCEPT !.entry[field] = value]
    /\ checks' = IF field = "national_code" /\ value \in {"known", "fine"} THEN checks \cup {value}
                 ELSE checks
    /\ UNCHANGED <<form, open, step, flagged, posted>>

TypeAny == \E field \in StepFields[form][step] : \E value \in Values(field) : Type(field, value)

\* The lookup of a code is answered, whatever has been typed since, or fails.
CodeChecked(value) ==
    /\ step = 1 /\ value \in checks
    /\ checks' = checks \ {value}
    /\ flagged' \in {flagged, value = "known"}
    /\ UNCHANGED <<form, open, step, data, posted>>

EnterPerson ==
    \/ \E g \in {None, "female", "male"} : Store([data EXCEPT !.gender = g])
    \/ \E a \in Ages : Store([data EXCEPT !.age = a])

\* Mutation: the city stays when the county changes.
CountyInKept(c) == [data EXCEPT !.county = c]

CountyIn(c) == [data EXCEPT !.county = c, !.city = None]

EnterPlace ==
    \/ \E p \in DOMAIN Cities \cup {None} :
          Store([data EXCEPT !.province = p, !.county = None, !.city = None])
    \/ /\ data.province # None
       /\ \E c \in DOMAIN Cities[data.province] \cup {None} : Store(CountyIn(c))
    \/ /\ data.county # None
       /\ \E t \in Cities[data.province][data.county] \cup {None} : Store([data EXCEPT !.city = t])

OneMore(n) == IF n < 3 THEN n + 1 ELSE n

ShownStep(f, k) == form = f /\ step = k

StepOnePlayer == ShownStep("player", 1) /\ (TypeAny \/ EnterPerson)
StepTwoPlayer == ShownStep("player", 2) /\ (TypeAny \/ EnterPlace)

\* The coaches offered are those of the club or, if that list is answered
\* last, all; another club keeps the coach, none empties it.
StepThreePlayer ==
    /\ ShownStep("player", 3)
    /\ \/ TypeAny
       \/ \E c \in {None, "c1", "c2"} :
             Store([data EXCEPT !.club = c, !.coach = IF c = None THEN None ELSE @])
       \/ \E c \in {None, "listed"} : Store([data EXCEPT !.coach = c])

StepOneCoach == ShownStep("coach", 1) /\ (TypeAny \/ EnterPerson)
StepTwoCoach == ShownStep("coach", 2) /\ (TypeAny \/ EnterPlace)

StepThreeCoach ==
    /\ ShownStep("coach", 3)
    /\ \/ TypeAny
       \/ \E r \in {None, "coach", "referee", "both"} : Store([data EXCEPT !.role = r])
       \/ Store([data EXCEPT !.clubs = OneMore(@)])
       \/ data.clubs > 0 /\ Store([data EXCEPT !.clubs = @ - 1])
       \/ \E c \in {None, "listed", "other"} : Store([data EXCEPT !.coach = c])
       \/ data.coach = "other" /\ \E n \in {"empty", "fine", "unfit"} : Store([data EXCEPT !.custom = n])

StepFourCoach ==
    /\ ShownStep("coach", 4)
    /\ \/ TypeAny
       \/ IsCoach /\ \E b \in BOOLEAN : Store([data EXCEPT !.grade = b])
       \/ /\ IsReferee
          /\ \E t \in Kinds :
                \/ Store([data EXCEPT !.types[t].selected = ~@])
                \/ /\ data.types[t].selected
                   /\ \E b \in BOOLEAN : Store([data EXCEPT !.types[t].grade = b])

StepOneClub == ShownStep("club", 1) /\ TypeAny
StepTwoClub == ShownStep("club", 2) /\ (TypeAny \/ EnterPlace)
StepThreeClub == ShownStep("club", 3) /\ TypeAny

\* A step that is not tried in every way, with entries that fit.
Filled ==
    LET p == CHOOSE p \in DOMAIN Cities : TRUE
        c == CHOOSE c \in DOMAIN Cities[p] : TRUE
        entered == [f \in Fields |-> IF f \in StepFields[form][step] THEN "fine" ELSE data.entry[f]]
    IN CASE step = 1 -> [data EXCEPT !.entry = entered, !.age = 22, !.gender = "female"]
         [] step = 2 -> [data EXCEPT !.entry = entered, !.province = p, !.county = c,
                                     !.city = CHOOSE t \in Cities[p][c] : TRUE]
         [] step = 3 -> [data EXCEPT !.entry = entered, !.role = "both", !.clubs = 1,
                                     !.club = "c1", !.coach = "listed"]
         [] step = 4 -> [data EXCEPT !.entry = entered, !.grade = TRUE,
                                     !.types = [t \in Kinds |-> [selected |-> TRUE, grade |-> TRUE]]]

Enter ==
    IF step \in open
    THEN \/ StepOnePlayer \/ StepTwoPlayer \/ StepThreePlayer
         \/ StepOneCoach \/ StepTwoCoach \/ StepThreeCoach \/ StepFourCoach
         \/ StepOneClub \/ StepTwoClub \/ StepThreeClub
    ELSE Store(Filled)

-----------------------------------------------------------------------------
(* Steps, and the application.                                             *)

\* A step is mounted anew: the flag of the first is lost, and the third of a
\* player empties the coach if there is no club.
Show(k) ==
    /\ step' = k
    /\ flagged' = FALSE /\ checks' = {}
    /\ data' = IF form = "player" /\ k = 3 /\ data.club = None THEN [data EXCEPT !.coach = None] ELSE data
    /\ UNCHANGED <<form, open, posted>>

NextStep == step < LastStep /\ Valid /\ Show(step + 1)
PrevStep == step > 1 /\ Show(step - 1)

-----------------------------------------------------------------------------
(* The server.                                                             *)

Optional == {"tkd_board", "activity_description"} \cup (IF form = "club" THEN {"confirm_info"} ELSE {})

\* The entries a serializer has a validator of its own for.
Validated ==
    [player |-> {"national_code"},
     coach  |-> {"national_code", "address", "profile_image"},
     club   |-> {"phone", "address", "license_image"}]

Refuses(field) ==
    {"unfit"}
    \cup (IF field \in Optional THEN {} ELSE {"empty"})
    \cup (IF field \in Validated[form] THEN {"wrong", "padded", "misnamed", "known"} ELSE {})

Rejected == {f \in UNION {StepFields[form][k] : k \in Steps} : data.entry[f] \in Refuses(f)}

PersonMissing == form # "club" /\ (data.age = 0 \/ data.gender = None)
PlaceMissing == None \in {data.province, data.county, data.city}
Ungraded == form = "coach" /\ IsReferee /\ (Selected = {} \/ \E t \in Selected : ~data.types[t].grade)
Overlong == form = "coach" /\ data.coach = "other" /\ data.custom = "unfit"

Acceptable == Rejected = {} /\ ~PersonMissing /\ ~PlaceMissing /\ ~Ungraded /\ ~Overlong

\* The server also refuses for what is in its tables and not on the page: no
\* phone, or one that is in use; a code that was registered since the lookup; a
\* club's name that is taken; a board, club or coach that is gone.  An answer
\* that is lost, or an error after the row is there (the coach's own checks, the
\* second save), leaves the page with an error whatever was stored.
Post ==
    /\ step = LastStep /\ Valid
    /\ posted' \in {"refused", "failed"} \cup (IF Acceptable THEN {"stored"} ELSE {})
    /\ UNCHANGED <<form, open, step, data, checks, flagged>>

\* The message of an error is read; the form is as it was.
CloseMessage ==
    /\ posted \in {"refused", "failed"} /\ posted' = "none"
    /\ UNCHANGED <<form, open, step, data, checks, flagged>>

\* The page is left, and opened again.
Reopen ==
    /\ step' = 1 /\ data' = Blank /\ checks' = {} /\ flagged' = FALSE /\ posted' = "none"
    /\ UNCHANGED <<form, open>>

Next ==
    \/ /\ posted = "none"
       /\ \/ Enter \/ NextStep \/ PrevStep \/ Post
          \/ \E value \in {"known", "fine"} : CodeChecked(value)
    \/ CloseMessage \/ Reopen

Spec == Init /\ [][Next]_vars

-----------------------------------------------------------------------------
\* Whatever was entered, changed and gone back to, the steps before the one
\* that is shown hold what the application needs of them; the city is one of
\* the county, and the county one of the province, although only their being
\* chosen is ever validated.
StepsBeforeAreComplete ==
    \A k \in 1..(step - 1) :
        /\ Entered(StepFields[form][k])
        /\ k = 1 /\ form # "club" => data.gender # None /\ OldEnough
        /\ k = 2 => /\ data.province \in DOMAIN Cities
                    /\ data.county \in DOMAIN Cities[data.province]
                    /\ data.city \in Cities[data.province][data.county]
        /\ k = 3 => data.role # None /\ data.clubs \in 1..3 /\ data.coach # None

\* The server never complains of what the steps ask for: when it refuses, every
\* entry is there and right as far as its step looks at it, the person and the
\* place are complete, and each kind of refereeing chosen has its grade.  What is
\* left are its tables and the entries no step looks at.
RefusedBeyondTheSteps ==
    posted = "refused" =>
        /\ \A f \in Rejected : data.entry[f] \notin {"empty", "wrong"}
        /\ ~PersonMissing /\ ~PlaceMissing /\ ~Ungraded
=============================================================================
