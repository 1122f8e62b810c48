------------------------ MODULE RegisterWizardProofs ------------------------
(***************************************************************************)
(* Proofs about the registration pages, for any pages, provinces, ages and *)
(* kinds of refereeing: a step that was passed stays complete because what *)
(* is entered in another step touches none of its fields, and the server   *)
(* never complains of what a step asks for.                                *)
(***************************************************************************)
EXTENDS RegisterWizard, TLAPS

Provinces == DOMAIN Cities \cup {None}
Counties == (UNION {DOMAIN Cities[p] : p \in DOMAIN Cities}) \cup {None}
CityNames ==
    (UNION {UNION {Cities[p][c] : c \in DOMAIN Cities[p]} : p \in DOMAIN Cities}) \cup {None}

EntryValues == {"empty", "fine", "wrong", "unfit", "padded", "misnamed", "known"}

FormData ==
    [entry : [Fields -> EntryValues],
     age : Nat, gender : {None, "female", "male"},
     province : Provinces, county : Counties, city : CityNames,
     role : {None, "coach", "referee", "both"}, clubs : 0..3,
     club : {None, "c1", "c2"}, coach : {None, "listed", "other"},
     custom : {"empty", "fine", "unfit"}, grade : BOOLEAN,
     types : [Kinds -> [selected : BOOLEAN, grade : BOOLEAN]]]

\* The place that is chosen exists, as far as it is chosen.
PlaceExists(d) ==
    /\ d.province # None => d.province \in DOMAIN Cities
    /\ d.county # None => d.province \in DOMAIN Cities /\ d.county \in DOMAIN Cities[d.province]
    /\ d.city # None => /\ d.province \in DOMAIN Cities /\ d.county \in DOMAIN Cities[d.province]
                        /\ d.city \in Cities[d.province][d.county]

FormOK(d) ==
    /\ d \in FormData
    /\ \A f \in Fields : d.entry[f] \in Values(f)
    /\ PlaceExists(d)

\* From d to e, only what step k shows has changed.
OnlyStep(k, d, e) ==
    /\ \A f \in Fields \ StepFields[form][k] : e.entry[f] = d.entry[f]
    /\ k # 1 => e.age = d.age /\ e.gender = d.gender
    /\ k # 2 => e.province = d.province /\ e.county = d.county /\ e.city = d.city
    /\ k # 3 => e.role = d.role /\ e.clubs = d.clubs /\ e.coach = d.coach

WizardInv ==
    /\ form \in Forms /\ step \in 1..LastStep /\ posted \in {"none", "stored", "refused", "failed"}
    /\ FormOK(data)
    /\ StepsBeforeAreComplete
    /\ posted = "refused" => step = LastStep /\ Valid

-----------------------------------------------------------------------------
(* The steps of the forms.                                                 *)

LEMMA FormSteps ==
    /\ StepFields["player"] = PlayerSteps /\ StepFields["coach"] = CoachSteps
    /\ StepFields["club"] = ClubSteps
    /\ DOMAIN PlayerSteps = 1..3 /\ DOMAIN CoachSteps = 1..4 /\ DOMAIN ClubSteps = 1..3
    /\ Len(PlayerSteps) = 3 /\ Len(CoachSteps) = 4 /\ Len(ClubSteps) = 3
BY DEF StepFields, PlayerSteps, CoachSteps, ClubSteps

LEMMA StepsOfForms ==
    ASSUME form \in Forms
    PROVE  /\ form \in {"player", "coach", "club"}
           /\ LastStep = IF form = "coach" THEN 4 ELSE 3
           /\ DOMAIN StepFields[form] = 1..LastStep
           /\ \A k \in 1..LastStep : StepFields[form][k] \subseteq Fields
<1>1. form \in {"player", "coach", "club"}
  BY WizardAssumption
<1>2. LastStep = (IF form = "coach" THEN 4 ELSE 3) /\ DOMAIN StepFields[form] = 1..LastStep
  BY <1>1, FormSteps DEF LastStep
<1>3. ASSUME NEW k \in 1..LastStep PROVE StepFields[form][k] \subseteq Fields
  <2>1. StepFields[form][k] \subseteq UNION {StepFields[form][j] : j \in DOMAIN StepFields[form]}
    BY <1>2
  <2> QED BY <2>1 DEF Fields
<1> QED BY <1>1, <1>2, <1>3

\* No field is shown by two steps of a form.
LEMMA StepsApart ==
    ASSUME form \in Forms, NEW j \in 1..LastStep, NEW k \in 1..LastStep, j # k
    PROVE  StepFields[form][j] \cap StepFields[form][k] = {}
<1>1. CASE form = "player"
  <2>1. j \in {1, 2, 3} /\ k \in {1, 2, 3}
    BY <1>1, StepsOfForms
  <2> QED BY <1>1, <2>1, FormSteps DEF PlayerSteps
<1>2. CASE form = "coach"
  <2>1. j \in {1, 2, 3, 4} /\ k \in {1, 2, 3, 4}
    BY <1>2, StepsOfForms
  <2> QED BY <1>2, <2>1, FormSteps DEF CoachSteps
<1>3. CASE form = "club"
  <2>1. j \in {1, 2, 3} /\ k \in {1, 2, 3}
    BY <1>3, StepsOfForms
  <2> QED BY <1>3, <2>1, FormSteps DEF ClubSteps
<1> QED BY <1>1, <1>2, <1>3, StepsOfForms

-----------------------------------------------------------------------------
(* What is entered belongs to the step that is shown.                      *)

LEMMA TypeAnyKeeps ==
    ASSUME WizardInv, TypeAny
    PROVE  FormOK(data') /\ OnlyStep(step, data, data')
<1>0. PICK field \in StepFields[form][step] : \E value \in Values(field) : Type(field, value)
  BY DEF TypeAny
<1>1. PICK value \in Values(field) : Type(field, value)
  BY <1>0
<1>2. data \in FormData /\ data' = [data EXCEPT !.entry[field] = value] /\ field \in Fields
  BY <1>1, StepsOfForms DEF WizardInv, FormOK, Type
<1>3. value \in EntryValues
  BY <1>1 DEF Values, EntryValues
<1>4. data' \in FormData
  BY <1>2, <1>3 DEF FormData
<1>5. /\ data'.entry = [data.entry EXCEPT ![field] = value]
      /\ data'.age = data.age /\ data'.gender = data.gender /\ data'.province = data.province
      /\ data'.county = data.county /\ data'.city = data.city /\ data'.role = data.role
      /\ data'.clubs = data.clubs /\ data'.coach = data.coach
  BY <1>2 DEF FormData
<1>6. data.entry \in [Fields -> EntryValues]
  BY <1>2 DEF FormData
<1>7. \A f \in Fields : data'.entry[f] = IF f = field THEN value ELSE data.entry[f]
  BY <1>2, <1>5, <1>6
<1> QED BY <1>1, <1>4, <1>5, <1>7 DEF WizardInv, FormOK, PlaceExists, OnlyStep

\* A change of the place; nothing else is different.
LEMMA PlaceKeeps ==
    ASSUME WizardInv, step = 2, EnterPlace
    PROVE  FormOK(data') /\ OnlyStep(step, data, data')
<1>0. data \in FormData /\ PlaceExists(data)
  BY DEF WizardInv, FormOK
<1>1. CASE \E p \in DOMAIN Cities \cup {None} :
             Store([data EXCEPT !.province = p, !.county = None, !.city = None])
  <2>1. PICK p \in DOMAIN Cities \cup {None} :
          data' = [data EXCEPT !.province = p, !.county = None, !.city = None]
    BY <1>1 DEF Store
  <2>2. data' \in FormData /\ PlaceExists(data') /\ data'.entry = data.entry
        /\ data'.age = data.age /\ data'.gender = data.gender /\ data'.role = data.role
        /\ data'.clubs = data.clubs /\ data'.coach = data.coach
    BY <1>0, <2>1 DEF FormData, PlaceExists, Provinces, Counties, CityNames
  <2> QED BY <2>2 DEF WizardInv, FormOK, OnlyStep
<1>2. CASE /\ data.province # None
           /\ \E c \in DOMAIN Cities[data.province] \cup {None} : Store(CountyIn(c))
  <2>1. PICK c \in DOMAIN Cities[data.province] \cup {None} :
          data' = [data EXCEPT !.county = c, !.city = None]
    BY <1>2 DEF Store, CountyIn
  <2>2. c \in Counties /\ data.province \in DOMAIN Cities
    BY <1>0, <1>2, <2>1 DEF PlaceExists, Counties
  <2>3. data' \in FormData /\ data'.province = data.province /\ data'.county = c
        /\ data'.city = None /\ data'.entry = data.entry
        /\ data'.age = data.age /\ data'.gender = data.gender /\ data'.role = data.role
        /\ data'.clubs = data.clubs /\ data'.coach = data.coach
    BY <1>0, <2>1, <2>2 DEF FormData, CityNames
  <2> QED BY <1>2, <2>1, <2>2, <2>3 DEF WizardInv, FormOK, OnlyStep, PlaceExists
<1>3. CASE /\ data.county # None
           /\ \E t \in Cities[data.province][data.county] \cup {None} :
                Store([data EXCEPT !.city = t])
  <2>1. PICK t \in Cities[data.province][data.county] \cup {None} :
          data' = [data EXCEPT !.city = t]
    BY <1>3 DEF Store
  <2>2. data.province \in DOMAIN Cities /\ data.county \in DOMAIN Cities[data.province]
        /\ t \in CityNames
    BY <1>0, <1>3, <2>1 DEF PlaceExists, CityNames
  <2>3. data' \in FormData /\ data'.province = data.province /\ data'.county = data.county
        /\ data'.city = t /\ data'.entry = data.entry
        /\ data'.age = data.age /\ data'.gender = data.gender /\ data'.role = data.role
        /\ data'.clubs = data.clubs /\ data'.coach = data.coach
    BY <1>0, <2>1, <2>2 DEF FormData
  <2> QED BY <1>0, <1>3, <2>1, <2>2, <2>3 DEF WizardInv, FormOK, OnlyStep, PlaceExists
<1> QED BY <1>1, <1>2, <1>3 DEF EnterPlace

\* A change that leaves the entries and the place alone.
LEMMA OtherKeeps ==
    ASSUME WizardInv, data' \in FormData, data'.entry = data.entry,
           data'.province = data.province, data'.county = data.county, data'.city = data.city,
           step # 1 => data'.age = data.age /\ data'.gender = data.gender,
           step # 3 => data'.role = data.role /\ data'.clubs = data.clubs /\ data'.coach = data.coach
    PROVE  FormOK(data') /\ OnlyStep(step, data, data')
BY DEF WizardInv, FormOK, PlaceExists, OnlyStep

LEMMA PersonKeeps ==
    ASSUME WizardInv, step = 1, EnterPerson
    PROVE  FormOK(data') /\ OnlyStep(step, data, data')
<1>0. data \in FormData
  BY DEF WizardInv, FormOK
<1>1. CASE \E g \in {None, "female", "male"} : Store([data EXCEPT !.gender = g])
  <2>1. PICK g \in {None, "female", "male"} : data' = [data EXCEPT !.gender = g]
    BY <1>1 DEF Store
  <2>2. /\ data' \in FormData /\ data'.entry = data.entry /\ data'.province = data.province
        /\ data'.county = data.county /\ data'.city = data.city /\ data'.role = data.role
        /\ data'.clubs = data.clubs /\ data'.coach = data.coach
    BY <1>0, <2>1 DEF FormData
  <2> QED BY <2>2, OtherKeeps
<1>2. CASE \E a \in Ages : Store([data EXCEPT !.age = a])
  <2>1. PICK a \in Nat : data' = [data EXCEPT !.age = a]
    BY <1>2, WizardAssumption DEF Store
  <2>2. /\ data' \in FormData /\ data'.entry = data.entry /\ data'.province = data.province
        /\ data'.county = data.county /\ data'.city = data.city /\ data'.role = data.role
        /\ data'.clubs = data.clubs /\ data'.coach = data.coach
    BY <1>0, <2>1 DEF FormData
  <2> QED BY <2>2, OtherKeeps
<1> QED BY <1>1, <1>2 DEF EnterPerson

LEMMA PlayerSportKeeps ==
    ASSUME WizardInv, StepThreePlayer
    PROVE  FormOK(data') /\ OnlyStep(step, data, data')
<1>0. data \in FormData /\ step = 3
  BY DEF WizardInv, FormOK, StepThreePlayer, ShownStep
<1>1. CASE TypeAny
  BY <1>1, TypeAnyKeeps
<1>2. CASE \E c \in {None, "c1", "c2"} :
             Store([data EXCEPT !.club = c, !.coach = IF c = None THEN None ELSE @])
  <2>1. PICK c \in {None, "c1", "c2"} :
          data' = [data EXCEPT !.club = c, !.coach = IF c = None THEN None ELSE data.coach]
    BY <1>2 DEF Store
  <2>2. /\ data' \in FormData /\ data'.entry = data.entry /\ data'.province = data.province
        /\ data'.county = data.county /\ data'.city = data.city /\ data'.age = data.age
        /\ data'.gender = data.gender
    BY <1>0, <2>1 DEF FormData
  <2> QED BY <1>0, <2>2, OtherKeeps
<1>3. CASE \E c \in {None, "listed"} : Store([data EXCEPT !.coach = c])
  <2>1. PICK c \in {None, "listed"} : data' = [data EXCEPT !.coach = c]
    BY <1>3 DEF Store
  <2>2. /\ data' \in FormData /\ data'.entry = data.entry /\ data'.province = data.province
        /\ data'.county = data.county /\ data'.city = data.city /\ data'.age = data.age
        /\ data'.gender = data.gender
    BY <1>0, <2>1 DEF FormData
  <2> QED BY <1>0, <2>2, OtherKeeps
<1> QED BY <1>1, <1>2, <1>3 DEF StepThreePlayer

LEMMA CoachSportKeeps ==
    ASSUME WizardInv, StepThreeCoach
    PROVE  FormOK(data') /\ OnlyStep(step, data, data')
<1>0. data \in FormData /\ step = 3
  BY DEF WizardInv, FormOK, StepThreeCoach, ShownStep
<1> DEFINE Same == /\ data' \in FormData /\ data'.entry = data.entry
                   /\ data'.province = data.province /\ data'.county = data.county
                   /\ data'.city = data.city /\ data'.age = data.age
                   /\ data'.gender = data.gender
<1>1. CASE TypeAny
  BY <1>1, TypeAnyKeeps
<1>2. ASSUME NEW r \in {None, "coach", "referee", "both"}, Store([data EXCEPT !.role = r])
      PROVE  Same
  BY <1>0, <1>2 DEF FormData, Store
<1>3. ASSUME NEW n \in 0..3, Store([data EXCEPT !.clubs = n]) PROVE Same
  BY <1>0, <1>3 DEF FormData, Store
<1>4. ASSUME NEW c \in {None, "listed", "other"}, Store([data EXCEPT !.coach = c]) PROVE Same
  BY <1>0, <1>4 DEF FormData, Store
<1>5. ASSUME NEW n \in {"empty", "fine", "unfit"}, Store([data EXCEPT !.custom = n]) PROVE Same
  BY <1>0, <1>5 DEF FormData, Store
<1>6. data.clubs \in 0..3
  BY <1>0 DEF FormData
<1>7. OneMore(data.clubs) \in 0..3 /\ (data.clubs > 0 => data.clubs - 1 \in 0..3)
  BY <1>6 DEF OneMore
<1>8. TypeAny \/ Same
  <2> HIDE DEF Same
  <2> QED BY <1>2, <1>3, <1>4, <1>5, <1>7 DEF StepThreeCoach
<1> QED BY <1>0, <1>1, <1>8, OtherKeeps

LEMMA GradesKeep ==
    ASSUME WizardInv, StepFourCoach
    PROVE  FormOK(data') /\ OnlyStep(step, data, data')
<1>0. data \in FormData /\ step = 4
  BY DEF WizardInv, FormOK, StepFourCoach, ShownStep
<1> DEFINE Same == /\ data' \in FormData /\ data'.entry = data.entry
                   /\ data'.province = data.province /\ data'.county = data.county
                   /\ data'.city = data.city /\ data'.age = data.age
                   /\ data'.gender = data.gender /\ data'.role = data.role
                   /\ data'.clubs = data.clubs /\ data'.coach = data.coach
<1>1. CASE TypeAny
  BY <1>1, TypeAnyKeeps
<1>2. ASSUME NEW b \in BOOLEAN, Store([data EXCEPT !.grade = b]) PROVE Same
  BY <1>0, <1>2 DEF FormData, Store
<1>3. ASSUME NEW types \in [Kinds -> [selected : BOOLEAN, grade : BOOLEAN]],
             data' = [data EXCEPT !.types = types]
      PROVE  Same
  BY <1>0, <1>3 DEF FormData
<1>4. ASSUME NEW t \in Kinds, Store([data EXCEPT !.types[t].selected = ~@]) PROVE Same
  <2> DEFINE types == [data.types EXCEPT ![t].selected = ~@]
  <2>1. types \in [Kinds -> [selected : BOOLEAN, grade : BOOLEAN]]
    BY <1>0 DEF FormData
  <2>2. data' = [data EXCEPT !.types = types]
    BY <1>4 DEF Store
  <2> HIDE DEF types, Same
  <2> QED BY <1>3, <2>1, <2>2
<1>5. ASSUME NEW t \in Kinds, NEW b \in BOOLEAN, Store([data EXCEPT !.types[t].grade = b])
      PROVE  Same
  <2> DEFINE types == [data.types EXCEPT ![t].grade = b]
  <2>1. types \in [Kinds -> [selected : BOOLEAN, grade : BOOLEAN]]
    BY <1>0 DEF FormData
  <2>2. data' = [data EXCEPT !.types = types]
    BY <1>5 DEF Store
  <2> HIDE DEF types, Same
  <2> QED BY <1>3, <2>1, <2>2
<1>6. TypeAny \/ Same
  <2> HIDE DEF Same
  <2> QED BY <1>2, <1>4, <1>5 DEF StepFourCoach
<1> QED BY <1>0, <1>1, <1>6, OtherKeeps

\* A step that is filled in at once.
LEMMA FilledKeeps ==
    ASSUME WizardInv, Store(Filled)
    PROVE  FormOK(data') /\ OnlyStep(step, data, data')
<1> DEFINE p == CHOOSE x \in DOMAIN Cities : TRUE
           c == CHOOSE x \in DOMAIN Cities[p] : TRUE
           t == CHOOSE x \in Cities[p][c] : TRUE
           entered == [f \in Fields |-> IF f \in StepFields[form][step] THEN "fine"
                                        ELSE data.entry[f]]
           graded == [k \in Kinds |-> [selected |-> TRUE, grade |-> TRUE]]
<1>1. p \in DOMAIN Cities /\ c \in DOMAIN Cities[p] /\ t \in Cities[p][c]
  BY WizardAssumption
<1>2. p \in Provinces /\ c \in Counties /\ t \in CityNames
  <2> HIDE DEF p, c, t
  <2> QED BY <1>1 DEF Provinces, Counties, CityNames
<1>3. data \in FormData /\ data.entry \in [Fields -> EntryValues]
      /\ \A f \in Fields : data.entry[f] \in Values(f)
  BY DEF WizardInv, FormOK, FormData
<1>4. /\ entered \in [Fields -> EntryValues]
      /\ \A f \in Fields : entered[f] \in Values(f)
      /\ \A f \in Fields \ StepFields[form][step] : entered[f] = data.entry[f]
  BY <1>3 DEF Values, EntryValues
<1>5. graded \in [Kinds -> [selected : BOOLEAN, grade : BOOLEAN]]
  OBVIOUS
<1>6. step \in {1, 2, 3, 4}
  <2>1. step \in 1..LastStep /\ LastStep \in {3, 4}
    BY StepsOfForms DEF WizardInv
  <2> QED BY <2>1
<1>7. /\ step = 1 => data' = [data EXCEPT !.entry = entered, !.age = 22, !.gender = "female"]
      /\ step = 2 => data' = [data EXCEPT !.entry = entered, !.province = p, !.county = c, !.city = t]
      /\ step = 3 => data' = [data EXCEPT !.entry = entered, !.role = "both", !.clubs = 1,
                                          !.club = "c1", !.coach = "listed"]
      /\ step = 4 => data' = [data EXCEPT !.entry = entered, !.grade = TRUE, !.types = graded]
  <2>1. data' = Filled
    BY DEF Store
  <2>2. step = 1 => Filled = [data EXCEPT !.entry = entered, !.age = 22, !.gender = "female"]
    BY DEF Filled
  <2>3. step = 2 => Filled = [data EXCEPT !.entry = entered, !.province = p, !.county = c, !.city = t]
    BY DEF Filled
  <2>4. step = 3 => Filled = [data EXCEPT !.entry = entered, !.role = "both", !.clubs = 1,
                                          !.club = "c1", !.coach = "listed"]
    BY DEF Filled
  <2>5. step = 4 => Filled = [data EXCEPT !.entry = entered, !.grade = TRUE, !.types = graded]
    BY DEF Filled
  <2> HIDE DEF p, c, t, entered, graded
  <2> QED BY <2>1, <2>2, <2>3, <2>4, <2>5
<1> HIDE DEF p, c, t, entered, graded
<1>8. ASSUME step = 1
      PROVE  /\ data' \in FormData /\ data'.entry = entered
             /\ data'.province = data.province /\ data'.county = data.county /\ data'.city = data.city
             /\ data'.role = data.role /\ data'.clubs = data.clubs /\ data'.coach = data.coach
  <2>1. data' = [data EXCEPT !.entry = entered, !.age = 22, !.gender = "female"]
    BY <1>7, <1>8
  <2> QED BY <1>3, <1>4, <2>1 DEF FormData
<1>9. ASSUME step = 2
      PROVE  /\ data' \in FormData /\ data'.entry = entered
             /\ data'.age = data.age /\ data'.gender = data.gender /\ data'.role = data.role
             /\ data'.clubs = data.clubs /\ data'.coach = data.coach /\ data'.province = p
             /\ data'.county = c /\ data'.city = t
  <2>1. data' = [data EXCEPT !.entry = entered, !.province = p, !.county = c, !.city = t]
    BY <1>7, <1>9
  <2> QED BY <1>3, <1>4, <1>2, <2>1 DEF FormData
<1>10. ASSUME step = 3
      PROVE  /\ data' \in FormData /\ data'.entry = entered
             /\ data'.age = data.age /\ data'.gender = data.gender /\ data'.province = data.province
             /\ data'.county = data.county /\ data'.city = data.city
  <2>1. data' = [data EXCEPT !.entry = entered, !.role = "both", !.clubs = 1, !.club = "c1",
                                !.coach = "listed"]
    BY <1>7, <1>10
  <2>2. 1 \in 0..3 /\ "both" \in {None, "coach", "referee", "both"} /\ "c1" \in {None, "c1", "c2"}
        /\ "listed" \in {None, "listed", "other"}
    OBVIOUS
  <2>3. data' \in FormData
    BY <1>3, <1>4, <2>1, <2>2 DEF FormData
  <2> QED BY <1>3, <2>1, <2>3 DEF FormData
<1>11. ASSUME step = 4
      PROVE  /\ data' \in FormData /\ data'.entry = entered
             /\ data'.age = data.age /\ data'.gender = data.gender /\ data'.province = data.province
             /\ data'.county = data.county /\ data'.city = data.city /\ data'.role = data.role
             /\ data'.clubs = data.clubs /\ data'.coach = data.coach
  <2>1. data' = [data EXCEPT !.entry = entered, !.grade = TRUE, !.types = graded]
    BY <1>7, <1>11
  <2> QED BY <1>3, <1>4, <1>5, <2>1 DEF FormData
<1>12. PlaceExists(data')
  <2>1. CASE step = 2
    BY <1>1, <1>9, <2>1 DEF PlaceExists
  <2>2. CASE step # 2
    <3>1. /\ data'.province = data.province /\ data'.county = data.county
          /\ data'.city = data.city
      BY <1>6, <1>8, <1>10, <1>11, <2>2
    <3> QED BY <3>1 DEF PlaceExists, WizardInv, FormOK
  <2> QED BY <2>1, <2>2
<1>13. FormOK(data')
  BY <1>4, <1>6, <1>8, <1>9, <1>10, <1>11, <1>12 DEF FormOK
<1> QED BY <1>4, <1>6, <1>8, <1>9, <1>10, <1>11, <1>13 DEF OnlyStep

LEMMA EnterKeeps ==
    ASSUME WizardInv, Enter
    PROVE  FormOK(data') /\ OnlyStep(step, data, data')
<1>1. CASE TypeAny
  BY <1>1, TypeAnyKeeps
<1>2. CASE step = 1 /\ EnterPerson
  BY <1>2, PersonKeeps
<1>3. CASE step = 2 /\ EnterPlace
  BY <1>3, PlaceKeeps
<1>4. CASE StepThreePlayer \/ StepThreeCoach \/ StepFourCoach
  BY <1>4, PlayerSportKeeps, CoachSportKeeps, GradesKeep
<1>5. CASE Store(Filled)
  BY <1>5, FilledKeeps
<1> QED
  BY <1>1, <1>2, <1>3, <1>4, <1>5
  DEF Enter, StepOnePlayer, StepTwoPlayer, StepOneCoach, StepTwoCoach, StepOneClub, StepTwoClub,
      StepThreeClub, ShownStep

-----------------------------------------------------------------------------
(* The steps that were passed, and the server's answer.                    *)

\* What a valid step has been asked for, as StepsBeforeAreComplete says it.
Complete(k) ==
    /\ Entered(StepFields[form][k])
    /\ k = 1 /\ form # "club" => data.gender # None /\ OldEnough
    /\ k = 2 => /\ data.province \in DOMAIN Cities
                /\ data.county \in DOMAIN Cities[data.province]
                /\ data.city \in Cities[data.province][data.county]
    /\ k = 3 => data.role # None /\ data.clubs \in 1..3 /\ data.coach # None

LEMMA ValidIsComplete == ASSUME WizardInv, Valid, step # LastStep PROVE Complete(step)
<1>1. data.clubs \in 0..3 /\ PlaceExists(data)
  BY DEF WizardInv, FormOK, FormData
<1>2. step = 1 /\ form # "club" => data.gender # None /\ OldEnough
  BY DEF Valid, ValidPerson
<1>3. step = 2 => /\ data.province \in DOMAIN Cities
                  /\ data.county \in DOMAIN Cities[data.province]
                  /\ data.city \in Cities[data.province][data.county]
  BY <1>1 DEF Valid, ValidPlace, PlaceExists
<1>4. step = 3 => form = "coach"
  BY StepsOfForms DEF WizardInv
<1>5. step = 3 => data.role # None /\ data.clubs \in 1..3 /\ data.coach # None
  BY <1>1, <1>4 DEF Valid, ValidCoachSport
<1> QED BY <1>2, <1>3, <1>5 DEF Complete, Valid

LEMMA CompleteBefore == StepsBeforeAreComplete <=> \A k \in 1..(step - 1) : Complete(k)
BY DEF StepsBeforeAreComplete, Complete

\* What is entered in a step changes nothing of the others.
LEMMA OthersStayComplete ==
    ASSUME WizardInv, form' = form, OnlyStep(step, data, data'), NEW k \in 1..LastStep, k # step,
           Complete(k)
    PROVE  Complete(k)'
<1>1. StepFields[form][k] \subseteq Fields \ StepFields[form][step]
  BY StepsApart, StepsOfForms DEF WizardInv
<1>2. Entered(StepFields[form][k])'
  <2>1. \A f \in StepFields[form][k] : data'.entry[f] = data.entry[f]
    BY <1>1 DEF OnlyStep
  <2>2. \A f \in StepFields[form][k] : data.entry[f] \notin {"empty", "wrong"}
    BY DEF Complete, Entered
  <2> QED BY <2>1, <2>2 DEF Entered
<1>3. k = 1 => data'.age = data.age /\ data'.gender = data.gender
  BY DEF OnlyStep
<1>4. k = 1 /\ form' # "club" => data'.gender # None /\ OldEnough'
  BY <1>3 DEF Complete, OldEnough, PlayerOldEnough, CoachOldEnough
<1>5. /\ k = 2 => data'.province = data.province /\ data'.county = data.county
                  /\ data'.city = data.city
      /\ k = 3 => data'.role = data.role /\ data'.clubs = data.clubs /\ data'.coach = data.coach
  BY DEF OnlyStep
<1> QED BY <1>2, <1>4, <1>5 DEF Complete

LEMMA ShowKeeps ==
    ASSUME WizardInv, NEW k \in 1..LastStep, k <= step \/ (k = step + 1 /\ Valid), Show(k),
           posted = "none"
    PROVE  WizardInv'
<1>1. /\ form' = form /\ posted' = "none" /\ step' = k /\ LastStep' = LastStep
      /\ step \in 1..LastStep /\ LastStep \in {3, 4} /\ form \in Forms
  BY StepsOfForms DEF Show, LastStep, WizardInv
<1>2. data \in FormData
  BY DEF WizardInv, FormOK
<1>3. CASE data' = data
  <2>1. \A j \in 1..(k - 1) : Complete(j)
    BY <1>1, ValidIsComplete, CompleteBefore DEF WizardInv
  <2>2. \A j \in 1..(k - 1) : Complete(j)'
    BY <1>1, <1>3, <2>1 DEF Complete, Entered, OldEnough, PlayerOldEnough, CoachOldEnough
  <2>3. StepsBeforeAreComplete'
    BY <1>1, <2>2 DEF StepsBeforeAreComplete, Complete
  <2> QED BY <1>1, <1>3, <2>3 DEF WizardInv, FormOK, PlaceExists
<1>4. CASE form = "player" /\ k = 3 /\ data' = [data EXCEPT !.coach = None]
  <2>1. /\ data' \in FormData /\ data'.entry = data.entry /\ data'.province = data.province
        /\ data'.county = data.county /\ data'.city = data.city /\ data'.age = data.age
        /\ data'.gender = data.gender
    BY <1>2, <1>4 DEF FormData
  <2>2. Complete(1) /\ Complete(2)
    BY <1>1, <1>4, ValidIsComplete, CompleteBefore DEF WizardInv
  <2>3. Complete(1)' /\ Complete(2)'
    BY <1>1, <2>1, <2>2 DEF Complete, Entered, OldEnough, PlayerOldEnough, CoachOldEnough
  <2>4. StepsBeforeAreComplete'
    BY <1>1, <1>4, <2>3 DEF StepsBeforeAreComplete, Complete
  <2> QED BY <1>1, <2>1, <2>4 DEF WizardInv, FormOK, PlaceExists
<1> QED BY <1>3, <1>4 DEF Show

LEMMA EnterInv == ASSUME WizardInv, posted = "none", Enter PROVE WizardInv'
<1>1. UNCHANGED <<form, step, posted>>
  BY DEF Enter, StepOnePlayer, StepTwoPlayer, StepThreePlayer, StepOneCoach, StepTwoCoach,
         StepThreeCoach, StepFourCoach, StepOneClub, StepTwoClub, StepThreeClub, TypeAny, Type,
         EnterPerson, EnterPlace, Store
<1>2. FormOK(data)' /\ OnlyStep(step, data, data')
  BY EnterKeeps DEF FormOK, PlaceExists
<1>3. LastStep' = LastStep /\ step \in 1..LastStep /\ LastStep \in Nat
  BY <1>1, StepsOfForms DEF LastStep, WizardInv
<1>4. \A k \in 1..(step - 1) : Complete(k)'
  <2>1. ASSUME NEW k \in 1..(step - 1) PROVE Complete(k)'
    <3>1. k \in 1..LastStep /\ k # step
      BY <1>3
    <3>2. Complete(k)
      BY CompleteBefore DEF WizardInv
    <3> QED BY <1>1, <1>2, <3>1, <3>2, OthersStayComplete
  <2> QED BY <2>1
<1>5. StepsBeforeAreComplete'
  BY <1>1, <1>4 DEF StepsBeforeAreComplete, Complete
<1> QED BY <1>1, <1>2, <1>3, <1>5 DEF WizardInv

\* A step that changes neither the form nor what it holds.
LEMMA SameForm ==
    ASSUME WizardInv, UNCHANGED <<form, step, data>>,
           posted' \in {"none", "stored", "refused", "failed"},
           posted' = "refused" => step = LastStep /\ Valid'
    PROVE  WizardInv'
<1>1. LastStep' = LastStep /\ FormOK(data)'
  BY DEF LastStep, FormOK, PlaceExists, WizardInv
<1>2. StepsBeforeAreComplete'
  BY DEF WizardInv, StepsBeforeAreComplete, Entered, OldEnough, PlayerOldEnough, CoachOldEnough
<1> QED BY <1>1, <1>2 DEF WizardInv

LEMMA WizardInit ==
    ASSUME form \in Forms, step = 1, data = Blank, posted = "none"
    PROVE  WizardInv
<1>1. 1 \in 1..LastStep
  BY StepsOfForms
<1>2. [t \in Kinds |-> NoType] \in [Kinds -> [selected : BOOLEAN, grade : BOOLEAN]]
  BY DEF NoType
<1>3. [f \in Fields |-> "empty"] \in [Fields -> EntryValues]
  BY DEF EntryValues
<1>4. data \in FormData /\ data.entry = [f \in Fields |-> "empty"] /\ data.province = None
      /\ data.county = None /\ data.city = None
  BY <1>2, <1>3 DEF Blank, FormData, Provinces, Counties, CityNames
<1>5. FormOK(data)
  BY <1>4 DEF FormOK, PlaceExists, Values
<1>6. StepsBeforeAreComplete
  BY DEF StepsBeforeAreComplete
<1> QED BY <1>1, <1>5, <1>6 DEF WizardInv

LEMMA WizardStart ==
    (form \in Forms /\ step = 1 /\ data = Blank /\ posted = "none")' => WizardInv'
<1>1. form \in Forms /\ step = 1 /\ data = Blank /\ posted = "none" => WizardInv
  BY WizardInit
<1> QED BY <1>1, PTL

LEMMA WizardNext == ASSUME WizardInv, [Next]_vars PROVE WizardInv'
<1>0. step \in 1..LastStep /\ LastStep \in Nat /\ posted \in {"none", "stored", "refused", "failed"}
  <2>1. LastStep \in {3, 4}
    BY StepsOfForms DEF WizardInv
  <2>2. LastStep \in Nat
    BY <2>1
  <2>3. step \in 1..LastStep /\ posted \in {"none", "stored", "refused", "failed"}
    BY DEF WizardInv
  <2> QED BY <2>2, <2>3
<1>1. CASE posted = "none" /\ Enter
  BY <1>1, EnterInv
<1>2. CASE posted = "none" /\ NextStep
  <2>1. step + 1 \in 1..LastStep /\ Valid /\ Show(step + 1)
    BY <1>0, <1>2 DEF NextStep
  <2> QED BY <1>2, <2>1, ShowKeeps
<1>3. CASE posted = "none" /\ PrevStep
  <2>1. step - 1 \in 1..LastStep /\ step - 1 <= step /\ Show(step - 1)
    BY <1>0, <1>3 DEF PrevStep
  <2> QED BY <1>3, <2>1, ShowKeeps
<1>4. CASE posted = "none" /\ Post
  <2>1. /\ UNCHANGED <<form, step, data>> /\ step = LastStep
        /\ posted' \in {"none", "stored", "refused", "failed"}
    BY <1>4 DEF Post
  <2>2. Valid'
    BY <1>4 DEF Post, Valid, Entered, ValidPerson, ValidPlace, ValidPlayerSport, ValidCoachSport,
                ValidGrades, OldEnough, PlayerOldEnough, CoachOldEnough, IsCoach, IsReferee,
                Graded, Selected
  <2> QED BY <2>1, <2>2, SameForm
<1>5. CASE posted = "none" /\ \E value \in {"known", "fine"} : CodeChecked(value)
  BY <1>5, SameForm DEF CodeChecked
<1>6. CASE CloseMessage
  BY <1>6, SameForm DEF CloseMessage
<1>7. CASE Reopen
  BY <1>7, WizardStart DEF Reopen, WizardInv, Blank
<1>8. CASE UNCHANGED vars
  <2>1. Valid' <=> Valid
    BY <1>8 DEF vars, Valid, Entered, ValidPerson, ValidPlace, ValidPlayerSport, ValidCoachSport,
                ValidGrades, OldEnough, PlayerOldEnough, CoachOldEnough, IsCoach, IsReferee,
                Graded, Selected
  <2> QED BY <1>0, <1>8, <2>1, SameForm DEF vars, WizardInv
<1> QED BY <1>1, <1>2, <1>3, <1>4, <1>5, <1>6, <1>7, <1>8 DEF Next

-----------------------------------------------------------------------------
\* The inductive invariant of the registration pages.
THEOREM WizardInductive == Spec => []WizardInv
<1>1. Init => WizardInv
  BY WizardInit DEF Init
<1>2. WizardInv /\ [Next]_vars => WizardInv'
  BY WizardNext
<1> QED BY <1>1, <1>2, PTL DEF Spec

\* StepsBeforeAreComplete: the steps before the one shown hold what was asked
\* of them, however often the user goes back and changes something
\* (RegisterPlayerPage.jsx, RegisterCoachPage.jsx, RegisterClubPage.jsx).
THEOREM PassedStepsStayComplete == Spec => []StepsBeforeAreComplete
<1>1. WizardInv => StepsBeforeAreComplete
  BY DEF WizardInv
<1> QED BY <1>1, WizardInductive, PTL

\* RefusedBeyondTheSteps: when the server refuses an application, the entries of
\* all steps are there and right as far as the steps look at them, the person
\* and the place are complete and the grades are chosen (serializers.py of
\* accounts against the steps of the pages).
THEOREM RefusalsExplained == Spec => []RefusedBeyondTheSteps
<1>1. ASSUME WizardInv, posted = "refused"
      PROVE  /\ \A f \in Rejected : data.entry[f] \notin {"empty", "wrong"}
             /\ ~PersonMissing /\ ~PlaceMissing /\ ~Ungraded
  <2>1. step = LastStep /\ Valid /\ form \in Forms /\ LastStep \in {3, 4}
        /\ (form = "coach" => LastStep = 4)
    BY <1>1, StepsOfForms DEF WizardInv
  <2>2. \A k \in Steps : Entered(StepFields[form][k])
    BY <1>1, <2>1 DEF WizardInv, StepsBeforeAreComplete, Valid, Steps
  <2>3. \A f \in Rejected : data.entry[f] \notin {"empty", "wrong"}
    <3>1. ASSUME NEW f \in Rejected PROVE data.entry[f] \notin {"empty", "wrong"}
      <4>1. PICK k \in Steps : f \in StepFields[form][k]
        BY DEF Rejected
      <4> QED BY <2>2, <4>1 DEF Entered
    <3> QED BY <3>1
  <2>4. ~PersonMissing
    <3>1. form # "club" => data.gender # None /\ OldEnough
      BY <1>1, <2>1 DEF WizardInv, StepsBeforeAreComplete
    <3>2. data.age \in Nat
      BY <1>1 DEF WizardInv, FormOK, FormData
    <3>3. OldEnough => data.age # 0
      BY <3>2 DEF OldEnough, PlayerOldEnough, CoachOldEnough
    <3> QED BY <3>1, <3>3 DEF PersonMissing
  <2>5. ~PlaceMissing
    <3>1. /\ data.province \in DOMAIN Cities /\ data.county \in DOMAIN Cities[data.province]
          /\ data.city \in Cities[data.province][data.county]
      BY <1>1, <2>1 DEF WizardInv, StepsBeforeAreComplete
    <3>2. data.province # None /\ data.county # None /\ data.city # None
      BY <3>1, WizardAssumption
    <3> QED BY <3>2 DEF PlaceMissing
  <2>6. ~Ungraded
    <3>1. form = "coach" /\ IsReferee => Graded
      BY <2>1 DEF Valid, ValidGrades
    <3>2. Graded => Selected # {} /\ ~ \E t \in Selected : ~data.types[t].grade
      BY DEF Graded
    <3> QED BY <3>1, <3>2 DEF Ungraded
  <2> QED BY <2>3, <2>4, <2>5, <2>6
<1>2. WizardInv => RefusedBeyondTheSteps
  BY <1>1 DEF RefusedBeyondTheSteps
<1> QED BY <1>2, WizardInductive, PTL
=============================================================================
