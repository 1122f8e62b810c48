-------------------------- MODULE EnrollmentProofs --------------------------
(***************************************************************************)
(* Proofs about Enrollment, for any accounts, workers and bounds.          *)
(*                                                                         *)
(* The inductive invariant adds to the checked properties what ties the    *)
(* callbacks to the rows: whatever is queued is paid, a worker with        *)
(* nothing queued stands before the INSERT, and ids stay within the bound. *)
(***************************************************************************)
EXTENDS Enrollment, TLAPS, FiniteSetTheorems, FunctionTheorems, SequenceTheorems

QueuedArePaid == \A w \in Workers : \A i \in DOMAIN hooks[w] : hooks[w][i] \in Paid
IdleAtStart == \A w \in Workers : Idle(w) => stage[w] = "create"
Bounded == Len(enrollments) <= MaxEnrollments

IInv == TypeOK /\ QueuedArePaid /\ IdleAtStart /\ Bounded
            /\ OneEnrollmentPerPlayer /\ CreditNeedsAward

-----------------------------------------------------------------------------
(* Lemmas about the operators.                                             *)

\* Counting positions of a list gives a natural number.
LEMMA OccurrencesType ==
    ASSUME NEW n \in Nat, NEW T, NEW new \in [1..n -> T], NEW S
    PROVE  Occurrences(new, S) \in Nat
<1>1. IsFiniteSet(1..n) BY FS_Interval
<1>2. {i \in DOMAIN new : new[i] \in S} \subseteq 1..n OBVIOUS
<1>3. IsFiniteSet({i \in DOMAIN new : new[i] \in S}) BY <1>1, <1>2, FS_Subset
<1> QED BY <1>3, FS_CardinalityType DEF Occurrences

\* mark_paid only ever adds.
LEMMA MarkPaidTotalType ==
    ASSUME NEW n \in Nat, NEW new \in [1..n -> Players], NEW c, NEW s
    PROVE  MarkPaidTotal(new, c, s) \in Nat
<1>1. Occurrences(new, {s}) \in Nat BY OccurrencesType
<1>2. Occurrences(new, MembersOf(s)) \in Nat
    BY OccurrencesType
<1>3. Len(new) \in Nat
  <2>1. new \in Seq(Players) BY SeqDef
  <2> QED BY <2>1, LenProperties
<1>4. (IF s = c THEN 3 * Len(new) ELSE 0) \in Nat BY <1>3
<1>5. ASSUME NEW a \in Nat, NEW b \in Nat, NEW x \in Nat PROVE 4 * a + x + 2 * b \in Nat
    OBVIOUS
<1> QED BY <1>1, <1>2, <1>4, <1>5 DEF MarkPaidTotal

\* Every stage is worth a natural number of points.
LEMMA PointsType == \A st \in Stages : Points(st) \in Nat
BY DEF Points

\* The player stage credits a player, the others an account or nobody.
LEMMA RecipientType ==
    ASSUME TypeOK, NEW e \in Ids, NEW st \in Stages
    PROVE  /\ st = "player" => Recipient(e, st) \in Players
           /\ st # "create" => Recipient(e, st) \in Subjects \cup {NULL}
<1>1. enrollments[e] \in Row
    BY LenProperties, ElementOfSeq DEF TypeOK, Ids
<1>2. enrollments[e].player \in Players /\ enrollments[e].coach \in Coaches
    BY <1>1 DEF Row
<1> QED BY <1>2, EnrollmentAssumption DEF Recipient, Stages, Subjects

\* The stages of a credit are closed under "the next one".
LEMMA NextStageType == \A st \in Stages : NextStage(st) \in Stages
BY DEF NextStage, Stages

-----------------------------------------------------------------------------
(* What each kind of step leaves of the table.                             *)

\* A step that only appends rows keeps ids, paid rows and rows.
LEMMA AppendRows ==
    ASSUME TypeOK, NEW rows \in Seq(Row), enrollments' = enrollments \o rows
    PROVE  /\ enrollments' \in Seq(Row)
           /\ Len(enrollments') = Len(enrollments) + Len(rows)
           /\ Ids' = 1..(Len(enrollments) + Len(rows))
           /\ Ids \subseteq Ids'
           /\ \A i \in Ids : enrollments'[i] = enrollments[i]
           /\ \A j \in DOMAIN rows : /\ Len(enrollments) + j \in Ids'
                                     /\ enrollments'[Len(enrollments) + j] = rows[j]
           /\ Paid \subseteq Paid'
<1>1. enrollments \in Seq(Row) BY DEF TypeOK
<1>2. /\ enrollments' \in Seq(Row)
      /\ Len(enrollments') = Len(enrollments) + Len(rows)
    BY <1>1, ConcatProperties
<1>3. /\ Ids = 1..Len(enrollments) /\ DOMAIN rows = 1..Len(rows)
      /\ Ids' = 1..(Len(enrollments) + Len(rows))
      /\ Len(enrollments) \in Nat /\ Len(rows) \in Nat
    BY <1>1, <1>2, LenProperties DEF Ids
<1>4. \A i \in Ids' : enrollments'[i] = IF i <= Len(enrollments) THEN enrollments[i]
                                        ELSE rows[i - Len(enrollments)]
    BY <1>1, <1>3, ConcatProperties
<1>5. /\ Ids \subseteq Ids'
      /\ \A i \in Ids : enrollments'[i] = enrollments[i]
    BY <1>3, <1>4
<1>6. \A j \in DOMAIN rows : /\ Len(enrollments) + j \in Ids'
                             /\ enrollments'[Len(enrollments) + j] = rows[j]
    BY <1>3, <1>4
<1>7. Paid \subseteq Paid' BY <1>5 DEF Paid
<1> QED BY <1>2, <1>3, <1>5, <1>6, <1>7

\* What the two registering actions have in common: rows for players who had
\* none are appended, and an idle worker queues paid rows.
LEMMA Registered ==
    ASSUME IInv, NEW w \in Workers, Idle(w),
           NEW rows \in Seq(Row), enrollments' = enrollments \o rows,
           Len(enrollments) + Len(rows) <= MaxEnrollments,
           \A i, j \in DOMAIN rows : rows[i].player = rows[j].player => i = j,
           \A i \in DOMAIN rows : rows[i].player \notin Enrolled,
           NEW q \in Seq(Ids'), \A i \in DOMAIN q : q[i] \in Paid',
           hooks' = [hooks EXCEPT ![w] = q],
           UNCHANGED <<awards, stage>>
    PROVE  /\ enrollments' \in Seq(Row) /\ awards' \subseteq Ids'
           /\ hooks' \in [Workers -> Seq(Ids')]
           /\ QueuedArePaid' /\ IdleAtStart' /\ Bounded'
           /\ OneEnrollmentPerPlayer' /\ CreditNeedsAward'
<1>1. /\ enrollments' \in Seq(Row)
      /\ Len(enrollments') = Len(enrollments) + Len(rows)
      /\ Ids' = 1..(Len(enrollments) + Len(rows))
      /\ Ids \subseteq Ids'
      /\ \A i \in Ids : enrollments'[i] = enrollments[i]
      /\ \A j \in DOMAIN rows : /\ Len(enrollments) + j \in Ids'
                                /\ enrollments'[Len(enrollments) + j] = rows[j]
      /\ Paid \subseteq Paid'
    BY AppendRows DEF IInv
<1>2. Len(enrollments) \in Nat /\ Ids = 1..Len(enrollments)
      /\ Len(rows) \in Nat /\ DOMAIN rows = 1..Len(rows)
    BY LenProperties DEF IInv, TypeOK, Ids
<1>3. awards' \subseteq Ids' BY <1>1 DEF IInv, TypeOK
<1>4. hooks' \in [Workers -> Seq(Ids')]
  <2>1. ASSUME NEW v \in Workers PROVE hooks[v] \in Seq(Ids')
    <3>1. hooks[v] \in Seq(Ids) BY DEF IInv, TypeOK
    <3> QED BY <1>1, <3>1, SeqMonotonic
  <2> QED BY <2>1 DEF IInv, TypeOK
<1>5. \A v \in Workers : hooks'[v] = IF v = w THEN q ELSE hooks[v]
    BY DEF IInv, TypeOK
<1>6. QueuedArePaid' BY <1>1, <1>5 DEF IInv, QueuedArePaid
<1>7. stage[w] = "create" BY DEF IInv, IdleAtStart
<1>8. IdleAtStart' BY <1>5, <1>7 DEF IInv, IdleAtStart, Idle
<1>9. Bounded' BY <1>1 DEF Bounded
<1>10. OneEnrollmentPerPlayer'
  <2>1. \A i \in Ids' : i \in Ids \/ \E j \in DOMAIN rows : i = Len(enrollments) + j
    <3>1. \A i \in Ids' : i \notin Ids => i - Len(enrollments) \in DOMAIN rows
                              /\ i = Len(enrollments) + (i - Len(enrollments))
        BY <1>1, <1>2
    <3> QED BY <3>1
  <2>2. \A i, j \in Ids : enrollments'[i].player = enrollments'[j].player => i = j
      BY <1>1 DEF IInv, OneEnrollmentPerPlayer
  <2>3. \A i \in Ids, j \in DOMAIN rows :
            enrollments'[i].player # enrollments'[Len(enrollments) + j].player
      BY <1>1 DEF Enrolled
  <2>4. \A i, j \in DOMAIN rows :
            enrollments'[Len(enrollments) + i].player = enrollments'[Len(enrollments) + j].player
                => i = j
      BY <1>1
  <2>5. SUFFICES ASSUME NEW i \in Ids', NEW j \in Ids',
                        enrollments'[i].player = enrollments'[j].player
                 PROVE  i = j
      BY DEF OneEnrollmentPerPlayer
  <2>6. CASE i \in Ids /\ j \in Ids BY <2>2, <2>5, <2>6
  <2>7. CASE i \in Ids /\ j \notin Ids BY <2>1, <2>3, <2>5, <2>7
  <2>8. CASE i \notin Ids /\ j \in Ids BY <2>1, <2>3, <2>5, <2>8
  <2>9. CASE i \notin Ids /\ j \notin Ids
    <3>1. PICK a \in DOMAIN rows : i = Len(enrollments) + a BY <2>1, <2>9
    <3>2. PICK b \in DOMAIN rows : j = Len(enrollments) + b BY <2>1, <2>9
    <3> QED BY <2>4, <2>5, <3>1, <3>2
  <2> QED BY <2>6, <2>7, <2>8, <2>9
<1>11. \A v \in Workers : Crediting(v)' => Crediting(v) /\ hooks'[v] = hooks[v]
    BY <1>5, <1>7 DEF Crediting, Idle
<1>12. CreditNeedsAward'
    BY <1>1, <1>11 DEF IInv, CreditNeedsAward
<1> QED BY <1>1, <1>3, <1>4, <1>6, <1>8, <1>9, <1>10, <1>12

\* A player's own registration (views.py RegisterSelf) preserves the invariant.
LEMMA RegisterSelfInv ==
    ASSUME IInv, NEW w \in Workers, NEW p \in Players, NEW c \in Coaches, RegisterSelf(w, p, c)
    PROVE  IInv'
<1> DEFINE rows == <<SelfRow(p, c)>>
           q == <<Len(enrollments) + 1>>
<1>1. SelfRow(p, c) \in Row BY DEF SelfRow, Row, Statuses, Refs
<1>2. enrollments \in Seq(Row) /\ Len(enrollments) \in Nat BY LenProperties DEF IInv, TypeOK
<1>3. /\ rows \in Seq(Row) /\ Len(rows) = 1 /\ DOMAIN rows = {1} /\ rows[1] = SelfRow(p, c)
      /\ enrollments' = enrollments \o rows
    BY <1>1, <1>2, AppendIsConcat DEF RegisterSelf
<1>4. Len(enrollments) + Len(rows) <= MaxEnrollments
    BY <1>2, <1>3, EnrollmentAssumption DEF RegisterSelf
<1>5. /\ \A i, j \in DOMAIN rows : rows[i].player = rows[j].player => i = j
      /\ \A i \in DOMAIN rows : rows[i].player \notin Enrolled
  <2>1. rows[1].player = p BY <1>3 DEF SelfRow
  <2>2. p \notin Enrolled BY DEF RegisterSelf, SelfAdmissible
  <2> HIDE DEF rows
  <2> QED BY <1>3, <2>1, <2>2
<1>6. Len(enrollments) + 1 \in Paid'
  <2>1. Len(enrollments) + 1 \in Ids' /\ enrollments'[Len(enrollments) + 1] = SelfRow(p, c)
      BY <1>3, AppendRows DEF IInv
  <2>2. SelfRow(p, c).is_paid BY DEF SelfRow
  <2> QED BY <2>1, <2>2 DEF Paid
<1>7. q \in Seq(Ids') /\ \A i \in DOMAIN q : q[i] \in Paid'
    BY <1>6 DEF Paid
<1>8. hooks' = [hooks EXCEPT ![w] = q] /\ Idle(w) /\ UNCHANGED <<awards, stage>>
    BY DEF RegisterSelf, QueueAwards
<1>9. /\ enrollments' \in Seq(Row) /\ awards' \subseteq Ids'
      /\ hooks' \in [Workers -> Seq(Ids')]
      /\ QueuedArePaid' /\ IdleAtStart' /\ Bounded'
      /\ OneEnrollmentPerPlayer' /\ CreditNeedsAward'
  <2> HIDE DEF rows, q
  <2> QED BY <1>3, <1>4, <1>5, <1>7, <1>8, Registered
<1>10. TypeOK' BY <1>9 DEF IInv, TypeOK, RegisterSelf
<1> QED BY <1>9, <1>10 DEF IInv

\* The rows a coach's request creates are rows.
LEMMA CoachRows ==
    ASSUME NEW c \in Coaches, NEW new \in NewItems, NEW simulated \in BOOLEAN
    PROVE  [i \in 1..Len(new) |-> CoachRow(new[i], c, simulated)] \in Seq(Row)
<1>1. PICK k \in 1..MaxItems : new \in [1..k -> Players \ Enrolled] BY DEF NewItems
<1>2. k \in Nat /\ new \in [1..k -> Players] BY <1>1, EnrollmentAssumption
<1>3. Len(new) = k BY <1>2, SeqDef, LenProperties
<1>4. \A i \in 1..k : CoachRow(new[i], c, simulated) \in Row
    BY <1>2, EnrollmentAssumption DEF CoachRow, Row, Statuses, Refs
<1>5. [i \in 1..Len(new) |-> CoachRow(new[i], c, simulated)] \in [1..k -> Row] BY <1>3, <1>4
<1> QED BY <1>2, <1>5, SeqDef

\* A coach's list, paid or left for the gateway, preserves the invariant.
LEMMA CoachRegisterInv ==
    ASSUME IInv, NEW w \in Workers, NEW c \in Coaches, NEW new \in NewItems,
           NEW simulated \in BOOLEAN, CoachRegister(w, c, new, simulated)
    PROVE  IInv'
<1> DEFINE n == Len(enrollments)
           rows == [i \in 1..Len(new) |-> CoachRow(new[i], c, simulated)]
           q == IF simulated THEN [i \in 1..Len(new) |-> n + i] ELSE <<>>
<1>1. PICK k \in 1..MaxItems : /\ new \in [1..k -> Players \ Enrolled]
                               /\ \A i, j \in DOMAIN new : new[i] = new[j] => i = j
    BY DEF NewItems
<1>2. /\ k \in Nat /\ Len(new) = k /\ DOMAIN new = 1..k /\ new \in [1..k -> Players]
      /\ enrollments \in Seq(Row) /\ n \in Nat
  <2>1. k \in Nat BY EnrollmentAssumption
  <2>2. new \in Seq(Players) BY <1>1, <2>1, SeqDef
  <2> QED BY <1>1, <2>1, <2>2, LenProperties DEF IInv, TypeOK
<1>5. rows \in Seq(Row) BY CoachRows
<1>6. DOMAIN rows = 1..k /\ Len(rows) = k
  <2>1. DOMAIN rows = 1..k BY <1>2
  <2> HIDE DEF rows
  <2>2. 1..k = 1..Len(rows) /\ Len(rows) \in Nat BY <1>5, <2>1, LenProperties
  <2> QED BY <1>2, <2>1, <2>2
<1>7. enrollments' = enrollments \o rows /\ n + Len(rows) <= MaxEnrollments
    BY <1>2, <1>6 DEF CoachRegister
<1>8. /\ \A i, j \in DOMAIN rows : rows[i].player = rows[j].player => i = j
      /\ \A i \in DOMAIN rows : rows[i].player \notin Enrolled
    BY <1>1, <1>2, <1>6 DEF CoachRow
<1>9. q \in Seq(Ids') /\ \A i \in DOMAIN q : q[i] \in Paid'
  <2>1. CASE ~simulated BY <2>1
  <2>2. CASE simulated
    <3>1. \A i \in 1..k : n + i \in Ids' /\ enrollments'[n + i] = rows[i]
      <4> HIDE DEF rows
      <4> QED BY <1>5, <1>6, <1>7, AppendRows DEF IInv
    <3>2. \A i \in 1..k : n + i \in Paid'
      <4>1. \A i \in 1..k : rows[i].is_paid BY <1>2, <2>2 DEF CoachRow
      <4> HIDE DEF rows
      <4> QED BY <3>1, <4>1 DEF Paid
    <3>3. q = [i \in 1..k |-> n + i] BY <1>2, <2>2
    <3>4. q \in [1..k -> Ids'] BY <3>1, <3>3
    <3>5. q \in Seq(Ids') BY <1>2, <3>4, SeqDef
    <3> QED BY <3>2, <3>3, <3>5
  <2> QED BY <2>1, <2>2
<1>10. hooks' = [hooks EXCEPT ![w] = q]
  <2>1. CASE simulated BY <2>1 DEF CoachRegister, QueueAwards
  <2>2. CASE ~simulated
    <3>1. hooks[w] = <<>> /\ hooks' = hooks BY <2>2 DEF CoachRegister, Idle
    <3>2. q = <<>> BY <2>2
    <3> QED BY <3>1, <3>2 DEF IInv, TypeOK
  <2> QED BY <2>1, <2>2
<1>11. Idle(w) /\ UNCHANGED <<awards, stage>> BY DEF CoachRegister
<1>12. /\ enrollments' \in Seq(Row) /\ awards' \subseteq Ids'
       /\ hooks' \in [Workers -> Seq(Ids')]
       /\ QueuedArePaid' /\ IdleAtStart' /\ Bounded'
       /\ OneEnrollmentPerPlayer' /\ CreditNeedsAward'
  <2> HIDE DEF rows, q
  <2> QED BY <1>5, <1>7, <1>8, <1>9, <1>10, <1>11, Registered
<1>13. rankCompetition' \in [Players -> Nat] /\ rankTotal' \in [Subjects -> Nat]
  <2>1. CASE ~simulated BY <2>1 DEF CoachRegister, IInv, TypeOK
  <2>2. CASE simulated
    <3>1. \A p \in Players : Occurrences(new, {p}) \in Nat BY <1>2, OccurrencesType
    <3>2. \A s \in Subjects : MarkPaidTotal(new, c, s) \in Nat BY <1>2, MarkPaidTotalType
    <3>3. /\ rankCompetition' = [p \in Players |-> rankCompetition[p] + 4 * Occurrences(new, {p})]
          /\ rankTotal' = [s \in Subjects |-> rankTotal[s] + MarkPaidTotal(new, c, s)]
        BY <2>2 DEF CoachRegister
    <3>4. /\ \A p \in Players : rankCompetition[p] + 4 * Occurrences(new, {p}) \in Nat
          /\ \A s \in Subjects : rankTotal[s] + MarkPaidTotal(new, c, s) \in Nat
      <4>1. /\ \A p \in Players : rankCompetition[p] \in Nat
            /\ \A s \in Subjects : rankTotal[s] \in Nat
          BY DEF IInv, TypeOK
      <4>2. \A a, b \in Nat : a + b \in Nat /\ a + 4 * b \in Nat OBVIOUS
      <4> QED BY <3>1, <3>2, <4>1, <4>2
    <3> QED BY <3>3, <3>4
  <2> QED BY <2>1, <2>2
<1>14. TypeOK' BY <1>12, <1>13 DEF IInv, TypeOK, CoachRegister
<1> QED BY <1>12, <1>14 DEF IInv

\* The INSERT is where a worker becomes the only one to credit an enrollment.
LEMMA AwardCreateInv ==
    ASSUME IInv, NEW w \in Workers, AwardCreate(w)
    PROVE  IInv'
<1> DEFINE h == Head(hooks[w])
<1>1. hooks[w] \in Seq(Ids) /\ hooks[w] # <<>> BY DEF IInv, TypeOK, AwardCreate, Idle
<1>2. 1 \in DOMAIN hooks[w] /\ h = hooks[w][1] BY <1>1, EmptySeq, LenProperties
<1>3. h \in Paid BY <1>2 DEF IInv, QueuedArePaid
<1>4. h \in Ids BY <1>3 DEF Paid
<1>5. /\ Ids' = Ids /\ Paid' = Paid /\ hooks' = hooks
      /\ awards' = awards \cup {h} /\ h \notin awards
      /\ stage' = [stage EXCEPT ![w] = "player"]
    BY DEF AwardCreate, Ids, Paid
<1>6. \A v \in Workers : stage'[v] = IF v = w THEN "player" ELSE stage[v]
    BY <1>5 DEF IInv, TypeOK
<1>7. TypeOK'
    BY <1>4, <1>5 DEF IInv, TypeOK, AwardCreate, Stages
<1>8. QueuedArePaid' /\ Bounded' /\ OneEnrollmentPerPlayer'
    BY <1>5 DEF IInv, QueuedArePaid, Bounded, OneEnrollmentPerPlayer, AwardCreate
<1>9. IdleAtStart'
    BY <1>1, <1>5, <1>6 DEF IInv, IdleAtStart, Idle
<1>10. \A v \in Workers : v # w => (Crediting(v)' <=> Crediting(v))
    BY <1>5, <1>6 DEF Crediting, Idle
<1>11. CreditNeedsAward'
  <2>1. awards' \subseteq Paid' BY <1>3, <1>5 DEF IInv, CreditNeedsAward
  <2>2. \A v \in Workers : v # w /\ Crediting(v)' => Head(hooks[v]) \in awards
      BY <1>10 DEF IInv, CreditNeedsAward
  <2>3. \A v \in Workers : Crediting(v)' => Head(hooks'[v]) \in awards'
      BY <1>5, <2>2
  <2>4. \A u, v \in Workers :
            Crediting(u)' /\ Crediting(v)' /\ Head(hooks'[u]) = Head(hooks'[v]) => u = v
    <3>1. \A u, v \in Workers :
              u # w /\ v # w /\ Crediting(u)' /\ Crediting(v)' /\ Head(hooks[u]) = Head(hooks[v])
                  => u = v
        BY <1>10 DEF IInv, CreditNeedsAward
    <3>2. \A v \in Workers : v # w /\ Crediting(v)' => Head(hooks[v]) # h
        BY <1>5, <2>2
    <3> QED BY <1>5, <3>1, <3>2
  <2> QED BY <2>1, <2>3, <2>4 DEF CreditNeedsAward
<1> QED BY <1>7, <1>8, <1>9, <1>11 DEF IInv

\* A worker that drops its whole queue stops crediting and disturbs nobody.
LEMMA QueueDropped ==
    ASSUME IInv, NEW w \in Workers, hooks' = [hooks EXCEPT ![w] = <<>>],
           stage'[w] = "create", \A v \in Workers \ {w} : stage'[v] = stage[v],
           UNCHANGED <<enrollments, awards>>
    PROVE  /\ hooks' \in [Workers -> Seq(Ids')]
           /\ QueuedArePaid' /\ IdleAtStart' /\ Bounded'
           /\ OneEnrollmentPerPlayer' /\ CreditNeedsAward'
<1>1. \A v \in Workers : hooks'[v] = IF v = w THEN <<>> ELSE hooks[v]
    BY DEF IInv, TypeOK
<1>2. Ids' = Ids /\ Paid' = Paid BY DEF Ids, Paid
<1>3. hooks' \in [Workers -> Seq(Ids')] BY <1>2 DEF IInv, TypeOK
<1>4. QueuedArePaid' BY <1>1, <1>2 DEF IInv, QueuedArePaid
<1>5. IdleAtStart' BY <1>1 DEF IInv, IdleAtStart, Idle
<1>6. Bounded' /\ OneEnrollmentPerPlayer'
    BY <1>2 DEF IInv, Bounded, OneEnrollmentPerPlayer
<1>7. \A v \in Workers : Crediting(v)' => Crediting(v) /\ hooks'[v] = hooks[v]
    BY <1>1 DEF Crediting, Idle
<1>8. CreditNeedsAward' BY <1>2, <1>7 DEF IInv, CreditNeedsAward
<1> QED BY <1>3, <1>4, <1>5, <1>6, <1>8

\* The IntegrityError of a second INSERT preserves the invariant.
LEMMA AwardRefusedInv ==
    ASSUME IInv, NEW w \in Workers, AwardRefused(w)
    PROVE  IInv'
<1>1. /\ hooks' = [hooks EXCEPT ![w] = <<>>]
      /\ stage' = stage /\ stage[w] = "create" /\ UNCHANGED <<enrollments, awards>>
    BY DEF AwardRefused
<1>2. /\ hooks' \in [Workers -> Seq(Ids')]
      /\ QueuedArePaid' /\ IdleAtStart' /\ Bounded'
      /\ OneEnrollmentPerPlayer' /\ CreditNeedsAward'
    BY <1>1, QueueDropped
<1>3. TypeOK' BY <1>2 DEF IInv, TypeOK, AwardRefused, Ids
<1> QED BY <1>2, <1>3 DEF IInv

\* Losing the callbacks of a dead worker preserves the invariant.
LEMMA CrashInv ==
    ASSUME IInv, NEW w \in Workers, Crash(w)
    PROVE  IInv'
<1>1. /\ hooks' = [hooks EXCEPT ![w] = <<>>]
      /\ stage' = [stage EXCEPT ![w] = "create"] /\ UNCHANGED <<enrollments, awards>>
    BY DEF Crash
<1>2. stage'[w] = "create" /\ \A v \in Workers \ {w} : stage'[v] = stage[v]
    BY <1>1 DEF IInv, TypeOK
<1>3. /\ hooks' \in [Workers -> Seq(Ids')]
      /\ QueuedArePaid' /\ IdleAtStart' /\ Bounded'
      /\ OneEnrollmentPerPlayer' /\ CreditNeedsAward'
    BY <1>1, <1>2, QueueDropped
<1>4. crashes' \in 0..MaxCrashes
    BY EnrollmentAssumption DEF IInv, TypeOK, Crash
<1>5. TypeOK' BY <1>1, <1>3, <1>4 DEF IInv, TypeOK, Crash, Ids, Stages
<1> QED BY <1>3, <1>5 DEF IInv

\* Crediting moves on by one account, or to the next queued enrollment.
LEMMA AwardCreditInv ==
    ASSUME IInv, NEW w \in Workers, AwardCredit(w)
    PROVE  IInv'
<1> DEFINE s == Recipient(Head(hooks[w]), stage[w])
<1>1. hooks[w] \in Seq(Ids) /\ hooks[w] # <<>> /\ stage[w] \in Stages /\ stage[w] # "create"
    BY DEF IInv, TypeOK, AwardCredit, Idle
<1>2. /\ Head(hooks[w]) \in Ids /\ Tail(hooks[w]) \in Seq(Ids)
      /\ \A i \in DOMAIN Tail(hooks[w]) : /\ i + 1 \in DOMAIN hooks[w]
                                          /\ Tail(hooks[w])[i] = hooks[w][i + 1]
    BY <1>1, HeadTailProperties, LenProperties
<1>3. /\ Ids' = Ids /\ Paid' = Paid /\ UNCHANGED <<enrollments, awards>>
      /\ stage' = [stage EXCEPT ![w] = NextStage(stage[w])]
      /\ hooks' = IF stage[w] = "board" THEN [hooks EXCEPT ![w] = Tail(@)] ELSE hooks
    BY DEF AwardCredit, Ids, Paid
<1>4. \A v \in Workers : /\ v # w => stage'[v] = stage[v] /\ hooks'[v] = hooks[v]
                         /\ v = w => stage'[v] = NextStage(stage[w])
    BY <1>3 DEF IInv, TypeOK
<1>5. hooks'[w] = IF stage[w] = "board" THEN Tail(hooks[w]) ELSE hooks[w]
    BY <1>3 DEF IInv, TypeOK
<1>6. hooks' \in [Workers -> Seq(Ids')]
    BY <1>2, <1>3 DEF IInv, TypeOK
<1>7. QueuedArePaid'
    BY <1>2, <1>3, <1>4, <1>5 DEF IInv, QueuedArePaid
<1>8. IdleAtStart'
    BY <1>1, <1>4, <1>5 DEF IInv, IdleAtStart, Idle, NextStage, Stages
<1>9. Bounded' /\ OneEnrollmentPerPlayer'
    BY <1>3 DEF IInv, Bounded, OneEnrollmentPerPlayer
<1>10. \A v \in Workers : Crediting(v)' => Crediting(v) /\ hooks'[v] = hooks[v]
    BY <1>1, <1>4, <1>5 DEF Crediting, Idle, NextStage, Stages
<1>11. CreditNeedsAward'
  <2>1. awards' = awards /\ Paid' = Paid BY <1>3
  <2> QED BY <1>10, <2>1 DEF IInv, CreditNeedsAward
<1>12. stage' \in [Workers -> Stages]
    BY <1>1, <1>3, NextStageType DEF IInv, TypeOK
<1>13. Points(stage[w]) \in Nat /\ Points("player") \in Nat BY <1>1, PointsType DEF Stages
<1>14. rankCompetition' \in [Players -> Nat] /\ rankTotal' \in [Subjects -> Nat]
  <2>1. CASE stage[w] = "player"
    <3>1. s \in Players BY <1>1, <1>2, <2>1, RecipientType DEF IInv
    <3>2. rankCompetition[s] + Points("player") \in Nat BY <1>13, <3>1 DEF IInv, TypeOK
    <3> QED BY <2>1, <3>1, <3>2 DEF AwardCredit, IInv, TypeOK
  <2>2. CASE stage[w] # "player" /\ s = NULL
    BY <2>2 DEF AwardCredit, IInv, TypeOK
  <2>3. CASE stage[w] # "player" /\ s # NULL
    <3>1. s \in Subjects BY <1>1, <1>2, <2>3, RecipientType DEF IInv
    <3>2. rankTotal[s] + Points(stage[w]) \in Nat BY <1>13, <3>1 DEF IInv, TypeOK
    <3> QED BY <2>3, <3>1, <3>2 DEF AwardCredit, IInv, TypeOK
  <2> QED BY <2>1, <2>2, <2>3
<1>15. TypeOK' BY <1>3, <1>6, <1>12, <1>14 DEF IInv, TypeOK, AwardCredit
<1> QED BY <1>7, <1>8, <1>9, <1>11, <1>15 DEF IInv

\* Saving medals rewrites one column: players, coaches and payments stay.
LEMMA SaveMedalsRows ==
    ASSUME IInv, NEW w \in Workers, NEW pod \in Podiums, SaveMedals(w, pod)
    PROVE  /\ enrollments' \in Seq(Row) /\ Ids' = Ids
           /\ Len(enrollments') = Len(enrollments)
           /\ \A e \in Ids : /\ enrollments'[e].player = enrollments[e].player
                             /\ enrollments'[e].coach = enrollments[e].coach
                             /\ enrollments'[e].is_paid <=> enrollments[e].is_paid
                             /\ enrollments'[e].bank_ref_code = enrollments[e].bank_ref_code
           /\ Paid' = Paid
<1> DEFINE Changed(e) == \E i \in DOMAIN pod : pod[i] = e /\ enrollments[e].medal # Medals[i]
           medal(e) == Medals[CHOOSE i \in DOMAIN pod : pod[i] = e]
<1>1. Ids = 1..Len(enrollments) /\ Len(enrollments) \in Nat /\ \A e \in Ids : enrollments[e] \in Row
    BY LenProperties, ElementOfSeq DEF IInv, TypeOK, Ids
<1>2. enrollments' = [e \in Ids |-> IF Changed(e) THEN [enrollments[e] EXCEPT !.medal = medal(e)]
                                    ELSE enrollments[e]]
    BY DEF SaveMedals
<1>3. \A e \in Ids : Changed(e) => medal(e) \in {"", "gold", "silver", "bronze"}
  <2>1. PICK n \in 1..MaxPodium : pod \in [1..n -> Ids] BY DEF Podiums
  <2>2. \A i \in DOMAIN pod : Medals[i] \in {"", "gold", "silver", "bronze"}
    <3>1. DOMAIN pod \subseteq 1..4 BY <2>1, EnrollmentAssumption
    <3>2. \A i \in 1..4 : i = 1 \/ i = 2 \/ i = 3 \/ i = 4 OBVIOUS
    <3>3. Medals[1] = "gold" /\ Medals[2] = "silver" /\ Medals[3] = "bronze" /\ Medals[4] = "bronze"
        BY DEF Medals
    <3> QED BY <3>1, <3>2, <3>3
  <2>3. \A e \in Ids : Changed(e) => (CHOOSE i \in DOMAIN pod : pod[i] = e) \in DOMAIN pod
      OBVIOUS
  <2> QED BY <2>2, <2>3
<1>4. \A e \in Ids : /\ enrollments'[e] \in Row
                     /\ enrollments'[e].player = enrollments[e].player
                     /\ enrollments'[e].coach = enrollments[e].coach
                     /\ enrollments'[e].is_paid <=> enrollments[e].is_paid
                     /\ enrollments'[e].bank_ref_code = enrollments[e].bank_ref_code
  <2>1. SUFFICES ASSUME NEW e \in Ids
                 PROVE  /\ enrollments'[e] \in Row
                        /\ enrollments'[e].player = enrollments[e].player
                        /\ enrollments'[e].coach = enrollments[e].coach
                        /\ enrollments'[e].is_paid <=> enrollments[e].is_paid
                        /\ enrollments'[e].bank_ref_code = enrollments[e].bank_ref_code
      OBVIOUS
  <2>2. enrollments[e] \in Row BY <1>1
  <2>3. CASE ~Changed(e)
    <3>1. enrollments'[e] = enrollments[e] BY <1>2, <2>3
    <3> QED BY <2>2, <3>1
  <2>4. CASE Changed(e)
    <3>1. enrollments'[e] = [enrollments[e] EXCEPT !.medal = medal(e)] BY <1>2, <2>4
    <3>2. medal(e) \in {"", "gold", "silver", "bronze"} BY <1>3, <2>4
    <3> HIDE DEF medal, Changed
    <3>3. enrollments'[e] \in Row BY <2>2, <3>1, <3>2 DEF Row
    <3>4. /\ enrollments'[e].player = enrollments[e].player
          /\ enrollments'[e].coach = enrollments[e].coach
          /\ enrollments'[e].is_paid = enrollments[e].is_paid
          /\ enrollments'[e].bank_ref_code = enrollments[e].bank_ref_code
        BY <2>2, <3>1 DEF Row
    <3> QED BY <3>3, <3>4
  <2> QED BY <2>3, <2>4
<1>5. enrollments' \in [1..Len(enrollments) -> Row] BY <1>1, <1>2, <1>4
<1>6. enrollments' \in Seq(Row) BY <1>1, <1>5, SeqDef
<1>7. Ids' = Ids /\ Len(enrollments') = Len(enrollments) BY <1>1, <1>5, <1>6, LenProperties DEF Ids
<1>8. Paid' = Paid BY <1>4, <1>7 DEF Paid
<1> QED BY <1>4, <1>6, <1>7, <1>8

\* Saving medals, which fires the signal again, preserves the invariant.
LEMMA SaveMedalsInv ==
    ASSUME IInv, NEW w \in Workers, NEW pod \in Podiums, SaveMedals(w, pod)
    PROVE  IInv'
<1>1. /\ enrollments' \in Seq(Row) /\ Ids' = Ids
      /\ Len(enrollments') = Len(enrollments)
      /\ \A e \in Ids : enrollments'[e].player = enrollments[e].player
      /\ Paid' = Paid
    BY SaveMedalsRows
<1>2. /\ UNCHANGED <<regOpen, inDates, approved, awards, stage, rankCompetition, rankTotal, crashes>>
      /\ Idle(w)
    BY DEF SaveMedals
<1>3. PICK q \in Podiums \cup {<<>>} : /\ Range(q) \subseteq Paid
                                       /\ hooks' = [hooks EXCEPT ![w] = q]
    BY DEF SaveMedals, QueueAwards
<1>4. q \in Seq(Ids)
  <2>1. CASE q = <<>> BY <2>1
  <2>2. CASE q \in Podiums
    <3>1. PICK n \in 1..MaxPodium : q \in [1..n -> Ids] BY <2>2 DEF Podiums
    <3>2. n \in Nat BY EnrollmentAssumption
    <3> QED BY <3>1, <3>2, SeqDef
  <2> QED BY <1>3, <2>1, <2>2
<1>5. \A i \in DOMAIN q : q[i] \in Paid BY <1>3 DEF Range
<1>6. \A v \in Workers : hooks'[v] = IF v = w THEN q ELSE hooks[v]
    BY <1>3 DEF IInv, TypeOK
<1>7. hooks' \in [Workers -> Seq(Ids')] BY <1>1, <1>3, <1>4 DEF IInv, TypeOK
<1>8. TypeOK' BY <1>1, <1>2, <1>7 DEF IInv, TypeOK
<1>9. QueuedArePaid' BY <1>1, <1>5, <1>6 DEF IInv, QueuedArePaid
<1>10. stage[w] = "create" BY <1>2 DEF IInv, IdleAtStart
<1>11. IdleAtStart' BY <1>2, <1>6, <1>10 DEF IInv, IdleAtStart, Idle
<1>12. Bounded' /\ OneEnrollmentPerPlayer'
    BY <1>1 DEF IInv, Bounded, OneEnrollmentPerPlayer
<1>13. \A v \in Workers : Crediting(v)' => Crediting(v) /\ hooks'[v] = hooks[v]
    BY <1>2, <1>6, <1>10 DEF Crediting, Idle
<1>14. CreditNeedsAward'
  <2>1. awards' = awards /\ Paid' = Paid BY <1>1, <1>2
  <2> QED BY <1>13, <2>1 DEF IInv, CreditNeedsAward
<1> QED BY <1>8, <1>9, <1>11, <1>12, <1>14 DEF IInv

\* Steps that touch neither the table nor the callbacks.
LEMMA StaffInv ==
    ASSUME IInv,
           \/ SetRegistrationOpen
           \/ \E c \in Coaches : ApproveTerms(c) \/ DeleteApproval(c)
           \/ UNCHANGED vars
    PROVE  IInv'
<1>1. UNCHANGED <<enrollments, awards, hooks, stage, rankCompetition, rankTotal, crashes>>
    BY DEF SetRegistrationOpen, ApproveTerms, DeleteApproval, vars
<1>2. regOpen' \in BOOLEAN /\ inDates' \in BOOLEAN /\ approved' \subseteq Coaches
    BY DEF SetRegistrationOpen, ApproveTerms, DeleteApproval, vars, IInv, TypeOK
<1>3. Ids' = Ids /\ Paid' = Paid BY <1>1 DEF Ids, Paid
<1>4. TypeOK' BY <1>1, <1>2, <1>3 DEF IInv, TypeOK
<1>5. QueuedArePaid' /\ IdleAtStart' /\ Bounded' /\ OneEnrollmentPerPlayer'
    BY <1>1, <1>3 DEF IInv, QueuedArePaid, IdleAtStart, Idle, Bounded, OneEnrollmentPerPlayer
<1>6. CreditNeedsAward' BY <1>1, <1>3 DEF IInv, CreditNeedsAward, Crediting, Idle
<1> QED BY <1>4, <1>5, <1>6 DEF IInv

\* An empty competition satisfies the invariant.
LEMMA InitInv == Init => IInv
<1> SUFFICES ASSUME Init PROVE IInv OBVIOUS
<1>1. enrollments = <<>> /\ Len(enrollments) = 0 /\ Ids = {} /\ Paid = {}
    BY DEF Init, Ids, Paid
<1>2. TypeOK BY <1>1, EnrollmentAssumption DEF Init, TypeOK, Stages
<1>3. Bounded BY <1>1, EnrollmentAssumption DEF Bounded
<1>4. QueuedArePaid /\ IdleAtStart /\ OneEnrollmentPerPlayer
    BY <1>1 DEF Init, QueuedArePaid, IdleAtStart, OneEnrollmentPerPlayer
<1>5. CreditNeedsAward BY <1>1 DEF Init, CreditNeedsAward, Crediting
<1> QED BY <1>2, <1>3, <1>4, <1>5 DEF IInv

\* Every step of the system preserves the invariant.
LEMMA NextInv == IInv /\ [Next]_vars => IInv'
<1> SUFFICES ASSUME IInv, [Next]_vars PROVE IInv' OBVIOUS
<1>1. CASE SetRegistrationOpen \/ UNCHANGED vars BY <1>1, StaffInv
<1>2. CASE \E c \in Coaches : ApproveTerms(c) \/ DeleteApproval(c) BY <1>2, StaffInv
<1>3. CASE \E w \in Workers, c \in Coaches, p \in Players : RegisterSelf(w, p, c)
    BY <1>3, RegisterSelfInv
<1>4. CASE \E w \in Workers, c \in Coaches : \E new \in NewItems, simulated \in SimulatePaid :
             CoachRegister(w, c, new, simulated)
    BY <1>4, CoachRegisterInv, EnrollmentAssumption
<1>5. CASE \E w \in Workers : Deliver(w)
    BY <1>5, AwardCreateInv, AwardRefusedInv, AwardCreditInv DEF Deliver
<1>6. CASE \E w \in Workers : Crash(w) BY <1>6, CrashInv
<1>7. CASE \E w \in Workers, pod \in Podiums : SaveMedals(w, pod) BY <1>7, SaveMedalsInv
<1> QED BY <1>1, <1>2, <1>3, <1>4, <1>5, <1>6, <1>7 DEF Next

-----------------------------------------------------------------------------
(* The scores: who is due what, and who still has to add it.  The lemmas    *)
(* speak of any stage of a credit and any account at once.                  *)

CreditStages == Stages \ {"create"}

CompetitionBalanced(p) ==
    LET claimed == rankCompetition[p] + InFlightCompetition(p)
    IN claimed <= DueCompetition(p) /\ DueCompetition(p) <= claimed + 4 * crashes

TotalBalanced(s) ==
    LET claimed == rankTotal[s] + InFlightTotal(s)
    IN claimed <= DueTotal(s) /\ DueTotal(s) <= claimed + 3 * crashes

Balanced == /\ \A p \in Players : CompetitionBalanced(p)
            /\ \A s \in Subjects : TotalBalanced(s)

LEMMA BalancedIs == LedgerReconciled <=> Balanced
BY DEF LedgerReconciled, CompetitionReconciled, TotalsReconciled, Balanced, CompetitionBalanced,
       TotalBalanced

\* The counts LedgerReconciled is about are natural numbers.
LEMMA CountsType ==
    ASSUME IInv
    PROVE  /\ \A S : IsFiniteSet(DirectOf(S)) /\ Cardinality(DirectOf(S)) \in Nat
           /\ \A s : IsFiniteSet(DirectBy(s)) /\ Cardinality(DirectBy(s)) \in Nat
           /\ \A st, s : IsFiniteSet(Awarded(st, s)) /\ Cardinality(Awarded(st, s)) \in Nat
           /\ \A st, s : IsFiniteSet(Owing(st, s)) /\ Cardinality(Owing(st, s)) \in Nat
           /\ crashes \in Nat /\ \A p \in Players : rankCompetition[p] \in Nat
           /\ \A s \in Subjects : rankTotal[s] \in Nat
<1>1. Ids = 1..Len(enrollments) /\ Len(enrollments) \in Nat
  BY LenProperties DEF IInv, TypeOK, Ids
<1>2. IsFiniteSet(Ids)
  BY <1>1, FS_Interval
<1>3. /\ \A S : DirectOf(S) \subseteq Ids
      /\ \A s : DirectBy(s) \subseteq Ids
      /\ \A st, s : Awarded(st, s) \subseteq Ids
      /\ \A st, s : Owing(st, s) \subseteq Workers
  BY DEF DirectOf, DirectBy, Direct, Paid, Awarded, Owing, Creditors, IInv, TypeOK
<1>4. /\ \A S : IsFiniteSet(DirectOf(S))
      /\ \A s : IsFiniteSet(DirectBy(s))
      /\ \A st, s : IsFiniteSet(Awarded(st, s))
      /\ \A st, s : IsFiniteSet(Owing(st, s))
  BY <1>2, <1>3, EnrollmentAssumption, FS_Subset
<1>5. crashes \in Nat /\ (\A p \in Players : rankCompetition[p] \in Nat)
      /\ \A s \in Subjects : rankTotal[s] \in Nat
  BY EnrollmentAssumption DEF IInv, TypeOK
<1> QED BY <1>4, <1>5, FS_CardinalityType

\* Rows keep the two columns a recipient is found by.
SameAccounts == \A e \in Ids : /\ enrollments'[e].player = enrollments[e].player
                               /\ enrollments'[e].coach = enrollments[e].coach

LEMMA SameRecipient ==
    ASSUME SameAccounts, NEW e \in Ids, NEW st \in CreditStages
    PROVE  Recipient(e, st)' = Recipient(e, st)
BY DEF SameAccounts, Recipient, CreditStages, Stages

\* What a worker still has to credit stays, unless the step is its own.
LEMMA SameOwing ==
    ASSUME IInv, NEW st \in CreditStages, NEW s, NEW w \in Workers, SameAccounts,
           \A v \in Workers \ {w} : hooks'[v] = hooks[v] /\ stage'[v] = stage[v]
    PROVE  Owing(st, s)' \ {w} = Owing(st, s) \ {w}
<1>1. \A v \in Workers : Crediting(v) => Head(hooks[v]) \in Ids
  BY DEF IInv, CreditNeedsAward, TypeOK
<1>2. ASSUME NEW v \in Workers \ {w} PROVE v \in Owing(st, s)' <=> v \in Owing(st, s)
  <2>1. Crediting(v)' <=> Crediting(v)
    BY DEF Crediting, Idle
  <2>2. CASE Crediting(v)
    <3>1. PICK h \in Ids : h = Head(hooks[v])
      BY <1>1, <2>2
    <3>2. Recipient(h, st)' = Recipient(h, st)
      BY SameRecipient
    <3>3. Recipient(Head(hooks[v]), st)' = Recipient(h, st)'
      BY <3>1 DEF Recipient
    <3> QED BY <2>1, <2>2, <3>1, <3>2, <3>3 DEF Owing, Creditors
  <2> QED BY <2>1, <2>2 DEF Owing, Creditors
<1> QED BY <1>2 DEF Owing, Creditors

\* A worker that neither was nor is crediting changes nobody's claim.
LEMMA IdleOwing ==
    ASSUME IInv, NEW st \in CreditStages, NEW s, NEW w \in Workers, SameAccounts,
           ~Crediting(w), ~Crediting(w)',
           \A v \in Workers \ {w} : hooks'[v] = hooks[v] /\ stage'[v] = stage[v]
    PROVE  Owing(st, s)' = Owing(st, s)
<1>1. Owing(st, s)' \ {w} = Owing(st, s) \ {w}
  BY SameOwing
<1>2. w \notin Owing(st, s) /\ w \notin Owing(st, s)'
  BY DEF Owing, Creditors
<1> QED BY <1>1, <1>2

\* Rows that keep their accounts, the payment and its reference are due the
\* same; what is due besides is due for rows that are new.
LEMMA SameDue ==
    ASSUME IInv, Ids \subseteq Ids', awards' = awards, SameAccounts,
           \A e \in Ids : /\ enrollments'[e].is_paid <=> enrollments[e].is_paid
                          /\ enrollments'[e].bank_ref_code = enrollments[e].bank_ref_code
    PROVE  /\ \A st \in CreditStages : \A s : Awarded(st, s)' = Awarded(st, s)
           /\ \A S : DirectOf(S)' = DirectOf(S) \cup {e \in Direct' \ Ids : enrollments'[e].player \in S}
           /\ \A s : DirectBy(s)' = DirectBy(s) \cup {e \in Direct' \ Ids : enrollments'[e].coach = s}
<1>1. ASSUME NEW st \in CreditStages, NEW s PROVE Awarded(st, s)' = Awarded(st, s)
  <2>1. awards \subseteq Ids
    BY DEF IInv, TypeOK
  <2>2. \A e \in awards : Recipient(e, st)' = Recipient(e, st)
    BY <2>1, SameRecipient
  <2> QED BY <2>2 DEF Awarded
<1>2. \A e \in Ids : e \in Direct' <=> e \in Direct
  BY DEF Direct, Paid
<1>3. Direct \subseteq Ids
  BY DEF Direct, Paid
<1>4. ASSUME NEW S
      PROVE  DirectOf(S)' = DirectOf(S) \cup {e \in Direct' \ Ids : enrollments'[e].player \in S}
  BY <1>2, <1>3 DEF DirectOf, SameAccounts
<1>5. ASSUME NEW s
      PROVE  DirectBy(s)' = DirectBy(s) \cup {e \in Direct' \ Ids : enrollments'[e].coach = s}
  BY <1>2, <1>3 DEF DirectBy, SameAccounts
<1> QED BY <1>1, <1>4, <1>5

\* Nothing that is due and nothing that is claimed changes.
SameCounts ==
    /\ \A S : DirectOf(S)' = DirectOf(S)
    /\ \A s : DirectBy(s)' = DirectBy(s)
    /\ \A st \in CreditStages : \A s : Awarded(st, s)' = Awarded(st, s)
    /\ \A st \in CreditStages : \A s : Owing(st, s)' = Owing(st, s)

LEMMA QuietStep ==
    ASSUME Balanced, SameCounts, UNCHANGED <<rankCompetition, rankTotal, crashes>>
    PROVE  Balanced'
<1>1. {"player", "coach", "club", "board"} = CreditStages
  BY DEF CreditStages, Stages
<1>2. \A p \in Players : DueCompetition(p)' = DueCompetition(p)
                         /\ InFlightCompetition(p)' = InFlightCompetition(p)
  BY <1>1 DEF DueCompetition, InFlightCompetition, SameCounts
<1>3. \A s \in Subjects : DueTotal(s)' = DueTotal(s) /\ InFlightTotal(s)' = InFlightTotal(s)
  BY <1>1 DEF DueTotal, InFlightTotal, SameCounts, MembersOf
<1> QED BY <1>2, <1>3 DEF Balanced, CompetitionBalanced, TotalBalanced

LEMMA StutterBalanced ==
    ASSUME Balanced,
           UNCHANGED <<enrollments, awards, hooks, stage, rankCompetition, rankTotal, crashes>>
    PROVE  Balanced'
<1>1. SameCounts
  BY DEF SameCounts, DirectOf, DirectBy, Direct, Paid, Ids, Awarded, Owing, Creditors, Crediting,
         Idle, Recipient
<1> QED BY <1>1, QuietStep

\* A request begins in an idle worker and leaves only callbacks behind.
LEMMA RequestOwing ==
    ASSUME IInv, NEW st \in CreditStages, NEW s, NEW w \in Workers, Idle(w), UNCHANGED stage,
           NEW q, hooks' = [hooks EXCEPT ![w] = q], SameAccounts
    PROVE  Owing(st, s)' = Owing(st, s)
<1>1. \A v \in Workers \ {w} : hooks'[v] = hooks[v] /\ stage'[v] = stage[v]
  BY DEF IInv, TypeOK
<1>2. ~Crediting(w) /\ ~Crediting(w)'
  BY DEF IInv, IdleAtStart, Crediting
<1> QED BY <1>1, <1>2, IdleOwing

LEMMA RegisterSelfBalanced ==
    ASSUME IInv, Balanced, NEW w \in Workers, NEW r \in Players, NEW c \in Coaches,
           RegisterSelf(w, r, c)
    PROVE  Balanced'
<1> DEFINE rows == <<SelfRow(r, c)>>
<1>1. SelfRow(r, c) \in Row /\ enrollments \in Seq(Row)
  BY DEF SelfRow, Row, Statuses, Refs, IInv, TypeOK
<1>2. rows \in Seq(Row) /\ Len(rows) = 1 /\ rows[1] = SelfRow(r, c) /\ DOMAIN rows = {1}
      /\ enrollments' = enrollments \o rows
  BY <1>1, AppendIsConcat DEF RegisterSelf
<1> HIDE DEF rows
<1>3. /\ Ids' = 1..(Len(enrollments) + 1) /\ Ids \subseteq Ids'
      /\ \A i \in Ids : enrollments'[i] = enrollments[i]
      /\ enrollments'[Len(enrollments) + 1] = SelfRow(r, c)
      /\ Ids = 1..Len(enrollments) /\ Len(enrollments) \in Nat
  BY <1>1, <1>2, AppendRows, LenProperties DEF IInv, Ids
<1>4. \A e \in Ids' \ Ids : e = Len(enrollments) + 1
  BY <1>3
<1>5. SelfRow(r, c).bank_ref_code # "TEST-COACH"
  BY DEF SelfRow
<1>6. Direct' \ Ids = {}
  BY <1>3, <1>4, <1>5 DEF Direct, Paid
<1>7. SameAccounts
  BY <1>3 DEF SameAccounts
<1>8. /\ \A S : DirectOf(S)' = DirectOf(S)
      /\ \A s : DirectBy(s)' = DirectBy(s)
      /\ \A st \in CreditStages : \A s : Awarded(st, s)' = Awarded(st, s)
  BY <1>3, <1>6, <1>7, SameDue DEF RegisterSelf
<1>9. \A st \in CreditStages : \A s : Owing(st, s)' = Owing(st, s)
  BY <1>7, RequestOwing DEF RegisterSelf, QueueAwards
<1> QED BY <1>8, <1>9, QuietStep DEF RegisterSelf, SameCounts

\* Numbering a set of positions from n on keeps its size.
LEMMA ShiftedCount ==
    ASSUME NEW n \in Nat, NEW k \in Nat, NEW P \in SUBSET (1..k)
    PROVE  /\ IsFiniteSet(P) /\ IsFiniteSet({n + i : i \in P})
           /\ Cardinality({n + i : i \in P}) = Cardinality(P) /\ Cardinality(P) \in Nat
<1>1. IsFiniteSet(P)
  <2>1. IsFiniteSet(1..k)
    BY FS_Interval
  <2> QED BY <2>1, FS_Subset
<1> DEFINE f == [i \in P |-> n + i]
<1>2. f \in Bijection(P, {n + i : i \in P})
  <2>1. f \in [P -> {n + i : i \in P}]
    OBVIOUS
  <2>2. \A i, j \in P : f[i] = f[j] => i = j
    OBVIOUS
  <2>3. \A x \in {n + i : i \in P} : \E i \in P : f[i] = x
    OBVIOUS
  <2> HIDE DEF f
  <2> QED BY <2>1, <2>2, <2>3, Fun_IsBij
<1>3. ExistsBijection(P, {n + i : i \in P})
  BY <1>2 DEF ExistsBijection
<1> QED BY <1>1, <1>3, FS_Bijection, FS_CardinalityType

\* Disjoint sets add up.
LEMMA DisjointCount ==
    ASSUME NEW S, IsFiniteSet(S), NEW T, IsFiniteSet(T), S \cap T = {}
    PROVE  Cardinality(S \cup T) = Cardinality(S) + Cardinality(T)
<1>1. Cardinality(S \cap T) = 0 /\ Cardinality(S) \in Nat /\ Cardinality(T) \in Nat
  BY FS_EmptySet, FS_CardinalityType
<1>2. Cardinality(S \cup T) = Cardinality(S) + Cardinality(T) - Cardinality(S \cap T)
  BY FS_Union
<1> QED BY <1>1, <1>2

\* What a coach's list makes due: nothing, or for each account as much as
\* mark_paid counts in the list.
LEMMA CoachRegisterDue ==
    ASSUME IInv, NEW w \in Workers, NEW c \in Coaches, NEW new \in NewItems,
           NEW simulated \in BOOLEAN, CoachRegister(w, c, new, simulated)
    PROVE  /\ SameAccounts
           /\ Len(new) \in Nat /\ \A S : Occurrences(new, S) \in Nat
           /\ \A st \in CreditStages : \A s : Awarded(st, s)' = Awarded(st, s)
           /\ \A S : Cardinality(DirectOf(S)') = Cardinality(DirectOf(S))
                                                  + IF simulated THEN Occurrences(new, S) ELSE 0
           /\ \A s : Cardinality(DirectBy(s)') = Cardinality(DirectBy(s))
                                                  + IF simulated /\ s = c THEN Len(new) ELSE 0
<1> DEFINE n == Len(enrollments)
           rows == [i \in 1..Len(new) |-> CoachRow(new[i], c, simulated)]
<1>1. PICK k \in 1..MaxItems : new \in [1..k -> Players \ Enrolled]
  BY DEF NewItems
<1>2. k \in Nat /\ Len(new) = k /\ DOMAIN new = 1..k /\ enrollments \in Seq(Row)
  <2>1. k \in Nat
    BY EnrollmentAssumption
  <2>2. new \in Seq(Players)
    BY <1>1, <2>1, SeqDef
  <2> QED BY <1>1, <2>1, <2>2, LenProperties DEF IInv, TypeOK
<1>3. rows \in Seq(Row) /\ enrollments' = enrollments \o rows
  BY CoachRows DEF CoachRegister
<1>4. DOMAIN rows = 1..k /\ Len(rows) = k
  <2>1. DOMAIN rows = 1..k
    BY <1>2
  <2> HIDE DEF rows
  <2> QED BY <1>2, <1>3, <2>1, LenProperties
<1>5. \A i \in 1..k : /\ rows[i].player = new[i] /\ rows[i].coach = c
                      /\ rows[i].is_paid <=> simulated
                      /\ rows[i].bank_ref_code = IF simulated THEN "TEST-COACH" ELSE ""
  BY <1>2 DEF CoachRow
<1> HIDE DEF rows
<1>6. /\ Ids' = 1..(n + k) /\ Ids \subseteq Ids'
      /\ \A i \in Ids : enrollments'[i] = enrollments[i]
      /\ \A i \in 1..k : enrollments'[n + i] = rows[i]
      /\ Ids = 1..n /\ n \in Nat
  BY <1>2, <1>3, <1>4, AppendRows, LenProperties DEF IInv, Ids
<1>7. SameAccounts
  BY <1>6 DEF SameAccounts
<1>8. /\ \A st \in CreditStages : \A s : Awarded(st, s)' = Awarded(st, s)
      /\ \A S : DirectOf(S)' = DirectOf(S) \cup {e \in Direct' \ Ids : enrollments'[e].player \in S}
      /\ \A s : DirectBy(s)' = DirectBy(s) \cup {e \in Direct' \ Ids : enrollments'[e].coach = s}
  BY <1>6, <1>7, SameDue DEF CoachRegister
<1> DEFINE Paying(P) == IF simulated THEN P ELSE {}
<1>9. ASSUME NEW P \in SUBSET (1..k)
      PROVE  /\ {n + i : i \in Paying(P)} \cap Ids = {}
             /\ IsFiniteSet({n + i : i \in Paying(P)})
             /\ Cardinality({n + i : i \in Paying(P)}) = IF simulated THEN Cardinality(P) ELSE 0
  <2> HIDE DEF n
  <2>1. Paying(P) \subseteq 1..k
    OBVIOUS
  <2>2. IsFiniteSet({n + i : i \in Paying(P)})
        /\ Cardinality({n + i : i \in Paying(P)}) = Cardinality(Paying(P))
    BY <1>2, <1>6, <2>1, ShiftedCount
  <2>3. \A i \in 1..k : n + i \notin 1..n
    BY <1>2, <1>6
  <2>4. {n + i : i \in Paying(P)} \cap Ids = {}
    BY <1>6, <2>1, <2>3
  <2>5. Cardinality(Paying(P)) = IF simulated THEN Cardinality(P) ELSE 0
    BY FS_EmptySet
  <2> QED BY <2>2, <2>4, <2>5
<1>10. \A e : e \in Direct' \ Ids <=> simulated /\ \E i \in 1..k : e = n + i
  <2>1. \A i \in 1..k : n + i \in Ids' \ Ids
    BY <1>2, <1>6
  <2>2. \A e \in Ids' \ Ids : e - n \in 1..k /\ e = n + (e - n)
    BY <1>2, <1>6
  <2>3. \A i \in 1..k : n + i \in Direct' <=> simulated
    BY <1>5, <1>6, <2>1 DEF Direct, Paid
  <2>4. Direct' \subseteq Ids'
    BY DEF Direct, Paid
  <2> HIDE DEF n
  <2> QED BY <2>1, <2>2, <2>3, <2>4
<1>11. \A i \in 1..k : enrollments'[n + i].player = new[i] /\ enrollments'[n + i].coach = c
  BY <1>5, <1>6
<1>12. DirectOf({}) \subseteq Ids /\ (\A S : DirectOf(S) \subseteq Ids) /\ \A s : DirectBy(s) \subseteq Ids
  BY DEF DirectOf, DirectBy, Direct, Paid
<1>13. Len(new) \in Nat /\ \A S : Occurrences(new, S) \in Nat
  BY <1>1, <1>2, OccurrencesType
<1>14. ASSUME NEW S
       PROVE  Cardinality(DirectOf(S)') = Cardinality(DirectOf(S))
                                          + IF simulated THEN Occurrences(new, S) ELSE 0
  <2> DEFINE P == {i \in 1..k : new[i] \in S}
             more == {n + i : i \in Paying(P)}
  <2>1. {e \in Direct' \ Ids : enrollments'[e].player \in S} = more
    <3> HIDE DEF n
    <3> QED BY <1>10, <1>11
  <2>2. more \cap Ids = {} /\ IsFiniteSet(more)
        /\ Cardinality(more) = IF simulated THEN Cardinality(P) ELSE 0
    <3>1. P \in SUBSET (1..k)
      OBVIOUS
    <3> HIDE DEF P, Paying, n
    <3> QED BY <1>9, <3>1
  <2>3. Cardinality(P) = Occurrences(new, S)
    BY <1>2 DEF Occurrences
  <2> HIDE DEF P, more
  <2>4. Cardinality(DirectOf(S) \cup more) = Cardinality(DirectOf(S)) + Cardinality(more)
    BY <1>12, <2>2, CountsType, DisjointCount
  <2> QED BY <1>8, <2>1, <2>2, <2>3, <2>4
<1>15. ASSUME NEW s
       PROVE  Cardinality(DirectBy(s)') = Cardinality(DirectBy(s))
                                          + IF simulated /\ s = c THEN Len(new) ELSE 0
  <2> DEFINE P == {i \in 1..k : s = c}
             more == {n + i : i \in Paying(P)}
  <2>1. {e \in Direct' \ Ids : enrollments'[e].coach = s} = more
    <3> HIDE DEF n
    <3> QED BY <1>10, <1>11
  <2>2. more \cap Ids = {} /\ IsFiniteSet(more)
        /\ Cardinality(more) = IF simulated THEN Cardinality(P) ELSE 0
    <3>1. P \in SUBSET (1..k)
      OBVIOUS
    <3> HIDE DEF P, Paying, n
    <3> QED BY <1>9, <3>1
  <2>3. Cardinality(P) = IF s = c THEN k ELSE 0
    <3>1. P = IF s = c THEN 1..k ELSE {}
      OBVIOUS
    <3>2. Cardinality(1..k) = k
      BY <1>2, FS_Interval
    <3> HIDE DEF P
    <3> QED BY <3>1, <3>2, FS_EmptySet
  <2> HIDE DEF P, more
  <2>4. Cardinality(DirectBy(s) \cup more) = Cardinality(DirectBy(s)) + Cardinality(more)
    BY <1>12, <2>2, CountsType, DisjointCount
  <2> QED BY <1>2, <1>8, <2>1, <2>2, <2>3, <2>4
<1> QED BY <1>7, <1>8, <1>13, <1>14, <1>15

\* mark_paid adds exactly what its payments make due.
LEMMA CoachRegisterBalanced ==
    ASSUME IInv, Balanced, NEW w \in Workers, NEW c \in Coaches, NEW new \in NewItems,
           NEW simulated \in BOOLEAN, CoachRegister(w, c, new, simulated)
    PROVE  Balanced'
<1> DEFINE Added(S) == IF simulated THEN Occurrences(new, S) ELSE 0
           Led(s) == IF simulated /\ s = c THEN Len(new) ELSE 0
<1>1. /\ SameAccounts
      /\ \A st \in CreditStages : \A s : Awarded(st, s)' = Awarded(st, s)
      /\ \A S : Cardinality(DirectOf(S)') = Cardinality(DirectOf(S)) + Added(S) /\ Added(S) \in Nat
      /\ \A s : Cardinality(DirectBy(s)') = Cardinality(DirectBy(s)) + Led(s) /\ Led(s) \in Nat
  BY CoachRegisterDue
<1>2. \A st \in CreditStages : \A s : Owing(st, s)' = Owing(st, s)
  <2>1. \E q : hooks' = [hooks EXCEPT ![w] = q]
    <3>1. CASE simulated
      BY <3>1 DEF CoachRegister, QueueAwards
    <3>2. CASE ~simulated
      <4>1. hooks' = [hooks EXCEPT ![w] = hooks[w]]
        BY <3>2 DEF CoachRegister, IInv, TypeOK
      <4> QED BY <4>1
    <3> QED BY <3>1, <3>2
  <2> QED BY <1>1, <2>1, RequestOwing DEF CoachRegister
<1>3. /\ \A p \in Players : rankCompetition'[p] = rankCompetition[p] + 4 * Added({p})
      /\ crashes' = crashes
  <2>1. CASE simulated
    BY <2>1 DEF CoachRegister
  <2>2. CASE ~simulated
    BY <2>2, CountsType DEF CoachRegister
  <2> QED BY <2>1, <2>2 DEF CoachRegister
<1>4. ASSUME NEW s \in Subjects
      PROVE  rankTotal'[s] = rankTotal[s] + (4 * Added({s}) + 3 * Led(s) + 2 * Added(MembersOf(s)))
  <2>1. CASE simulated
    <3>1. rankTotal'[s] = rankTotal[s] + MarkPaidTotal(new, c, s)
      BY <2>1 DEF CoachRegister
    <3>2. (IF s = c THEN 3 * Len(new) ELSE 0) = 3 * Led(s)
      BY <2>1, CoachRegisterDue
    <3> QED BY <2>1, <3>1, <3>2 DEF MarkPaidTotal
  <2>2. CASE ~simulated
    BY <2>2, CountsType DEF CoachRegister
  <2> QED BY <2>1, <2>2
<1> HIDE DEF Added, Led
<1>5. CreditStages = {"player", "coach", "club", "board"}
  BY DEF CreditStages, Stages
<1>6. ASSUME NEW p \in Players PROVE CompetitionBalanced(p)'
  <2>1. DueCompetition(p)' = DueCompetition(p) + 4 * Added({p})
        /\ InFlightCompetition(p)' = InFlightCompetition(p)
        /\ DueCompetition(p) \in Nat /\ InFlightCompetition(p) \in Nat
    BY <1>1, <1>2, <1>5, CountsType DEF DueCompetition, InFlightCompetition
  <2>2. CompetitionBalanced(p) /\ rankCompetition[p] \in Nat /\ crashes \in Nat
    BY CountsType DEF Balanced
  <2> QED BY <1>1, <1>3, <2>1, <2>2 DEF CompetitionBalanced
<1>7. ASSUME NEW s \in Subjects PROVE TotalBalanced(s)'
  <2> DEFINE more == 4 * Added({s}) + 3 * Led(s) + 2 * Added(MembersOf(s))
  <2>0. Cardinality(DirectOf(MembersOf(s)))' = Cardinality(DirectOf(MembersOf(s))) + Added(MembersOf(s))
    BY <1>1 DEF MembersOf
  <2>1. DueTotal(s)' = DueTotal(s) + more /\ more \in Nat
        /\ InFlightTotal(s)' = InFlightTotal(s)
        /\ DueTotal(s) \in Nat /\ InFlightTotal(s) \in Nat
    BY <1>1, <1>2, <1>5, <2>0, CountsType DEF DueTotal, InFlightTotal
  <2>2. TotalBalanced(s) /\ rankTotal[s] \in Nat /\ crashes \in Nat
    BY CountsType DEF Balanced
  <2>3. rankTotal'[s] = rankTotal[s] + more
    BY <1>4
  <2> HIDE DEF more
  <2> QED BY <1>3, <2>1, <2>2, <2>3 DEF TotalBalanced
<1> QED BY <1>6, <1>7 DEF Balanced

\* A worker that inserts an award row begins to owe what the row makes due.
LEMMA AwardCreateBalanced ==
    ASSUME IInv, Balanced, NEW w \in Workers, AwardCreate(w)
    PROVE  Balanced'
<1>1. PICK h : h = Head(hooks[w])
  OBVIOUS
<1>2. /\ h \notin awards /\ awards' = awards \cup {h} /\ h \in Ids
      /\ UNCHANGED <<enrollments, hooks, rankCompetition, rankTotal, crashes>>
      /\ stage[w] = "create" /\ stage'[w] = "player" /\ ~Idle(w)
      /\ \A v \in Workers \ {w} : stage'[v] = stage[v]
  BY <1>1 DEF AwardCreate, IInv, TypeOK, Idle
<1>3. /\ \A S : DirectOf(S)' = DirectOf(S)
      /\ \A s : DirectBy(s)' = DirectBy(s)
  BY <1>2 DEF DirectOf, DirectBy, Direct, Paid, Ids
<1>4. SameAccounts /\ ~Crediting(w) /\ Crediting(w)'
  BY <1>2 DEF SameAccounts, Crediting, Idle
<1>5. ASSUME NEW st \in CreditStages, NEW s
      PROVE  \E k \in {0, 1} :
               /\ Cardinality(Awarded(st, s))' = Cardinality(Awarded(st, s)) + k
               /\ Cardinality(Owing(st, s))' = Cardinality(Owing(st, s)) + k
  <2> DEFINE mine == Recipient(h, st) = s
  <2>1. \A e \in Ids : Recipient(e, st)' = Recipient(e, st)
    BY <1>4, SameRecipient
  <2>2. Awarded(st, s)' = IF mine THEN Awarded(st, s) \cup {h} ELSE Awarded(st, s)
    BY <1>2, <2>1 DEF Awarded, IInv, TypeOK
  <2>3. Owing(st, s)' \ {w} = Owing(st, s) \ {w}
    BY <1>2, <1>4, SameOwing
  <2>4. st \in ToGo("player")
    BY DEF CreditStages, Stages, ToGo
  <2>5. w \notin Owing(st, s) /\ (w \in Owing(st, s)' <=> mine)
    <3>1. Recipient(Head(hooks[w]), st)' = Recipient(h, st)'
      BY <1>1, <1>2 DEF Recipient
    <3> QED BY <1>2, <1>4, <2>1, <2>4, <3>1 DEF Owing, Creditors
  <2>6. Owing(st, s)' = IF mine THEN Owing(st, s) \cup {w} ELSE Owing(st, s)
    BY <2>3, <2>5
  <2>7. h \notin Awarded(st, s)
    BY <1>2 DEF Awarded
  <2> HIDE DEF mine
  <2>8. CASE mine
    <3>1. Cardinality(Awarded(st, s) \cup {h}) = Cardinality(Awarded(st, s)) + 1
          /\ Cardinality(Owing(st, s) \cup {w}) = Cardinality(Owing(st, s)) + 1
      BY <2>5, <2>7, CountsType, FS_AddElement
    <3> QED BY <2>2, <2>6, <2>8, <3>1
  <2>9. CASE ~mine
    BY <2>2, <2>6, <2>9, CountsType
  <2> QED BY <2>8, <2>9
<1>6. CreditStages = {"player", "coach", "club", "board"}
  BY DEF CreditStages, Stages
<1>7. ASSUME NEW p \in Players PROVE CompetitionBalanced(p)'
  <2>1. CompetitionBalanced(p) /\ rankCompetition[p] \in Nat /\ crashes \in Nat
    BY CountsType DEF Balanced
  <2>2. PICK k \in {0, 1} :
               /\ Cardinality(Awarded("player", p))' = Cardinality(Awarded("player", p)) + k
               /\ Cardinality(Owing("player", p))' = Cardinality(Owing("player", p)) + k
    BY <1>5, <1>6
  <2>3. DueCompetition(p)' = DueCompetition(p) + 4 * k /\ DueCompetition(p) \in Nat
        /\ InFlightCompetition(p)' = InFlightCompetition(p) + 4 * k /\ InFlightCompetition(p) \in Nat
    BY <1>3, <2>2, CountsType DEF DueCompetition, InFlightCompetition
  <2> QED BY <1>2, <2>1, <2>3 DEF CompetitionBalanced
<1>8. ASSUME NEW s \in Subjects PROVE TotalBalanced(s)'
  <2>1. TotalBalanced(s) /\ rankTotal[s] \in Nat /\ crashes \in Nat
    BY CountsType DEF Balanced
  <2>2. PICK k \in {0, 1} :
               /\ Cardinality(Awarded("coach", s))' = Cardinality(Awarded("coach", s)) + k
               /\ Cardinality(Owing("coach", s))' = Cardinality(Owing("coach", s)) + k
    BY <1>5, <1>6
  <2>3. PICK l \in {0, 1} :
               /\ Cardinality(Awarded("club", s))' = Cardinality(Awarded("club", s)) + l
               /\ Cardinality(Owing("club", s))' = Cardinality(Owing("club", s)) + l
    BY <1>5, <1>6
  <2>4. PICK m \in {0, 1} :
               /\ Cardinality(Awarded("board", s))' = Cardinality(Awarded("board", s)) + m
               /\ Cardinality(Owing("board", s))' = Cardinality(Owing("board", s)) + m
    BY <1>5, <1>6
  <2> DEFINE more == 3 * k + 2 * l + 2 * m
  <2>5. Cardinality(DirectOf(MembersOf(s)))' = Cardinality(DirectOf(MembersOf(s)))
    BY <1>3 DEF MembersOf
  <2>6. DueTotal(s)' = DueTotal(s) + more /\ DueTotal(s) \in Nat
    <3>1. Cardinality(DirectOf({s}))' = Cardinality(DirectOf({s}))
          /\ Cardinality(DirectBy(s))' = Cardinality(DirectBy(s))
      BY <1>3
    <3> QED BY <2>2, <2>3, <2>4, <2>5, <3>1, CountsType DEF DueTotal
  <2>7. InFlightTotal(s)' = InFlightTotal(s) + more /\ InFlightTotal(s) \in Nat
    BY <2>2, <2>3, <2>4, CountsType DEF InFlightTotal
  <2>8. more \in Nat
    OBVIOUS
  <2> HIDE DEF more
  <2> QED BY <1>2, <2>1, <2>6, <2>7, <2>8 DEF TotalBalanced
<1> QED BY <1>7, <1>8 DEF Balanced

\* Each account is credited at one stage besides the player's.
LEMMA RecipientKind ==
    ASSUME TypeOK, NEW e \in Ids
    PROVE  /\ Recipient(e, "coach") \in Coaches
           /\ Recipient(e, "club") \in Clubs \cup {NULL}
           /\ Recipient(e, "board") \in Boards \cup {NULL}
<1>1. enrollments[e] \in Row
  BY LenProperties, ElementOfSeq DEF TypeOK, Ids
<1>2. enrollments[e].player \in Players /\ enrollments[e].coach \in Coaches
  BY <1>1 DEF Row
<1> QED BY <1>2, EnrollmentAssumption DEF Recipient

\* The credit a worker gives is the one it no longer owes.
LEMMA AwardCreditBalanced ==
    ASSUME IInv, Balanced, NEW w \in Workers, AwardCredit(w)
    PROVE  Balanced'
<1>1. PICK h : h = Head(hooks[w])
  OBVIOUS
<1>2. PICK now \in CreditStages : now = stage[w]
  BY DEF AwardCredit, IInv, TypeOK, CreditStages
<1> DEFINE Given(st, s) == IF now = st /\ Recipient(h, st) = s THEN 1 ELSE 0
<1>3. /\ UNCHANGED <<enrollments, awards, crashes>> /\ ~Idle(w) /\ h \in Ids
      /\ stage'[w] = NextStage(now) /\ (now # "board" => hooks'[w] = hooks[w])
      /\ \A v \in Workers \ {w} : hooks'[v] = hooks[v] /\ stage'[v] = stage[v]
  BY <1>1, <1>2 DEF AwardCredit, IInv, TypeOK, CreditStages, Idle
<1>4. SameAccounts
  BY <1>3 DEF SameAccounts
<1>5. \A st \in CreditStages : \A e \in Ids : Recipient(e, st)' = Recipient(e, st)
  BY <1>4, SameRecipient
<1>6. /\ \A S : DirectOf(S)' = DirectOf(S)
      /\ \A s : DirectBy(s)' = DirectBy(s)
      /\ \A st \in CreditStages : \A s : Awarded(st, s)' = Awarded(st, s)
  BY <1>3, <1>5 DEF DirectOf, DirectBy, Direct, Paid, Ids, Awarded, IInv, TypeOK
<1>7. ASSUME NEW st \in CreditStages, NEW s
      PROVE  Cardinality(Owing(st, s))' = Cardinality(Owing(st, s)) - Given(st, s)
  <2>1. Owing(st, s)' \ {w} = Owing(st, s) \ {w}
    BY <1>3, <1>4, SameOwing
  <2>2. w \in Owing(st, s) <=> st \in ToGo(now) /\ Recipient(h, st) = s
    BY <1>1, <1>2, <1>3 DEF Owing, Creditors, Crediting, CreditStages
  <2>3. w \in Owing(st, s)' <=> st \in ToGo(now) \ {now} /\ Recipient(h, st) = s
    <3>1. CASE now = "board"
      <4>1. stage'[w] = "create" /\ st \notin ToGo(now) \ {now}
        BY <1>3, <3>1 DEF NextStage, ToGo
      <4> QED BY <4>1 DEF Owing, Creditors, Crediting
    <3>2. CASE now # "board"
      <4>1. ToGo(NextStage(now)) = ToGo(now) \ {now} /\ NextStage(now) # "create"
        BY <3>2 DEF ToGo, NextStage, CreditStages, Stages
      <4>2. Recipient(Head(hooks[w]), st)' = Recipient(h, st)'
        BY <1>1, <1>3, <3>2 DEF Recipient
      <4>3. Crediting(w)'
        BY <1>3, <3>2, <4>1 DEF Crediting, Idle
      <4> QED BY <1>3, <1>5, <4>1, <4>2, <4>3 DEF Owing, Creditors
    <3> QED BY <3>1, <3>2
  <2>4. now \in ToGo(now)
    BY DEF ToGo, CreditStages, Stages
  <2>5. Owing(st, s)' = IF Given(st, s) = 1 THEN Owing(st, s) \ {w} ELSE Owing(st, s)
    BY <2>1, <2>2, <2>3, <2>4
  <2>6. Given(st, s) = 1 => w \in Owing(st, s)
    BY <2>2, <2>4
  <2>7. Given(st, s) \in {0, 1}
    OBVIOUS
  <2> HIDE DEF Given
  <2> QED BY <2>5, <2>6, <2>7, CountsType, FS_RemoveElement
<1>8. CreditStages = {"player", "coach", "club", "board"}
  BY DEF CreditStages, Stages
<1>9. \A p \in Players : rankCompetition'[p] = rankCompetition[p] + 4 * Given("player", p)
  <2>1. rankCompetition \in [Players -> Nat] /\ Points("player") = 4
    BY DEF IInv, TypeOK, Points
  <2>2. CASE now = "player"
    BY <1>1, <1>2, <2>1, <2>2 DEF AwardCredit
  <2>3. CASE now # "player"
    BY <1>2, <2>1, <2>3 DEF AwardCredit
  <2> QED BY <2>2, <2>3
<1>10. ASSUME NEW s \in Subjects
       PROVE  rankTotal'[s] = rankTotal[s] + 3 * Given("coach", s) + 2 * Given("club", s)
                                           + 2 * Given("board", s)
  <2>1. rankTotal \in [Subjects -> Nat] /\ s # NULL
    BY EnrollmentAssumption DEF IInv, TypeOK
  <2>2. CASE now = "player"
    BY <1>2, <2>1, <2>2 DEF AwardCredit
  <2>3. CASE now # "player"
    <3>1. rankTotal'[s] = rankTotal[s] + IF Recipient(h, now) = s THEN Points(now) ELSE 0
      BY <1>1, <1>2, <2>1, <2>3, PointsType DEF AwardCredit, CreditStages
    <3>2. CASE now = "coach"
      BY <2>1, <3>1, <3>2 DEF Points
    <3>3. CASE now = "club"
      BY <2>1, <3>1, <3>3 DEF Points
    <3>4. CASE now = "board"
      BY <2>1, <3>1, <3>4 DEF Points
    <3> QED BY <1>8, <2>3, <3>2, <3>3, <3>4
  <2> QED BY <2>2, <2>3
<1>11. \A st, s : Given(st, s) \in {0, 1}
  OBVIOUS
<1> HIDE DEF Given
<1>12. ASSUME NEW p \in Players PROVE CompetitionBalanced(p)'
  <2>1. CompetitionBalanced(p) /\ rankCompetition[p] \in Nat /\ crashes \in Nat
    BY CountsType DEF Balanced
  <2>2. DueCompetition(p)' = DueCompetition(p) /\ DueCompetition(p) \in Nat
        /\ InFlightCompetition(p)' = InFlightCompetition(p) - 4 * Given("player", p)
        /\ InFlightCompetition(p) \in Nat
    BY <1>6, <1>7, <1>8, <1>11, CountsType DEF DueCompetition, InFlightCompetition
  <2> QED BY <1>3, <1>9, <1>11, <2>1, <2>2 DEF CompetitionBalanced
<1>13. ASSUME NEW s \in Subjects PROVE TotalBalanced(s)'
  <2>1. TotalBalanced(s) /\ rankTotal[s] \in Nat /\ crashes \in Nat
    BY CountsType DEF Balanced
  <2>2. Cardinality(DirectOf(MembersOf(s)))' = Cardinality(DirectOf(MembersOf(s)))
    BY <1>6 DEF MembersOf
  <2>3. DueTotal(s)' = DueTotal(s) /\ DueTotal(s) \in Nat
    BY <1>6, <1>8, <2>2, CountsType DEF DueTotal
  <2>4. InFlightTotal(s)' = InFlightTotal(s) - (3 * Given("coach", s) + 2 * Given("club", s)
                                                + 2 * Given("board", s))
        /\ InFlightTotal(s) \in Nat
    BY <1>7, <1>8, <1>11, CountsType DEF InFlightTotal
  <2> QED BY <1>3, <1>10, <1>11, <2>1, <2>3, <2>4 DEF TotalBalanced
<1> QED BY <1>12, <1>13 DEF Balanced

LEMMA AwardRefusedBalanced ==
    ASSUME IInv, Balanced, NEW w \in Workers, AwardRefused(w)
    PROVE  Balanced'
<1>1. /\ UNCHANGED <<enrollments, awards, stage, rankCompetition, rankTotal, crashes>>
      /\ stage[w] = "create"
      /\ \A v \in Workers \ {w} : hooks'[v] = hooks[v] /\ stage'[v] = stage[v]
  BY DEF AwardRefused, IInv, TypeOK
<1>2. SameAccounts /\ ~Crediting(w) /\ ~Crediting(w)'
  BY <1>1 DEF SameAccounts, Crediting
<1>3. \A st \in CreditStages : \A s : Owing(st, s)' = Owing(st, s)
  BY <1>1, <1>2, IdleOwing
<1>4. SameCounts
  BY <1>1, <1>3 DEF SameCounts, DirectOf, DirectBy, Direct, Paid, Ids, Awarded, Recipient
<1> QED BY <1>1, <1>4, QuietStep

\* What a crash loses is what the worker had still to credit: at most one
\* stage of any one account.
LEMMA CrashBalanced ==
    ASSUME IInv, Balanced, NEW w \in Workers, Crash(w)
    PROVE  Balanced'
<1>1. PICK h : h = Head(hooks[w])
  OBVIOUS
<1>2. /\ UNCHANGED <<enrollments, awards, rankCompetition, rankTotal>> /\ crashes' = crashes + 1
      /\ stage'[w] = "create" /\ ~Idle(w) /\ h \in Ids
      /\ \A v \in Workers \ {w} : hooks'[v] = hooks[v] /\ stage'[v] = stage[v]
  BY <1>1 DEF Crash, IInv, TypeOK, Idle
<1>3. SameAccounts /\ ~Crediting(w)'
  BY <1>2 DEF SameAccounts, Crediting
<1>4. /\ \A S : DirectOf(S)' = DirectOf(S)
      /\ \A s : DirectBy(s)' = DirectBy(s)
      /\ \A st, s : Awarded(st, s)' = Awarded(st, s)
  BY <1>2 DEF DirectOf, DirectBy, Direct, Paid, Ids, Awarded, Recipient
<1>5. ASSUME NEW st \in CreditStages, NEW s
      PROVE  \E k \in {0, 1} : /\ Cardinality(Owing(st, s))' = Cardinality(Owing(st, s)) - k
                               /\ k = 1 => Recipient(h, st) = s
  <2>1. Owing(st, s)' = Owing(st, s) \ {w}
    <3>1. w \notin Owing(st, s)'
      BY <1>3 DEF Owing, Creditors
    <3> QED BY <1>2, <1>3, <3>1, SameOwing
  <2>2. w \in Owing(st, s) => Recipient(h, st) = s
    BY <1>1 DEF Owing
  <2>3. Cardinality(Owing(st, s) \ {w}) =
          IF w \in Owing(st, s) THEN Cardinality(Owing(st, s)) - 1 ELSE Cardinality(Owing(st, s))
    BY CountsType, FS_RemoveElement
  <2>4. Cardinality(Owing(st, s)) \in Nat
    BY CountsType
  <2>5. CASE w \in Owing(st, s)
    BY <2>1, <2>2, <2>3, <2>5
  <2>6. CASE w \notin Owing(st, s)
    BY <2>1, <2>3, <2>4, <2>6
  <2> QED BY <2>5, <2>6
<1>6. CreditStages = {"player", "coach", "club", "board"}
  BY DEF CreditStages, Stages
<1>7. ASSUME NEW p \in Players PROVE CompetitionBalanced(p)'
  <2>1. CompetitionBalanced(p) /\ rankCompetition[p] \in Nat /\ crashes \in Nat
    BY CountsType DEF Balanced
  <2>2. PICK k \in {0, 1} : Cardinality(Owing("player", p))' = Cardinality(Owing("player", p)) - k
    BY <1>5, <1>6
  <2>3. DueCompetition(p)' = DueCompetition(p) /\ DueCompetition(p) \in Nat
        /\ InFlightCompetition(p)' = InFlightCompetition(p) - 4 * k /\ InFlightCompetition(p) \in Nat
    BY <1>4, <2>2, CountsType DEF DueCompetition, InFlightCompetition
  <2> QED BY <1>2, <2>1, <2>3 DEF CompetitionBalanced
<1>8. ASSUME NEW s \in Subjects PROVE TotalBalanced(s)'
  <2>1. TotalBalanced(s) /\ rankTotal[s] \in Nat /\ crashes \in Nat
    BY CountsType DEF Balanced
  <2>2. PICK k \in {0, 1} : /\ Cardinality(Owing("coach", s))' = Cardinality(Owing("coach", s)) - k
                            /\ k = 1 => Recipient(h, "coach") = s
    BY <1>5, <1>6
  <2>3. PICK l \in {0, 1} : /\ Cardinality(Owing("club", s))' = Cardinality(Owing("club", s)) - l
                            /\ l = 1 => Recipient(h, "club") = s
    BY <1>5, <1>6
  <2>4. PICK m \in {0, 1} : /\ Cardinality(Owing("board", s))' = Cardinality(Owing("board", s)) - m
                            /\ m = 1 => Recipient(h, "board") = s
    BY <1>5, <1>6
  <2> DEFINE lost == 3 * k + 2 * l + 2 * m
  <2>5. lost \in 0..3
    <3>1. /\ k = 1 => s \in Coaches
          /\ l = 1 => s \in Clubs
          /\ m = 1 => s \in Boards
      BY <1>2, <2>2, <2>3, <2>4, RecipientKind, EnrollmentAssumption DEF IInv
    <3>2. ~(k = 1 /\ l = 1) /\ ~(k = 1 /\ m = 1) /\ ~(l = 1 /\ m = 1)
      BY <3>1, EnrollmentAssumption
    <3> QED BY <3>2
  <2>6. Cardinality(DirectOf(MembersOf(s)))' = Cardinality(DirectOf(MembersOf(s)))
    BY <1>4 DEF MembersOf
  <2>7. DueTotal(s)' = DueTotal(s) /\ DueTotal(s) \in Nat
    BY <1>4, <2>6, CountsType DEF DueTotal
  <2>8. InFlightTotal(s)' = InFlightTotal(s) - lost /\ InFlightTotal(s) \in Nat
    BY <2>2, <2>3, <2>4, CountsType DEF InFlightTotal
  <2> HIDE DEF lost
  <2> QED BY <1>2, <2>1, <2>5, <2>7, <2>8 DEF TotalBalanced
<1> QED BY <1>7, <1>8 DEF Balanced

LEMMA SaveMedalsBalanced ==
    ASSUME IInv, Balanced, NEW w \in Workers, NEW pod \in Podiums, SaveMedals(w, pod)
    PROVE  Balanced'
<1>1. /\ Ids' = Ids /\ SameAccounts
      /\ \A e \in Ids : /\ enrollments'[e].is_paid <=> enrollments[e].is_paid
                        /\ enrollments'[e].bank_ref_code = enrollments[e].bank_ref_code
  BY SaveMedalsRows DEF SameAccounts
<1>2. UNCHANGED <<awards, stage, rankCompetition, rankTotal, crashes>> /\ Idle(w)
      /\ \E q : hooks' = [hooks EXCEPT ![w] = q]
  BY DEF SaveMedals, QueueAwards
<1>3. Direct' \ Ids = {}
  BY <1>1 DEF Direct, Paid
<1>4. /\ \A S : DirectOf(S)' = DirectOf(S)
      /\ \A s : DirectBy(s)' = DirectBy(s)
      /\ \A st \in CreditStages : \A s : Awarded(st, s)' = Awarded(st, s)
  BY <1>1, <1>2, <1>3, SameDue
<1>5. \A st \in CreditStages : \A s : Owing(st, s)' = Owing(st, s)
  BY <1>1, <1>2, RequestOwing
<1> QED BY <1>2, <1>4, <1>5, QuietStep DEF SameCounts

LEMMA InitBalanced == ASSUME Init PROVE Balanced
<1>1. Cardinality({}) = 0
  BY FS_EmptySet
<1>2. /\ \A S : DirectOf(S) = {}
      /\ \A s : DirectBy(s) = {}
      /\ \A st, s : Awarded(st, s) = {} /\ Owing(st, s) = {}
  BY DEF Init, DirectOf, DirectBy, Direct, Paid, Ids, Awarded, Owing, Creditors, Crediting, Idle
<1>3. crashes = 0 /\ (\A p \in Players : rankCompetition[p] = 0) /\ \A s \in Subjects : rankTotal[s] = 0
  BY DEF Init
<1>4. \A p \in Players : CompetitionBalanced(p)
  BY <1>1, <1>2, <1>3 DEF CompetitionBalanced, DueCompetition, InFlightCompetition
<1>5. \A s \in Subjects : TotalBalanced(s)
  <2>1. /\ \A S : Cardinality(DirectOf(S)) = 0
        /\ \A s : Cardinality(DirectBy(s)) = 0
        /\ \A st, s : Cardinality(Awarded(st, s)) = 0 /\ Cardinality(Owing(st, s)) = 0
    BY <1>1, <1>2
  <2>2. \A s : DueTotal(s) = 0 /\ InFlightTotal(s) = 0
    BY <2>1 DEF DueTotal, InFlightTotal
  <2> QED BY <1>3, <2>1, <2>2 DEF TotalBalanced
<1> QED BY <1>4, <1>5 DEF Balanced

LEMMA NextBalanced == ASSUME IInv, Balanced, [Next]_vars PROVE Balanced'
<1>1. CASE \/ SetRegistrationOpen \/ UNCHANGED vars
           \/ \E c \in Coaches : ApproveTerms(c) \/ DeleteApproval(c)
  BY <1>1, StutterBalanced DEF SetRegistrationOpen, ApproveTerms, DeleteApproval, vars
<1>2. CASE \E w \in Workers, c \in Coaches, r \in Players : RegisterSelf(w, r, c)
  BY <1>2, RegisterSelfBalanced
<1>3. CASE \E w \in Workers, c \in Coaches : \E new \in NewItems, simulated \in SimulatePaid :
             CoachRegister(w, c, new, simulated)
  BY <1>3, CoachRegisterBalanced, EnrollmentAssumption
<1>4. CASE \E w \in Workers : Deliver(w) \/ Crash(w)
  BY <1>4, AwardCreateBalanced, AwardRefusedBalanced, AwardCreditBalanced, CrashBalanced
     DEF Deliver
<1>5. CASE \E w \in Workers, pod \in Podiums : SaveMedals(w, pod)
  BY <1>5, SaveMedalsBalanced
<1> QED BY <1>1, <1>2, <1>3, <1>4, <1>5 DEF Next

-----------------------------------------------------------------------------
(* The theorems.                                                           *)

\* The strengthening is an invariant.
THEOREM Inductive == Spec => []IInv
<1>1. Init => IInv BY InitInv
<1>2. IInv /\ [Next]_vars => IInv' BY NextInv
<1> QED BY <1>1, <1>2, PTL DEF Spec

\* Every variable keeps its type: in particular the scores stay natural
\* numbers and the callbacks only name rows of the Enrollment table.
THEOREM TypeCorrect == Spec => []TypeOK
<1>1. IInv => TypeOK BY DEF IInv
<1> QED BY <1>1, Inductive, PTL

\* No player is enrolled twice, whoever registers them and in any order.
THEOREM NoSecondEnrollment == Spec => []OneEnrollmentPerPlayer
<1>1. IInv => OneEnrollmentPerPlayer BY DEF IInv
<1> QED BY <1>1, Inductive, PTL

\* Only paid enrollments get an award row, and of the callbacks queued for one
\* enrollment by any number of workers at most one gets to add its points.
THEOREM CreditsAreLicensed == Spec => []CreditNeedsAward
<1>1. IInv => CreditNeedsAward BY DEF IInv
<1> QED BY <1>1, Inductive, PTL

\* However the payments, callbacks and crashes interleave, the participation
\* score of a player and the ranking total of every account, with what running
\* callbacks still add, never exceed what award rows and mark_paid justify, and
\* fall short of it only by what crashes lost: one stage of one award each.
THEOREM ScoresReconciled == Spec => []LedgerReconciled
<1>1. Init => Balanced
  BY InitBalanced
<1>2. IInv /\ Balanced /\ [Next]_vars => Balanced'
  BY NextBalanced
<1>3. Balanced => LedgerReconciled
  BY BalancedIs
<1> QED BY <1>1, <1>2, <1>3, Inductive, PTL DEF Spec

\* A worker begins to credit only by inserting the award row.
THEOREM CreditsStartOnce == Spec => CreditedOnce
<1> DEFINE Starts == \A w \in Workers : Crediting(w)' /\ ~Crediting(w)
                         => Head(hooks'[w]) \in awards' \ awards
<1>1. ASSUME IInv, [Next]_vars PROVE [Starts]_vars
  <2> SUFFICES ASSUME NEW w \in Workers, Crediting(w)', ~Crediting(w)
               PROVE  Head(hooks'[w]) \in awards' \ awards
      OBVIOUS
  <2>1. stage[w] = "create"
      BY <1>1 DEF Crediting, IInv, IdleAtStart
  <2>2. stage'[w] # "create" BY DEF Crediting
  <2>3. stage' # stage BY <2>1, <2>2
  <2>4. \E v \in Workers : Deliver(v) \/ Crash(v)
      BY <1>1, <2>3 DEF Next, vars, SetRegistrationOpen, ApproveTerms, DeleteApproval,
                        RegisterSelf, CoachRegister, SaveMedals
  <2>5. PICK v \in Workers : Deliver(v) \/ Crash(v) BY <2>4
  <2>6. AwardCreate(v) /\ v = w
    <3>1. ~AwardRefused(v) BY <2>3 DEF AwardRefused
    <3>2. ~Crash(v) BY <1>1, <2>1, <2>2 DEF Crash, IInv, TypeOK
    <3>3. ~AwardCredit(v) BY <1>1, <2>1, <2>2 DEF AwardCredit, IInv, TypeOK
    <3>4. AwardCreate(v) BY <2>5, <3>1, <3>2, <3>3 DEF Deliver
    <3>5. v = w BY <1>1, <2>1, <2>2, <3>4 DEF AwardCreate, IInv, TypeOK
    <3> QED BY <3>4, <3>5
  <2> QED BY <2>6 DEF AwardCreate
<1> QED BY <1>1, Inductive, PTL DEF Spec, CreditedOnce

\* Registration, with its workers, crashes, stale checks and scores, does to
\* the paid and awarded enrollments only what the abstract ledger allows.
THEOREM ImplementsLedger == Spec => LedgerSpec
<1>1. Init => Ledger!Init BY DEF Init, Ledger!Init, Paid, Ids
<1>2. ASSUME IInv, [Next]_vars PROVE [Ledger!Next]_(Ledger!vars)
  <2>1. IInv' BY <1>2, NextInv
  <2>2. Paid' \subseteq 1..MaxEnrollments
    <3>1. enrollments' \in Seq(Row) /\ Len(enrollments') <= MaxEnrollments
        BY <2>1 DEF IInv, TypeOK, Bounded
    <3>2. Ids' = 1..Len(enrollments') /\ Len(enrollments') \in Nat
        BY <3>1, LenProperties DEF Ids
    <3> QED BY <3>1, <3>2, EnrollmentAssumption DEF Paid
  <2>3. ASSUME Paid \subseteq Paid', awards' = awards PROVE [Ledger!Next]_(Ledger!vars)
    <3>1. Paid' = Paid \cup (Paid' \ Paid) /\ Paid' \ Paid \in SUBSET ((1..MaxEnrollments) \ Paid)
        BY <2>2, <2>3
    <3>2. Ledger!Pay BY <2>3, <3>1 DEF Ledger!Pay
    <3> QED BY <3>2 DEF Ledger!Next
  <2>4. CASE UNCHANGED <<enrollments, awards>>
    <3>1. Paid' = Paid BY <2>4 DEF Paid, Ids
    <3> QED BY <2>3, <2>4, <3>1
  <2>5. CASE \E w \in Workers, c \in Coaches, p \in Players : RegisterSelf(w, p, c)
    <3>1. PICK w \in Workers, c \in Coaches, p \in Players : RegisterSelf(w, p, c) BY <2>5
    <3>2. SelfRow(p, c) \in Row BY DEF SelfRow, Row, Statuses, Refs
    <3>3. enrollments' = enrollments \o <<SelfRow(p, c)>> /\ awards' = awards
        BY <1>2, <3>1, <3>2, AppendIsConcat DEF RegisterSelf, IInv, TypeOK
    <3>4. <<SelfRow(p, c)>> \in Seq(Row) BY <3>2
    <3>5. Paid \subseteq Paid' BY <1>2, <3>3, <3>4, AppendRows DEF IInv
    <3> QED BY <2>3, <3>3, <3>5
  <2>6. CASE \E w \in Workers, c \in Coaches : \E new \in NewItems, simulated \in SimulatePaid :
               CoachRegister(w, c, new, simulated)
    <3>1. PICK w \in Workers, c \in Coaches, new \in NewItems, simulated \in SimulatePaid :
               CoachRegister(w, c, new, simulated)
      BY <2>6
    <3> DEFINE rows == [i \in 1..Len(new) |-> CoachRow(new[i], c, simulated)]
    <3>2. rows \in Seq(Row) BY <3>1, CoachRows, EnrollmentAssumption
    <3>3. enrollments' = enrollments \o rows /\ awards' = awards BY <3>1 DEF CoachRegister
    <3> HIDE DEF rows
    <3>4. Paid \subseteq Paid' BY <1>2, <3>2, <3>3, AppendRows DEF IInv
    <3> QED BY <2>3, <3>3, <3>4
  <2>7. CASE \E w \in Workers : AwardCreate(w)
    <3>1. PICK w \in Workers : AwardCreate(w) BY <2>7
    <3>2. Paid' = Paid /\ awards' = awards \cup {Head(hooks[w])} /\ Head(hooks[w]) \notin awards
        BY <3>1 DEF AwardCreate, Paid, Ids
    <3>3. awards' \subseteq Paid' BY <2>1 DEF IInv, CreditNeedsAward
    <3>4. Paid' \subseteq 1..MaxEnrollments BY <2>2
    <3>5. Ledger!Award(Head(hooks[w])) BY <3>2, <3>3 DEF Ledger!Award
    <3> QED BY <3>2, <3>3, <3>4, <3>5 DEF Ledger!Next
  <2>8. CASE \E w \in Workers, pod \in Podiums : SaveMedals(w, pod)
    <3>1. Paid' = Paid /\ awards' = awards BY <1>2, <2>8, SaveMedalsRows DEF SaveMedals
    <3> QED BY <2>3, <3>1
  <2> QED BY <1>2, <2>4, <2>5, <2>6, <2>7, <2>8
          DEF Next, vars, Deliver, SetRegistrationOpen, ApproveTerms, DeleteApproval,
              AwardRefused, AwardCredit, Crash
<1> QED BY <1>1, <1>2, Inductive, PTL DEF Spec, LedgerSpec, Ledger!Spec
=============================================================================
