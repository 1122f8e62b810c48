-------------------------- MODULE ProfileFormProofs --------------------------
(***************************************************************************)
(* What the results, the approvals and the profile form guarantee for any  *)
(* members, enrollments, podiums and bounds.                               *)
(*                                                                         *)
(* The standings follow the podiums because the transactions of a result   *)
(* are always those of its podium (RowsArePodium), so that announcing      *)
(* again takes back exactly what the podium was worth.  An acknowledged    *)
(* edit is kept because every approval under way has read that edit        *)
(* (AckedIsKept); that the profile is sound needs it of every content on   *)
(* its way: in a request, an edit row or an approval (FormTyped).          *)
(***************************************************************************)
EXTENDS ProfileForm, FiniteSetTheorems, TLAPS

-----------------------------------------------------------------------------
(* The results and the approvals.                                          *)

\* The transactions of a result are those of its podium as it stands.
RowsArePodium ==
    \A r \in Results, pl \in Places, s \in Subjects \ removed :
        <<pl, s>> \in transactions[r]
        <=> podium[r][pl] # NULL /\ Snapshot[podium[r][pl]][s[1]] = s[2]


\* There are four places.
LEMMA PlacesAreFinite == IsFiniteSet(Places)
<1> DEFINE n == 4
<1>1. n \in Int
  OBVIOUS
<1> HIDE DEF n
<1>2. IsFiniteSet(1..n)
  BY <1>1, FS_Interval
<1> QED BY <1>2, Zenon DEF Places, n

\* Every place has a medal, and every medal is worth something to a role.
LEMMA Colours ==
    /\ \A pl \in Places : MedalOf(pl) \in Medals
    /\ \A role, m : PointsOf(role, m) \in Nat
    /\ Medals = {"gold", "silver", "bronze"}
BY DEF Places, MedalOf, Medals, PointsOf

\* Disjoint sets are counted apart.
LEMMA DisjointSum ==
    ASSUME NEW A, NEW B, NEW S, IsFiniteSet(A), IsFiniteSet(B), S = A \cup B, A \cap B = {}
    PROVE  Cardinality(S) = Cardinality(A) + Cardinality(B)
<1>1. Cardinality(A \cup B) = Cardinality(A) + Cardinality(B) - Cardinality(A \cap B)
  BY FS_Union
<1>2. Cardinality(S) = Cardinality(A) + Cardinality(B) - Cardinality(A \cap B)
  BY <1>1, Zenon
<1>3. Cardinality(A \cap B) = 0
  BY FS_EmptySet, Zenon
<1>4. Cardinality(A) \in Nat /\ Cardinality(B) \in Nat
  BY FS_CardinalityType
<1> QED BY <1>2, <1>3, <1>4

\* Of the pairs of D, those of row r, and their columns.
PairsOf(r, D) == {x \in D : x[1] = r}
RowOf(r, C, D) == {c \in C : <<r, c>> \in D}

\* They are as many.
LEMMA OneRow ==
    ASSUME NEW R, NEW C, IsFiniteSet(C), NEW r \in R, NEW D, D \subseteq R \X C
    PROVE  /\ IsFiniteSet(PairsOf(r, D))
           /\ Cardinality(PairsOf(r, D)) = Cardinality(RowOf(r, C, D))
           /\ Cardinality(RowOf(r, C, D)) \in Nat
<1> DEFINE S == RowOf(r, C, D)
           T == PairsOf(r, D)
           f == [c \in S |-> <<r, c>>]
<1>1. IsFiniteSet(S)
  <2>1. S \subseteq C
    BY DEF RowOf
  <2> QED BY <2>1, FS_Subset
<1>2. f \in Bijection(S, T)
  <2> USE DEF RowOf, PairsOf
  <2>1. \A c \in S : f[c] \in T
    OBVIOUS
  <2>2. \A a, b \in S : f[a] = f[b] => a = b
    OBVIOUS
  <2>3. \A t \in T : \E c \in S : f[c] = t
    <3> TAKE t \in T
    <3>1. t[2] \in S /\ t = <<r, t[2]>>
      OBVIOUS
    <3> WITNESS t[2] \in S
    <3> QED BY <3>1
  <2> HIDE DEF S, T
  <2> QED BY <2>1, <2>2, <2>3 DEF Bijection, Injection, Surjection, IsInjective
<1>3. ExistsBijection(S, T)
  BY <1>2 DEF ExistsBijection
<1>4. Cardinality(S) \in Nat
  BY <1>1, FS_CardinalityType
<1> HIDE DEF S, T
<1>5. IsFiniteSet(T) /\ Cardinality(T) = Cardinality(S)
  BY <1>1, <1>3, FS_Bijection
<1> QED BY <1>4, <1>5 DEF S, T

\* Replacing one row of pairs changes their number by that of the row.
LEMMA RowReplaced ==
    ASSUME NEW R, NEW C, IsFiniteSet(R), IsFiniteSet(C), NEW r \in R,
           NEW D, NEW E, D \subseteq R \X C, E \subseteq R \X C,
           \A x \in R \X C : x[1] # r => (x \in D <=> x \in E)
    PROVE  /\ Cardinality(D) \in Nat /\ Cardinality(E) \in Nat
           /\ Cardinality(RowOf(r, C, D)) \in Nat /\ Cardinality(RowOf(r, C, E)) \in Nat
           /\ Cardinality(RowOf(r, C, D)) <= Cardinality(D)
           /\ Cardinality(E) = Cardinality(D) - Cardinality(RowOf(r, C, D))
                               + Cardinality(RowOf(r, C, E))
<1>1. IsFiniteSet(R \X C)
  BY FS_Product
<1>2. IsFiniteSet(D) /\ IsFiniteSet(E)
  BY <1>1, FS_Subset
<1> DEFINE Rest == {x \in D : x[1] # r}
<1>3. Rest = {x \in E : x[1] # r}
  OBVIOUS
<1>4. IsFiniteSet(Rest)
  <2>1. Rest \subseteq D
    OBVIOUS
  <2> QED BY <2>1, <1>2, FS_Subset
<1>5. /\ IsFiniteSet(PairsOf(r, D)) /\ Cardinality(PairsOf(r, D)) = Cardinality(RowOf(r, C, D))
      /\ Cardinality(RowOf(r, C, D)) \in Nat
  BY OneRow
<1>6. /\ IsFiniteSet(PairsOf(r, E)) /\ Cardinality(PairsOf(r, E)) = Cardinality(RowOf(r, C, E))
      /\ Cardinality(RowOf(r, C, E)) \in Nat
  BY OneRow
<1>7. D = Rest \cup PairsOf(r, D) /\ Rest \cap PairsOf(r, D) = {}
  BY DEF PairsOf
<1>8. E = Rest \cup PairsOf(r, E) /\ Rest \cap PairsOf(r, E) = {}
  BY <1>3 DEF PairsOf
<1>9. Cardinality(Rest) \in Nat
  BY <1>4, FS_CardinalityType
<1> HIDE DEF Rest
<1>10. Cardinality(D) = Cardinality(Rest) + Cardinality(PairsOf(r, D))
  BY <1>4, <1>5, <1>7, <1>9, DisjointSum
<1>11. Cardinality(E) = Cardinality(Rest) + Cardinality(PairsOf(r, E))
  BY <1>4, <1>6, <1>8, <1>9, DisjointSum
<1> QED BY <1>5, <1>6, <1>9, <1>10, <1>11

\* The rows of s with a medal, counted by their places.
LEMMA CountIs ==
    ASSUME NEW rows \in SUBSET (Places \X Subjects), NEW s, NEW m
    PROVE  /\ Count(rows, s, m) \in Nat
           /\ Count(rows, s, m) = Cardinality({pl \in Places : <<pl, s>> \in rows /\ MedalOf(pl) = m})
<1> DEFINE S == {pl \in Places : <<pl, s>> \in rows /\ MedalOf(pl) = m}
           T == {row \in rows : row[2] = s /\ MedalOf(row[1]) = m}
           f == [pl \in S |-> <<pl, s>>]
<1>1. IsFiniteSet(S)
  <2>1. S \subseteq Places
    OBVIOUS
  <2> QED BY <2>1, PlacesAreFinite, FS_Subset
<1>2. f \in Bijection(S, T)
  <2>1. \A c \in S : f[c] \in T
    OBVIOUS
  <2>2. \A a, b \in S : f[a] = f[b] => a = b
    OBVIOUS
  <2>3. \A t \in T : \E c \in S : f[c] = t
    <3> TAKE t \in T
    <3>1. t[1] \in S /\ t = <<t[1], s>>
      OBVIOUS
    <3> WITNESS t[1] \in S
    <3> QED BY <3>1
  <2> QED BY <2>1, <2>2, <2>3 DEF Bijection, Injection, Surjection, IsInjective
<1>3. ExistsBijection(S, T)
  BY <1>2 DEF ExistsBijection
<1>4. Cardinality(S) \in Nat
  BY <1>1, FS_CardinalityType
<1> HIDE DEF S, T
<1>5. Cardinality(T) = Cardinality(S)
  BY <1>1, <1>3, FS_Bijection
<1>6. Count(rows, s, m) = Cardinality(T)
  BY DEF Count, T
<1> QED BY <1>4, <1>5, <1>6 DEF S

\* An approval under way on p.
ApprovalOn(p) ==
    [profile : {p}, scores : [ColumnsOf(p) -> Int],
     counters : [ColumnsOf(p) \cap MedalHolders -> [Medals -> Nat]], saved : BOOLEAN]

KnownApprovals == {NULL} \cup UNION {ApprovalOn(p) : p \in Profiles}

EditsTyped == TypeOK /\ approving \in [Staff -> KnownApprovals]

\* What rows are worth to s, by their medals.
LEMMA TotalIs ==
    ASSUME NEW rows \in SUBSET (Places \X Subjects), NEW s
    PROVE  /\ Total(rows, s) \in Nat
           /\ Total(rows, s) = PointsOf(s[1], "gold") * Count(rows, s, "gold")
                               + PointsOf(s[1], "silver") * Count(rows, s, "silver")
                               + PointsOf(s[1], "bronze") * Count(rows, s, "bronze")
<1>1. /\ Count(rows, s, "gold") \in Nat /\ Count(rows, s, "silver") \in Nat
      /\ Count(rows, s, "bronze") \in Nat
  BY CountIs
<1>2. /\ PointsOf(s[1], "gold") \in Nat /\ PointsOf(s[1], "silver") \in Nat
      /\ PointsOf(s[1], "bronze") \in Nat
  BY Colours
<1>3. \A x, y \in Nat : x * y \in Nat
  OBVIOUS
<1>4. Total(rows, s) = PointsOf(s[1], "gold") * Count(rows, s, "gold")
                       + PointsOf(s[1], "silver") * Count(rows, s, "silver")
                       + PointsOf(s[1], "bronze") * Count(rows, s, "bronze")
  BY DEF Total, Worth, Medals
<1> QED BY <1>1, <1>2, <1>3, <1>4

\* The rows of a podium are those of its earners that still exist.
LEMMA RowsForIs ==
    ASSUME NEW pod \in Podiums
    PROVE  /\ RowsFor(pod) \in SUBSET (Places \X Subjects)
           /\ \A pl \in Places, s \in Subjects \ removed :
                <<pl, s>> \in RowsFor(pod)
                <=> pod[pl] # NULL /\ Snapshot[pod[pl]][s[1]] = s[2]
BY DEF RowsFor, Placed, Earners

\* A counter never goes below zero.
LEMMA LoweredIsNat == \A n, c \in Nat : Lowered(n, c) \in Nat
BY DEF Lowered

\* An announcement leaves scores, counters and medals in range.
LEMMA AnnounceTyped ==
    ASSUME EditsTyped, NEW r \in Results, NEW pod \in Podiums, Announce(r, pod), UNCHANGED editVars
    PROVE  EditsTyped'
<1>1. podium' \in [Results -> [Places -> Enrollments \cup {NULL}]]
  BY ResultsAssumption DEF Announce, EditsTyped, TypeOK
<1>2. RowsFor(pod) \in SUBSET (Places \X Subjects)
  BY RowsForIs
<1>3. transactions' \in [Results -> SUBSET (Places \X Subjects)]
  BY <1>2 DEF Announce, EditsTyped, TypeOK
<1>o. transactions[r] \in SUBSET (Places \X Subjects)
  BY DEF EditsTyped, TypeOK
<1>4. score' \in [Subjects -> Int]
  <2>1. \A s \in Subjects : Total(transactions[r], s) \in Nat /\ Total(RowsFor(pod), s) \in Nat
    BY <1>2, <1>o, TotalIs
  <2>2. score \in [Subjects -> Int]
    BY DEF EditsTyped, TypeOK
  <2>3. \A s \in Subjects : score[s] - Total(transactions[r], s) + Total(RowsFor(pod), s) \in Int
    BY <2>1, <2>2
  <2> QED BY <2>2, <2>3 DEF Announce
<1>5. medals' \in [MedalHolders -> [Medals -> Nat]]
  <2>1. \A s, m : Count(transactions[r], s, m) \in Nat /\ Count(RowsFor(pod), s, m) \in Nat
    BY <1>2, <1>o, CountIs
  <2>2. medals \in [MedalHolders -> [Medals -> Nat]]
    BY DEF EditsTyped, TypeOK
  <2>3. \A s \in MedalHolders, m \in Medals :
          Lowered(medals[s][m], Count(transactions[r], s, m)) + Count(RowsFor(pod), s, m) \in Nat
    <3> TAKE s \in MedalHolders, m \in Medals
    <3>1. medals[s][m] \in Nat
      BY <2>2
    <3>2. Lowered(medals[s][m], Count(transactions[r], s, m)) \in Nat
      BY <2>1, <3>1, LoweredIsNat
    <3> HIDE DEF MedalHolders
    <3> QED BY <2>1, <3>2
  <2> QED BY <2>2, <2>3 DEF Announce
<1>6. medal' \in [Enrollments -> Medals \cup {""}]
  <2>1. \A pl : MedalOf(pl) \in Medals
    BY DEF MedalOf, Medals
  <2>2. medal \in [Enrollments -> Medals \cup {""}]
    BY DEF EditsTyped, TypeOK
  <2>3. \A e \in Enrollments : NewMedal(pod, e) \in Medals \cup {""}
    BY <2>1, <2>2 DEF NewMedal
  <2> QED BY <2>3 DEF Announce
<1>7. UNCHANGED <<removed, pendingEdits, approving, approvals, overwritten>>
  BY DEF Announce, editVars
<1>8. \A a \in Staff : approving'[a] = NULL \/ IsApproval(approving'[a])
  BY <1>7 DEF EditsTyped, TypeOK
<1> QED BY <1>1, <1>3, <1>4, <1>5, <1>6, <1>7, <1>8 DEF EditsTyped, TypeOK

\* An approval of the profile p is one that is known.
LEMMA ApprovalsAreTyped ==
    ASSUME NEW p \in Profiles, NEW e \in ApprovalOn(p)
    PROVE  IsApproval(e) /\ e \in KnownApprovals
BY DEF KnownApprovals, ApprovalOn, IsApproval

\* Each handler of results and approvals keeps the types.
LEMMA EditsStayTyped ==
    ASSUME EditsTyped, [Next]_vars
    PROVE  EditsTyped'
<1>1. CASE ResultsNext /\ UNCHANGED editVars
  <2>1. CASE \E r \in Results, pod \in Podiums : Announce(r, pod)
    BY <1>1, <2>1, AnnounceTyped
  <2>2. CASE \E s \in Subjects : RemoveAccount(s)
    BY <1>1, <2>2 DEF RemoveAccount, editVars, EditsTyped, TypeOK
  <2> QED BY <1>1, <2>1, <2>2 DEF ResultsNext
<1>2. CASE \E p \in Profiles : SubmitEdit(p)
  BY <1>2 DEF SubmitEdit, resultVars, EditsTyped, TypeOK
<1>3. ASSUME NEW a \in Staff, NEW p \in Profiles, BeginApproval(a, p)
      PROVE  EditsTyped'
  <2> DEFINE new == [profile |-> p, scores |-> ScoreColumns(p),
                     counters |-> MedalColumns(p), saved |-> FALSE]
  <2>1. new \in ApprovalOn(p)
    <3>1. ScoreColumns(p) \in [ColumnsOf(p) -> Int]
      BY DEF ScoreColumns, ColumnsOf, EditsTyped, TypeOK
    <3>2. MedalColumns(p) \in [ColumnsOf(p) \cap MedalHolders -> [Medals -> Nat]]
      BY DEF MedalColumns, ColumnsOf, EditsTyped, TypeOK
    <3> QED BY <3>1, <3>2 DEF ApprovalOn
  <2>2. IsApproval(new) /\ new \in KnownApprovals
    BY <2>1, ApprovalsAreTyped
  <2>3. approving' = [approving EXCEPT ![a] = new]
    BY <1>3 DEF BeginApproval
  <2> HIDE DEF new
  <2>4. approvals' \in 0..MaxApprovals
    <3>1. approvals \in 0..MaxApprovals /\ approvals < MaxApprovals /\ approvals' = approvals + 1
      BY <1>3 DEF BeginApproval, EditsTyped, TypeOK
    <3> QED BY <3>1, EditsAssumption
  <2>5. UNCHANGED <<resultVars, pendingEdits, overwritten>>
    BY <1>3 DEF BeginApproval
  <2> QED BY <2>1, <2>2, <2>3, <2>4, <2>5 DEF resultVars, EditsTyped, TypeOK
<1>4. ASSUME NEW a \in Staff, SaveProfile(a)
      PROVE  EditsTyped'
  <2>1. PICK p \in Profiles : approving[a] \in ApprovalOn(p)
    BY <1>4 DEF SaveProfile, EditsTyped, KnownApprovals
  <2> DEFINE old == approving[a]
             new == [old EXCEPT !.saved = TRUE]
  <2>2. old.profile = p /\ old.scores \in [ColumnsOf(p) -> Int]
        /\ old.counters \in [ColumnsOf(p) \cap MedalHolders -> [Medals -> Nat]]
    BY <2>1 DEF ApprovalOn
  <2>3. new \in ApprovalOn(p)
    BY <2>1 DEF ApprovalOn
  <2>4. IsApproval(new) /\ new \in KnownApprovals
    BY <2>3, ApprovalsAreTyped
  <2>5. approving' = [approving EXCEPT ![a] = new]
    BY <1>4, Zenon DEF SaveProfile
  <2>6. score' \in [Subjects -> Int]
    BY <1>4, <2>2 DEF SaveProfile, EditsTyped, TypeOK
  <2>7. medals' \in [MedalHolders -> [Medals -> Nat]]
    BY <1>4, <2>2 DEF SaveProfile, EditsTyped, TypeOK
  <2>8. overwritten' \subseteq Profiles
    BY <1>4, <2>2 DEF SaveProfile, EditsTyped, TypeOK
  <2> HIDE DEF new, old
  <2>9. UNCHANGED <<removed, podium, transactions, medal, pendingEdits, approvals>>
    BY <1>4 DEF SaveProfile
  <2> QED BY <2>3, <2>4, <2>5, <2>6, <2>7, <2>8, <2>9 DEF EditsTyped, TypeOK
<1>5. ASSUME NEW a \in Staff, DeleteEdit(a)
      PROVE  EditsTyped'
  BY <1>5 DEF KnownApprovals, DeleteEdit, resultVars, EditsTyped, TypeOK
<1>6. ASSUME NEW a \in Staff, ApprovalDies(a)
      PROVE  EditsTyped'
  BY <1>6 DEF KnownApprovals, ApprovalDies, resultVars, EditsTyped, TypeOK
<1>7. CASE UNCHANGED vars
  BY <1>7 DEF vars, resultVars, editVars, EditsTyped, TypeOK
<1> QED BY <1>1, <1>2, <1>3, <1>4, <1>5, <1>6, <1>7 DEF Next

\* An announcement counts what it takes back and what it gives.
LEMMA AnnounceCounts ==
    ASSUME EditsTyped, RowsArePodium, NEW r \in Results, NEW pod \in Podiums, Announce(r, pod),
           NEW s \in Subjects \ removed, NEW m
    PROVE  /\ DueMedals(s, m) \in Nat
           /\ Count(transactions[r], s, m) \in Nat /\ Count(RowsFor(pod), s, m) \in Nat
           /\ Count(transactions[r], s, m) <= DueMedals(s, m)
           /\ DueMedals(s, m)' = DueMedals(s, m) - Count(transactions[r], s, m)
                                 + Count(RowsFor(pod), s, m)
<1> DEFINE old == transactions[r]
           new == RowsFor(pod)
           D == {x \in PlacesOf(s) : MedalOf(x[2]) = m}
           E == {x \in PlacesOf(s)' : MedalOf(x[2]) = m}
<1>1. podium \in [Results -> [Places -> Enrollments \cup {NULL}]] /\ podium' = [podium EXCEPT ![r] = pod]
  BY DEF Announce, EditsTyped, TypeOK
<1>2. /\ old \in SUBSET (Places \X Subjects) /\ new \in SUBSET (Places \X Subjects)
      /\ \A pl \in Places : <<pl, s>> \in new <=> pod[pl] # NULL /\ Snapshot[pod[pl]][s[1]] = s[2]
      /\ \A pl \in Places : <<pl, s>> \in old <=> podium[r][pl] # NULL /\ Snapshot[podium[r][pl]][s[1]] = s[2]
  BY RowsForIs DEF EditsTyped, TypeOK, RowsArePodium
<1>3. /\ Count(old, s, m) \in Nat /\ Count(new, s, m) \in Nat
      /\ Count(old, s, m) = Cardinality({pl \in Places : <<pl, s>> \in old /\ MedalOf(pl) = m})
      /\ Count(new, s, m) = Cardinality({pl \in Places : <<pl, s>> \in new /\ MedalOf(pl) = m})
  BY <1>2, CountIs
<1>4. D \subseteq Results \X Places /\ E \subseteq Results \X Places
  BY DEF PlacesOf
<1>5. \A x \in Results \X Places : x[1] # r => (x \in D <=> x \in E)
  BY <1>1 DEF PlacesOf
<1>6. {pl \in Places : <<pl, s>> \in old /\ MedalOf(pl) = m} = RowOf(r, Places, D)
  BY <1>2 DEF PlacesOf, RowOf
<1>7. {pl \in Places : <<pl, s>> \in new /\ MedalOf(pl) = m} = RowOf(r, Places, E)
  BY <1>1, <1>2 DEF PlacesOf, RowOf
<1>8. DueMedals(s, m) = Cardinality(D) /\ DueMedals(s, m)' = Cardinality(E)
  BY DEF DueMedals
<1>9. IsFiniteSet(Results)
  BY ResultsAssumption
<1> HIDE DEF D, E, old, new
<1>10. /\ Cardinality(D) \in Nat
       /\ Cardinality(RowOf(r, Places, D)) <= Cardinality(D)
       /\ Cardinality(E) = Cardinality(D) - Cardinality(RowOf(r, Places, D))
                           + Cardinality(RowOf(r, Places, E))
  <2>1. ASSUME NEW DD, NEW EE, DD \subseteq Results \X Places, EE \subseteq Results \X Places,
               \A x \in Results \X Places : x[1] # r => (x \in DD <=> x \in EE)
        PROVE  /\ Cardinality(DD) \in Nat
               /\ Cardinality(RowOf(r, Places, DD)) <= Cardinality(DD)
               /\ Cardinality(EE) = Cardinality(DD) - Cardinality(RowOf(r, Places, DD))
                                   + Cardinality(RowOf(r, Places, EE))
    BY <1>9, <2>1, PlacesAreFinite, RowReplaced
  <2> QED BY <1>4, <1>5, <2>1
<1>11. Count(old, s, m) = Cardinality(RowOf(r, Places, D)) /\ Count(new, s, m) = Cardinality(RowOf(r, Places, E))
  BY <1>3, <1>6, <1>7
<1> QED BY <1>3, <1>8, <1>10, <1>11 DEF old, new

\* Points are linear in the medals taken back and given.
LEMMA Sums ==
    ASSUME NEW p \in Nat, NEW q \in Nat, NEW t \in Nat,
           NEW a \in Nat, NEW b \in Nat, NEW c \in Nat, NEW d \in Nat, NEW e \in Nat, NEW f \in Nat,
           NEW x \in Nat, NEW y \in Nat, NEW z \in Nat
    PROVE  p * (a - d + x) + q * (b - e + y) + t * (c - f + z)
           = (p * a + q * b + t * c) - (p * d + q * e + t * f) + (p * x + q * y + t * z)
OBVIOUS

\* An announcement moves what s is due by what it takes back and gives.
LEMMA AnnounceIsExact ==
    ASSUME EditsTyped, RowsArePodium, NEW r \in Results, NEW pod \in Podiums, Announce(r, pod),
           NEW s \in Subjects \ removed
    PROVE  /\ Due(s) \in Nat /\ Total(transactions[r], s) \in Nat /\ Total(RowsFor(pod), s) \in Nat
           /\ Due(s)' = Due(s) - Total(transactions[r], s) + Total(RowsFor(pod), s)
<1> DEFINE old == transactions[r]
           new == RowsFor(pod)
           W(g, sl, b) == PointsOf(s[1], "gold") * g + PointsOf(s[1], "silver") * sl
                          + PointsOf(s[1], "bronze") * b
<1>1. old \in SUBSET (Places \X Subjects) /\ new \in SUBSET (Places \X Subjects)
  BY RowsForIs DEF EditsTyped, TypeOK
<1>2. /\ Total(old, s) \in Nat /\ Total(new, s) \in Nat
      /\ Total(old, s) = W(Count(old, s, "gold"), Count(old, s, "silver"), Count(old, s, "bronze"))
      /\ Total(new, s) = W(Count(new, s, "gold"), Count(new, s, "silver"), Count(new, s, "bronze"))
  BY <1>1, TotalIs
<1>3. /\ Due(s) = W(DueMedals(s, "gold"), DueMedals(s, "silver"), DueMedals(s, "bronze"))
      /\ Due(s)' = W(DueMedals(s, "gold")', DueMedals(s, "silver")', DueMedals(s, "bronze")')
  BY DEF Due, Worth, Medals
<1>4. /\ PointsOf(s[1], "gold") \in Nat /\ PointsOf(s[1], "silver") \in Nat
      /\ PointsOf(s[1], "bronze") \in Nat
  BY Colours
<1>5. \A m \in Medals :
        /\ DueMedals(s, m) \in Nat
        /\ Count(old, s, m) \in Nat /\ Count(new, s, m) \in Nat
        /\ DueMedals(s, m)' = DueMedals(s, m) - Count(old, s, m) + Count(new, s, m)
  BY AnnounceCounts
<1>6. "gold" \in Medals /\ "silver" \in Medals /\ "bronze" \in Medals
  BY DEF Medals
<1> HIDE DEF old, new
<1>7. Due(s) \in Nat
  <2>1. \A x, y \in Nat : x * y \in Nat
    OBVIOUS
  <2> QED BY <1>3, <1>4, <1>5, <1>6, <2>1
<1>8. W(DueMedals(s, "gold")', DueMedals(s, "silver")', DueMedals(s, "bronze")')
      = W(DueMedals(s, "gold"), DueMedals(s, "silver"), DueMedals(s, "bronze"))
        - W(Count(old, s, "gold"), Count(old, s, "silver"), Count(old, s, "bronze"))
        + W(Count(new, s, "gold"), Count(new, s, "silver"), Count(new, s, "bronze"))
  BY <1>4, <1>5, <1>6, Sums
<1> HIDE DEF W
<1> QED BY <1>2, <1>3, <1>7, <1>8 DEF old, new

\* Each handler keeps the transactions those of the podium: only an
\* announcement changes either, and an account that is removed stays so.
LEMMA RowsFollow ==
    ASSUME EditsTyped, RowsArePodium, [Next]_vars
    PROVE  RowsArePodium'
<1>1. ASSUME NEW r \in Results, NEW pod \in Podiums, Announce(r, pod)
      PROVE  RowsArePodium'
  <2>1. podium \in [Results -> [Places -> Enrollments \cup {NULL}]] /\ podium' = [podium EXCEPT ![r] = pod]
    BY <1>1 DEF Announce, EditsTyped, TypeOK
  <2>2. /\ transactions \in [Results -> SUBSET (Places \X Subjects)]
        /\ transactions' = [transactions EXCEPT ![r] = RowsFor(pod)] /\ removed' = removed
    BY <1>1 DEF Announce, EditsTyped, TypeOK
  <2>3. \A pl \in Places, s \in Subjects \ removed :
          <<pl, s>> \in RowsFor(pod) <=> pod[pl] # NULL /\ Snapshot[pod[pl]][s[1]] = s[2]
    BY RowsForIs
  <2> QED BY <2>1, <2>2, <2>3 DEF RowsArePodium
<1>2. ASSUME NEW s \in Subjects, RemoveAccount(s)
      PROVE  RowsArePodium'
  <2>1. Subjects \ removed' \subseteq Subjects \ removed /\ podium' = podium /\ transactions' = transactions
    BY <1>2 DEF RemoveAccount
  <2> QED BY <2>1 DEF RowsArePodium
<1>3. CASE UNCHANGED <<removed, podium, transactions>>
  BY <1>3 DEF RowsArePodium
<1> QED BY <1>1, <1>2, <1>3 DEF Next, ResultsNext, SubmitEdit, BeginApproval, SaveProfile,
        DeleteEdit, ApprovalDies, vars, resultVars

\* Each handler keeps the standings of the rows no approval overwrote.
LEMMA StandingsFollow ==
    ASSUME EditsTyped, RowsArePodium, StandingsFollowPodiums, [Next]_vars
    PROVE  StandingsFollowPodiums'
<1>t. score \in [Subjects -> Int] /\ medals \in [MedalHolders -> [Medals -> Nat]]
  BY DEF EditsTyped, TypeOK
<1>1. ASSUME NEW r \in Results, NEW pod \in Podiums, Announce(r, pod), UNCHANGED editVars
      PROVE  StandingsFollowPodiums'
  <2>1. Intact' = Intact /\ removed' = removed
    BY <1>1 DEF Announce, editVars, Intact
  <2> SUFFICES ASSUME NEW s \in Intact
               PROVE  /\ score'[s] = Due(s)'
                      /\ s \in MedalHolders => \A m \in Medals : medals'[s][m] = DueMedals(s, m)'
    BY <2>1 DEF StandingsFollowPodiums
  <2>2. s \in Subjects \ removed
    BY DEF Intact
  <2>3. /\ score[s] = Due(s)
        /\ s \in MedalHolders => \A m \in Medals : medals[s][m] = DueMedals(s, m)
    BY DEF StandingsFollowPodiums
  <2>4. score'[s] = score[s] - Total(transactions[r], s) + Total(RowsFor(pod), s)
    BY <1>1, <2>2 DEF Announce
  <2>5. score'[s] = Due(s)'
    BY <1>1, <2>2, <2>3, <2>4, AnnounceIsExact
  <2>6. ASSUME s \in MedalHolders, NEW m \in Medals
        PROVE  medals'[s][m] = DueMedals(s, m)'
    <3>1. medals'[s][m] = Lowered(medals[s][m], Count(transactions[r], s, m)) + Count(RowsFor(pod), s, m)
      BY <1>1, <2>2, <2>6 DEF Announce
    <3>2. \A n, c \in Nat : c <= n => Lowered(n, c) = n - c
      BY DEF Lowered
    <3> QED BY <1>1, <2>2, <2>3, <2>6, <3>1, <3>2, AnnounceCounts
  <2> QED BY <2>5, <2>6
<1>2. ASSUME NEW s \in Subjects, RemoveAccount(s), UNCHANGED editVars
      PROVE  StandingsFollowPodiums'
  <2>1. Intact' \subseteq Intact
    BY <1>2 DEF RemoveAccount, editVars, Intact
  <2>2. \A x, m : Due(x)' = Due(x) /\ DueMedals(x, m)' = DueMedals(x, m)
    BY <1>2 DEF RemoveAccount, Due, DueMedals, PlacesOf
  <2>3. score' = score /\ medals' = medals
    BY <1>2 DEF RemoveAccount
  <2> QED BY <2>1, <2>2, <2>3 DEF StandingsFollowPodiums
<1>3. ASSUME NEW a \in Staff, SaveProfile(a)
      PROVE  StandingsFollowPodiums'
  <2>1. PICK p \in Profiles : approving[a] \in ApprovalOn(p)
    BY <1>3 DEF SaveProfile, EditsTyped, KnownApprovals
  <2>2. /\ approving[a].profile = p /\ DOMAIN approving[a].scores = ColumnsOf(p)
        /\ DOMAIN approving[a].counters = ColumnsOf(p) \cap MedalHolders
    BY <2>1 DEF ApprovalOn
  <2>3. podium' = podium /\ removed' = removed
    BY <1>3 DEF SaveProfile
  <2>4. \A x, m : Due(x)' = Due(x) /\ DueMedals(x, m)' = DueMedals(x, m)
    BY <2>3 DEF Due, DueMedals, PlacesOf
  <2>5. CASE score' = score /\ medals' = medals
    <3>1. Intact' = Intact
      BY <1>3, <2>3, <2>5 DEF SaveProfile, Intact
    <3> QED BY <2>4, <2>5, <3>1 DEF StandingsFollowPodiums
  <2>6. CASE ~(score' = score /\ medals' = medals)
    <3>1. Intact' \subseteq Intact \ ColumnsOf(p)
      BY <1>3, <2>2, <2>3, <2>6 DEF SaveProfile, Intact, ColumnsOf
    <3>2. \A s \in Subjects \ ColumnsOf(p) : score'[s] = score[s]
      BY <1>3, <2>2 DEF SaveProfile
    <3>3. \A s \in MedalHolders \ ColumnsOf(p) : medals'[s] = medals[s]
      BY <1>3, <2>2 DEF SaveProfile
    <3>4. Intact' \subseteq Subjects
      BY DEF Intact
    <3> QED BY <2>4, <3>1, <3>2, <3>3, <3>4 DEF StandingsFollowPodiums
  <2> QED BY <2>5, <2>6
<1>4. CASE UNCHANGED <<resultVars, overwritten>>
  <2>1. Intact' = Intact
    BY <1>4 DEF resultVars, Intact
  <2>2. \A x, m : Due(x)' = Due(x) /\ DueMedals(x, m)' = DueMedals(x, m)
    BY <1>4 DEF resultVars, Due, DueMedals, PlacesOf
  <2>3. score' = score /\ medals' = medals
    BY <1>4 DEF resultVars
  <2> QED BY <2>1, <2>2, <2>3 DEF StandingsFollowPodiums
<1> QED BY <1>1, <1>2, <1>3, <1>4 DEF Next, ResultsNext, SubmitEdit, BeginApproval,
        DeleteEdit, ApprovalDies, vars, editVars

\* Before anything is announced nobody is due anything.
LEMMA EditsStart == Init => EditsTyped /\ RowsArePodium /\ StandingsFollowPodiums
<1> SUFFICES ASSUME Init PROVE EditsTyped /\ RowsArePodium /\ StandingsFollowPodiums
  OBVIOUS
<1>0. 0 \in Int /\ 0 \in Nat /\ 0 \in 0..MaxApprovals
  BY EditsAssumption
<1>1. EditsTyped
  <2> USE DEF Init, ResultsInit
  <2>1. approvals \in 0..MaxApprovals
    BY <1>0, Zenon
  <2>2. score \in [Subjects -> Int] /\ medals \in [MedalHolders -> [Medals -> Nat]]
    <3>2. [m \in Medals |-> 0] \in [Medals -> Nat]
      BY <1>0
    <3>3. medals = [s \in MedalHolders |-> [m \in Medals |-> 0]]
      OBVIOUS
    <3> QED BY <1>0, <3>2, <3>3, Zenon
  <2>3. medal \in [Enrollments -> Medals \cup {""}]
    OBVIOUS
  <2>4. podium \in [Results -> [Places -> Enrollments \cup {NULL}]]
    OBVIOUS
  <2>5. transactions \in [Results -> SUBSET (Places \X Subjects)]
    OBVIOUS
  <2>6. approving \in [Staff -> KnownApprovals] /\ \A a \in Staff : approving[a] = NULL
    BY DEF KnownApprovals
  <2> QED BY <2>1, <2>2, <2>3, <2>4, <2>5, <2>6 DEF EditsTyped, TypeOK
<1>2. RowsArePodium
  BY DEF RowsArePodium, Init, ResultsInit
<1>3. StandingsFollowPodiums
  <2>1. \A s \in Intact : PlacesOf(s) = {}
    BY DEF PlacesOf, Init, ResultsInit
  <2>2. \A s \in Intact, m \in Medals : DueMedals(s, m) = 0
    <3> TAKE s \in Intact, m \in Medals
    <3>1. {x \in PlacesOf(s) : MedalOf(x[2]) = m} = {}
      BY <2>1
    <3> QED BY <3>1, FS_EmptySet DEF DueMedals
  <2>4. \A s \in Intact : Due(s) = 0
    <3> TAKE s \in Intact
    <3>1. \A n \in Nat : n * 0 = 0
      OBVIOUS
    <3>2. \A m : PointsOf(s[1], m) * 0 = 0
      BY <3>1, Colours
    <3>3. Due(s) = PointsOf(s[1], "gold") * DueMedals(s, "gold")
                   + PointsOf(s[1], "silver") * DueMedals(s, "silver")
                   + PointsOf(s[1], "bronze") * DueMedals(s, "bronze")
      BY DEF Due, Worth, Medals
    <3>4. DueMedals(s, "gold") = 0 /\ DueMedals(s, "silver") = 0 /\ DueMedals(s, "bronze") = 0
      BY <2>2 DEF Medals
    <3> QED BY <3>2, <3>3, <3>4
  <2>5. Intact \subseteq Subjects
    BY DEF Intact
  <2> QED BY <2>2, <2>4, <2>5 DEF StandingsFollowPodiums, Init, ResultsInit
<1> QED BY <1>1, <1>2, <1>3

\* The inductive invariant of the results and the approvals.
EditsInv == EditsTyped /\ RowsArePodium /\ StandingsFollowPodiums

\* In every reachable state of results and approvals the types hold, the
\* transactions are those of the podiums, and the standings follow them.
THEOREM EditsInductive == Spec => []EditsInv
<1>1. Init => EditsInv
  BY EditsStart DEF EditsInv
<1>2. EditsInv /\ [Next]_vars => EditsInv'
  BY EditsStayTyped, RowsFollow, StandingsFollow DEF EditsInv
<1> QED BY <1>1, <1>2, PTL DEF Spec

-----------------------------------------------------------------------------
\* Whichever behaviour is followed, its handlers are those of ProfileEdits.
Followed == followed \in Members \cup {NULL}

\* A step of the form, its server or an approval of it is one of ProfileEdits.
LEMMA FormSteps ==
    ASSUME Followed, [FormNext]_allVars
    PROVE  [Next]_vars
<1>1. CASE UNCHANGED allVars
  BY <1>1 DEF allVars
<1>2. CASE followed = NULL /\ FormNext
  BY <1>2 DEF FormNext
<1>3. CASE followed # NULL /\ FormNext
  <2>0. followed \in Profiles
    BY <1>3, FormAssumption DEF Followed, Profiles
  <2>1. CASE Browser
    BY <2>1 DEF Browser
  <2>2. CASE Server
    BY <2>0, <2>2 DEF Server, HandleProfile, HandleCoaches, StoreEdit, RefuseOwnCoach, FinishEdit,
       Fail, Next
  <2>3. CASE Approvals
    BY <2>0, <2>3 DEF Approvals, BeginFormApproval, SaveForm, DeleteForm, ApprovalCut, Next
  <2> QED BY <1>3, <2>1, <2>2, <2>3 DEF FormNext
<1> QED BY <1>1, <1>2, <1>3

\* The form with its contents implements the results and approvals without
\* them (approve_edited_profile and UpdateProfilePendingAPIView).
THEOREM FormImplementsEdits == FormSpec => Spec
<1>1. FormInit => Init /\ Followed
  BY DEF FormInit, Followed
<1>2. Followed /\ [FormNext]_allVars => Followed'
  BY DEF Followed, FormNext, allVars
<1>3. Followed /\ [FormNext]_allVars => [Next]_vars
  BY FormSteps
<1> QED BY <1>1, <1>2, <1>3, PTL DEF Spec, FormSpec

\* Every variable keeps its type: no announcement or approval takes a medal
\* counter below zero.
THEOREM EditsTypeCorrect == FormSpec => []TypeOK
<1>1. EditsInv => TypeOK
  BY DEF EditsInv, EditsTyped
<1> QED BY <1>1, EditsInductive, FormImplementsEdits, PTL

\* Points and medals of accounts that exist are those of the present podiums
\* (apply_results_and_points), unless an approval overwrote the row.
THEOREM StandingsHold == FormSpec => []StandingsFollowPodiums
<1>1. EditsInv => StandingsFollowPodiums
  BY DEF EditsInv
<1> QED BY <1>1, EditsInductive, FormImplementsEdits, PTL

\* Only the save of an approval changes a score and not what is due.
LEMMA NoDrift ==
    ASSUME EditsInv, [Next]_vars
    PROVE  \A s \in Subjects \ removed' :
             score'[s] - Due(s)' # score[s] - Due(s)
             => \E a \in Staff : SaveProfile(a) /\ approving[a].profile = s[2]
<1> SUFFICES ASSUME NEW s \in Subjects \ removed', score'[s] - Due(s)' # score[s] - Due(s)
             PROVE  \E a \in Staff : SaveProfile(a) /\ approving[a].profile = s[2]
  OBVIOUS
<1>t. score \in [Subjects -> Int]
  BY DEF EditsInv, EditsTyped, TypeOK
<1>1. ASSUME NEW r \in Results, NEW pod \in Podiums, Announce(r, pod)
      PROVE  FALSE
  <2>1. s \in Subjects \ removed
    BY <1>1 DEF Announce
  <2>2. score'[s] = score[s] - Total(transactions[r], s) + Total(RowsFor(pod), s)
    BY <1>1, <2>1 DEF Announce
  <2>3. /\ Due(s) \in Nat /\ Total(transactions[r], s) \in Nat /\ Total(RowsFor(pod), s) \in Nat
        /\ Due(s)' = Due(s) - Total(transactions[r], s) + Total(RowsFor(pod), s)
    BY <1>1, <2>1, AnnounceIsExact DEF EditsInv
  <2>4. score[s] \in Int
    BY <1>t, <2>1
  <2> QED BY <2>2, <2>3, <2>4
<1>2. ASSUME podium' = podium, score' = score
      PROVE  FALSE
  <2>1. Due(s)' = Due(s)
    BY <1>2 DEF Due, DueMedals, PlacesOf
  <2> QED BY <1>2, <2>1
<1>3. ASSUME NEW a \in Staff, SaveProfile(a)
      PROVE  approving[a].profile = s[2]
  <2>1. PICK p \in Profiles : approving[a] \in ApprovalOn(p)
    BY <1>3 DEF SaveProfile, EditsInv, EditsTyped, KnownApprovals
  <2>2. approving[a].profile = p /\ DOMAIN approving[a].scores = ColumnsOf(p)
    BY <2>1 DEF ApprovalOn
  <2>3. Due(s)' = Due(s)
    BY <1>3 DEF SaveProfile, Due, DueMedals, PlacesOf
  <2>4. s \in ColumnsOf(p)
    BY <1>3, <2>2, <2>3 DEF SaveProfile
  <2> QED BY <2>2, <2>4 DEF ColumnsOf
<1> QED BY <1>1, <1>2, <1>3 DEF Next, ResultsNext, RemoveAccount, SubmitEdit, BeginApproval,
        DeleteEdit, ApprovalDies, vars, resultVars

\* Announcing again neither repairs nor worsens an error in a score: only
\* approve_edited_profile, which writes an old row, makes one.
THEOREM DriftNeedsApproval == FormSpec => DriftOnlyByApproval
<1> DEFINE A == \A s \in Subjects \ removed' :
                  score'[s] - Due(s)' # score[s] - Due(s)
                  => \E a \in Staff : SaveProfile(a) /\ approving[a].profile = s[2]
<1>1. DriftOnlyByApproval <=> [][A]_vars
  BY DEF DriftOnlyByApproval
<1>2. EditsInv /\ [Next]_vars => A
  BY NoDrift
<1> HIDE DEF A
<1>3. EditsInv /\ [Next]_vars => [A]_vars
  BY <1>2
<1>4. Spec => [][Next]_vars
  BY DEF Spec
<1> QED BY <1>1, <1>3, <1>4, EditsInductive, FormImplementsEdits, PTL

\* A place as far as it is chosen.
PlacesChosen ==
    {place \in {<<p, c, t>> : p \in {0, 1, 2}, c \in {0, 1, 2}, t \in {0, 1, 2}} :
        place[2] \in {0, place[1]} /\ place[3] \in {0, place[2]}}
Names == Clubs \cup Coaches \cup {NULL, Dash, ""}
Grades == {"set", "null", ""}
Fields == [place : PlacesChosen, club : Names, coach : Names, isCoach : BOOLEAN,
           coachGrade : Grades, isReferee : BOOLEAN, kyorogi : BOOLEAN, kyorogiGrade : Grades,
           image : BOOLEAN]

\* What an edit or a profile has: one city, and a grade for each title.
SoundFields ==
    {f \in Fields : /\ Complete(f.place)
                    /\ f.isCoach => f.coachGrade = "set"
                    /\ f.kyorogi => f.kyorogiGrade = "set"}

Kept == [sent : Fields, stored : SoundFields]
Data == {Nothing} \cup Fields \cup Kept \cup [coaches : SUBSET Coaches] \cup [club : Names]
Call == [by : {"form", "gone", "nobody"}, op : {"none", "profile", "coaches", "edit"},
         phase : {"free", "waiting", "handling", "done", "failed"}, data : Data]
Form == [mounted : {TRUE}, loaded : BOOLEAN, data : {Nothing} \cup Fields,
         base : {Nothing} \cup Fields, known : SUBSET Fields, coaches : SUBSET Coaches,
         unlocked : BOOLEAN, busy : BOOLEAN]
Reading == [list : BOOLEAN, old : SoundFields, edit : SoundFields]

\* What a request carries, by what it asks for and how far it is.
CallOK(c) ==
    /\ c \in Call
    /\ c.op = "profile" /\ c.phase = "done" => c.data \in Fields
    /\ c.op = "coaches" /\ c.phase = "done" => c.data \in [coaches : SUBSET Coaches]
    /\ c.op = "edit" /\ c.phase \in {"waiting", "done"} => c.data \in Fields
    /\ c.op = "edit" /\ c.phase = "handling" => c.data \in Kept

CallsOK == calls = [s \in Slots |-> calls[s]] /\ \A s \in Slots : CallOK(calls[s])

\* What the page holds it has loaded, and what it compares with it knows.
FormOK ==
    form.mounted => /\ form \in Form
                    /\ form.loaded => form.data \in Fields /\ form.base \in form.known

RowsOK ==
    /\ profile \in SoundFields
    /\ edit \in {Nothing} \cup SoundFields
    /\ acked \in {Nothing} \cup SoundFields
    /\ reading \in [Staff -> {Nothing} \cup Reading]

FormTyped == CallsOK /\ FormOK /\ RowsOK

\* Nothing is not a content.
LEMMA NoFields == Nothing \notin Fields \cup Reading \cup Kept
<1>1. DOMAIN Nothing = {"nothing"}
  BY DEF Nothing
<1>2. \A f \in Fields : "place" \in DOMAIN f
  BY DEF Fields
<1>3. \A f \in Reading : "list" \in DOMAIN f
  BY DEF Reading
<1>4. \A f \in Kept : "sent" \in DOMAIN f
  BY DEF Kept
<1> QED BY <1>1, <1>2, <1>3, <1>4

-----------------------------------------------------------------------------
(* Requests.                                                               *)

\* A free slot is right.
LEMMA NoCallOK == CallOK(NoCall)
BY DEF CallOK, NoCall, Call, Data

\* Changing one slot to a request that is right leaves every request right.
LEMMA OneCall ==
    ASSUME CallsOK, NEW s \in Slots, NEW c, CallOK(c), calls' = [calls EXCEPT ![s] = c]
    PROVE  CallsOK'
BY DEF CallsOK, CallOK

\* Sending what is right leaves every request right.
LEMMA SendOK ==
    ASSUME CallsOK, NEW by, NEW op, NEW data, CallOK(Request(by, op, data)), Send(by, op, data)
    PROVE  CallsOK'
BY OneCall DEF Send, Free

\* So does taking an answer,
LEMMA TakeOK == ASSUME CallsOK, NEW s \in Slots, Take(s) PROVE CallsOK'
BY OneCall, NoCallOK DEF Take

\* and settling a request with an answer that is right.
LEMMA SettleOK ==
    ASSUME CallsOK, NEW s \in Slots, NEW phase, NEW answer,
           CallOK([calls[s] EXCEPT !.phase = phase, !.data = answer]),
           Settle(s, phase, answer)
    PROVE  CallsOK'
<1>1. CASE calls[s].by = "gone"
  BY <1>1, OneCall, NoCallOK DEF Settle
<1>2. CASE calls[s].by # "gone"
  BY <1>2, OneCall DEF Settle
<1> QED BY <1>1, <1>2

\* A refusal carries nothing, and is right for every operation.
LEMMA RefuseOK == ASSUME CallsOK, NEW s \in Slots, Refuse(s) PROVE CallsOK'
<1>1. CallOK([calls[s] EXCEPT !.phase = "failed", !.data = Nothing])
  <2>1. CallOK(calls[s])
    BY DEF CallsOK
  <2> QED BY <2>1 DEF CallOK, Call, Data
<1> QED BY <1>1, SettleOK DEF Refuse

-----------------------------------------------------------------------------
(* Contents.                                                               *)

\* A stored edit is sound whatever the earlier one kept.
LEMMA ContentIsSound ==
    ASSUME edit \in {Nothing} \cup SoundFields, NEW f \in Fields, Valid(f)
    PROVE  Content(f) \in SoundFields
<1> DEFINE old == IF edit = Nothing THEN [f EXCEPT !.coach = NULL] ELSE edit
<1>1. old \in Fields
  BY DEF Fields, SoundFields, Names
<1>2. /\ Sent(f.coach, old.coach, NULL) \in Names
      /\ Sent(f.coachGrade, old.coachGrade, "") \in Grades
      /\ Sent(f.kyorogiGrade, old.kyorogiGrade, "") \in Grades
  BY <1>1 DEF Sent, Fields, Names, Grades
<1>3. Sent("set", old.coachGrade, "") = "set" /\ Sent("set", old.kyorogiGrade, "") = "set"
  BY FormAssumption DEF Sent
<1> DEFINE new == [f EXCEPT !.image = FALSE, !.club = IF @ = "" THEN NULL ELSE @,
                 !.coach = Sent(@, old.coach, NULL),
                 !.coachGrade = Sent(@, old.coachGrade, ""),
                 !.kyorogiGrade = Sent(@, old.kyorogiGrade, "")]
<1>4. Content(f) = new
  BY DEF Content
<1> HIDE DEF old
<1>5. /\ new \in Fields
      /\ new.place = f.place /\ new.isCoach = f.isCoach /\ new.kyorogi = f.kyorogi
      /\ new.coachGrade = Sent(f.coachGrade, old.coachGrade, "")
      /\ new.kyorogiGrade = Sent(f.kyorogiGrade, old.kyorogiGrade, "")
  BY <1>2 DEF Fields, Names
<1> HIDE DEF new
<1> QED BY <1>3, <1>4, <1>5 DEF SoundFields, Valid

\* What an approval writes is sound, and has what the edit has.
LEMMA AppliedIsSound ==
    ASSUME NEW r \in Reading
    PROVE  Applied(r) \in SoundFields
<1>1. r.edit \in SoundFields /\ r.old \in SoundFields /\ r.edit \in Fields /\ r.old \in Fields
  BY DEF Reading, SoundFields
<1>2. CASE r.list
  <2> DEFINE new == [r.edit EXCEPT !.place = r.old.place]
  <2>1. new \in Fields /\ new.place = r.old.place
    BY <1>1 DEF Fields
  <2>2. new.isCoach = r.edit.isCoach /\ new.coachGrade = r.edit.coachGrade
        /\ new.kyorogi = r.edit.kyorogi /\ new.kyorogiGrade = r.edit.kyorogiGrade
    BY <1>1 DEF Fields
  <2>3. Applied(r) = new
    BY <1>2 DEF Applied
  <2> HIDE DEF new
  <2> QED BY <1>1, <2>1, <2>2, <2>3 DEF SoundFields
<1>3. CASE ~r.list
  <2> DEFINE new == [r.edit EXCEPT !.club = IF @ = NULL THEN r.old.club ELSE @,
                        !.coach = IF @ = NULL THEN r.old.coach ELSE @]
  <2>1. new \in Fields /\ new.place = r.edit.place
    BY <1>1 DEF Fields
  <2>2. new.isCoach = r.edit.isCoach /\ new.coachGrade = r.edit.coachGrade
        /\ new.kyorogi = r.edit.kyorogi /\ new.kyorogiGrade = r.edit.kyorogiGrade
    BY <1>1 DEF Fields
  <2>3. Applied(r) = new
    BY <1>3 DEF Applied
  <2> HIDE DEF new
  <2> QED BY <1>1, <2>1, <2>2, <2>3 DEF SoundFields
<1> QED BY <1>2, <1>3

\* What an approval has written carries the edit it has read.
LEMMA AppliedIsCarried ==
    ASSUME NEW r \in Reading, profile' = Applied(r)
    PROVE  Carries(r.edit)'
<1>1. r.edit \in Fields /\ r.old \in Fields
  BY DEF Reading, SoundFields
<1>2. DOMAIN r.edit = {"place", "club", "coach", "isCoach", "coachGrade", "isReferee", "kyorogi",
                       "kyorogiGrade", "image"}
  BY <1>1 DEF Fields
<1>3. CASE r.list
  <2>1. profile' = [r.edit EXCEPT !.place = r.old.place]
    BY <1>3 DEF Applied
  <2>2. /\ \A g \in DOMAIN r.edit \ {"place", "club", "coach"} : profile'[g] = r.edit[g]
        /\ profile'.club = r.edit.club /\ profile'.coach = r.edit.coach
    BY <1>1, <2>1, <1>2 DEF Fields
  <2> QED BY <2>2 DEF Carries
<1>4. CASE ~r.list
  <2>1. profile' = [r.edit EXCEPT !.club = IF @ = NULL THEN r.old.club ELSE @,
                        !.coach = IF @ = NULL THEN r.old.coach ELSE @]
    BY <1>4 DEF Applied
  <2>2. /\ \A g \in DOMAIN r.edit \ {"place", "club", "coach"} : profile'[g] = r.edit[g]
        /\ profile'.place = r.edit.place
        /\ r.edit.club \in {NULL, profile'.club} /\ r.edit.coach \in {NULL, profile'.coach}
    BY <1>1, <2>1, <1>2 DEF Fields
  <2> QED BY <2>2 DEF Carries
<1> QED BY <1>3, <1>4

\* In the behaviours that follow a form, edits and approvals are the member's,
\* and an approval under way has read one.
ApprovalsMatch ==
    followed # NULL =>
        /\ pendingEdits \subseteq {followed}
        /\ followed \in pendingEdits => edit # Nothing
        /\ \A a \in Staff : approving[a] # NULL => approving[a].profile = followed /\ reading[a] # Nothing

\* Each step leaves every request right.
LEMMA CallsStep ==
    ASSUME FormTyped, [FormNext]_allVars
    PROVE  CallsOK'
<1> USE DEF FormTyped
<1>1. CASE UNCHANGED calls
  BY <1>1 DEF CallsOK, CallOK
<1>2. CASE Mount
  <2>1. CallOK(Request("form", "profile", Nothing))
    BY DEF CallOK, Request, Call, Data
  <2> QED BY <1>2, <2>1, SendOK DEF Mount
<1>3. CASE Unmount
  <2>1. ASSUME NEW s \in Slots PROVE CallOK(Abandoned({"form"}, {"edit"})[s])
    <3>1. CallOK(calls[s]) /\ CallOK(NoCall)
      BY NoCallOK DEF CallsOK
    <3>2. CallOK([calls[s] EXCEPT !.by = "gone"])
      BY <3>1 DEF CallOK, Call
    <3> QED BY <3>1, <3>2 DEF Abandoned
  <2> QED BY <1>3, <2>1 DEF Unmount, CallsOK, Abandoned
<1>4. ASSUME NEW k \in Clubs \cup {""}, ChooseClub(k) PROVE CallsOK'
  <2>1. CallOK(Request("form", "coaches", [club |-> k]))
    BY DEF CallOK, Request, Call, Data, Names
  <2> QED BY <1>4, <2>1, SendOK DEF ChooseClub
<1>5. CASE Confirm
  <2>1. form.data \in Fields
    BY <1>5 DEF Confirm, Ready, FormOK
  <2>2. CallOK(Request("form", "edit", form.data))
    BY <2>1 DEF CallOK, Request, Call, Data
  <2> QED BY <1>5, <2>2, SendOK DEF Confirm
<1>6. ASSUME NEW s \in Slots, Loaded(s) \/ ShowCoaches(s) \/ Submitted(s) PROVE CallsOK'
  BY <1>6, TakeOK DEF Loaded, ShowCoaches, Submitted
<1>7. ASSUME NEW s \in Slots, Refuse(s) PROVE CallsOK'
  BY <1>7, RefuseOK
<1>8. ASSUME NEW s \in Slots, HandleProfile(s) PROVE CallsOK'
  <2> DEFINE answer == [profile EXCEPT !.club = IF @ = NULL THEN Dash ELSE @]
  <2>1. answer \in Fields
    BY DEF RowsOK, SoundFields, Fields, Names
  <2>2. CallOK(calls[s]) /\ calls[s].op = "profile"
    BY <1>8 DEF CallsOK, HandleProfile, Waiting
  <2>3. Reply(s, answer)
    BY <1>8 DEF HandleProfile
  <2> HIDE DEF answer
  <2>4. CallOK([calls[s] EXCEPT !.phase = "done", !.data = answer])
    BY <2>1, <2>2 DEF CallOK, Call, Data
  <2> QED BY <2>3, <2>4, SettleOK DEF Reply
<1>9. ASSUME NEW s \in Slots, calls[s].op = "coaches", Reply(s, [coaches |-> Coaches]) PROVE CallsOK'
  <2>1. CallOK([calls[s] EXCEPT !.phase = "done", !.data = [coaches |-> Coaches]])
    <3>1. CallOK(calls[s])
      BY DEF CallsOK
    <3> QED BY <1>9, <3>1 DEF CallOK, Call, Data
  <2> QED BY <1>9, <2>1, SettleOK DEF Reply
<1>10. ASSUME NEW s \in Slots, StoreEdit(s) PROVE CallsOK'
  <2> DEFINE sent == calls[s].data
             kept == [sent |-> sent, stored |-> Content(sent)]
             new == [calls[s] EXCEPT !.phase = "handling", !.data = kept]
  <2>1. CallOK(calls[s]) /\ calls[s].op = "edit" /\ calls[s].phase = "waiting" /\ Valid(sent)
    BY <1>10 DEF CallsOK, StoreEdit, Waiting
  <2>2. sent \in Fields
    BY <2>1 DEF CallOK
  <2>3. kept \in Kept
    BY <2>1, <2>2, ContentIsSound DEF Kept, RowsOK
  <2>4. calls' = [calls EXCEPT ![s] = new]
    BY <1>10, <2>1 DEF StoreEdit, CallsOK, CallOK, Call
  <2> HIDE DEF kept, sent
  <2>5. CallOK(new)
    BY <2>1, <2>3 DEF CallOK, Call, Data
  <2> HIDE DEF new
  <2> QED BY <2>4, <2>5, OneCall
<1>11. ASSUME NEW s \in Slots, FinishEdit(s) PROVE CallsOK'
  <2> DEFINE sent == calls[s].data.sent
  <2>1. CallOK(calls[s]) /\ calls[s].op = "edit" /\ calls[s].phase = "handling"
    BY <1>11 DEF CallsOK, FinishEdit, Handling
  <2>2. sent \in Fields
    BY <2>1 DEF CallOK, Kept
  <2>3. Reply(s, sent)
    BY <1>11 DEF FinishEdit
  <2> HIDE DEF sent
  <2>4. CallOK([calls[s] EXCEPT !.phase = "done", !.data = sent])
    BY <2>1, <2>2 DEF CallOK, Call, Data
  <2> QED BY <2>3, <2>4, SettleOK DEF Reply
<1>12. CASE Browser
  BY <1>1, <1>2, <1>3, <1>4, <1>5, <1>6, <1>12 DEF Browser, UnlockClub, ChooseImage, ChooseProvince,
     ChooseCounty, ChooseCity, ChooseCoach, ChooseTitle, ChooseGrade
<1>13. CASE Server
  BY <1>7, <1>8, <1>9, <1>10, <1>11, <1>13 DEF Server, HandleCoaches, RefuseOwnCoach, Fail, Waiting
<1> QED BY <1>1, <1>12, <1>13 DEF FormNext, Approvals, allVars

-----------------------------------------------------------------------------
\* An input leaves the form with contents.
LEMMA EnterOK ==
    ASSUME FormOK, Ready, NEW d, d \in Fields, Enter(d)
    PROVE  FormOK'
<1>1. form \in Form /\ form.loaded /\ form.base \in form.known
  BY DEF FormOK, Ready
<1>2. form' = [form EXCEPT !.data = d]
  BY DEF Enter
<1>3. form' \in Form /\ form'.loaded /\ form'.data = d /\ form'.base = form.base /\ form'.known = form.known
  BY <1>1, <1>2 DEF Form
<1> QED BY <1>1, <1>3 DEF FormOK

\* Each choice keeps the fields in their range.
LEMMA ChoicesOK ==
    ASSUME NEW f \in Fields
    PROVE  /\ \A p \in {0, 1, 2} : [f EXCEPT !.place = <<p, 0, 0>>] \in Fields
           /\ \A c \in CountiesOf(f.place[1]) \cup {0} : [f EXCEPT !.place = <<@[1], c, 0>>] \in Fields
           /\ \A t \in CitiesOf(f.place[2]) \cup {0} : [f EXCEPT !.place = <<@[1], @[2], t>>] \in Fields
           /\ \A k \in Clubs \cup {""} : [f EXCEPT !.club = k, !.coach = ""] \in Fields
           /\ \A c \in Coaches \cup {""} : [f EXCEPT !.coach = c] \in Fields
           /\ \A title \in {"isCoach", "isReferee", "kyorogi"} : [f EXCEPT ![title] = ~@] \in Fields
           /\ \A grade \in {"coachGrade", "kyorogiGrade"}, g \in {"", "set"} :
                [f EXCEPT ![grade] = g] \in Fields
           /\ [f EXCEPT !.image = TRUE] \in Fields
<1>0. ASSUME NEW q \in PlacesChosen PROVE [f EXCEPT !.place = q] \in Fields
  BY DEF Fields
<1>1. \A p \in {0, 1, 2} : <<p, 0, 0>> \in PlacesChosen
  BY DEF PlacesChosen
<1>p. f.place \in PlacesChosen
  BY DEF Fields
<1>2. \A c \in CountiesOf(f.place[1]) \cup {0} : <<f.place[1], c, 0>> \in PlacesChosen
  BY <1>p DEF PlacesChosen, CountiesOf, Provinces
<1>3. \A t \in CitiesOf(f.place[2]) \cup {0} : <<f.place[1], f.place[2], t>> \in PlacesChosen
  BY <1>p DEF PlacesChosen, CitiesOf, Provinces
<1>4. \A k \in Clubs \cup {""} : [f EXCEPT !.club = k, !.coach = ""] \in Fields
  BY DEF Fields, Names
<1>5. \A c \in Coaches \cup {""} : [f EXCEPT !.coach = c] \in Fields
  BY DEF Fields, Names
<1>6. /\ [f EXCEPT !["isCoach"] = ~@] \in Fields
      /\ [f EXCEPT !["isReferee"] = ~@] \in Fields
      /\ [f EXCEPT !["kyorogi"] = ~@] \in Fields
  BY DEF Fields
<1>7. \A g \in {"", "set"} : /\ [f EXCEPT !["coachGrade"] = g] \in Fields
                             /\ [f EXCEPT !["kyorogiGrade"] = g] \in Fields
  BY DEF Fields, Grades
<1>8. [f EXCEPT !.image = TRUE] \in Fields
  BY DEF Fields
<1> QED BY <1>0, <1>1, <1>2, <1>3, <1>4, <1>5, <1>6, <1>7, <1>8

\* Each step leaves the page with what it has loaded.
LEMMA FormStep ==
    ASSUME FormTyped, [FormNext]_allVars
    PROVE  FormOK'
<1> USE DEF FormTyped
<1>1. CASE UNCHANGED form
  BY <1>1 DEF FormOK
<1>2. CASE Mount
  <2>1. Mounted \in Form /\ ~Mounted.loaded
    BY DEF Mounted, Form
  <2> QED BY <1>2, <2>1 DEF Mount, FormOK
<1>3. CASE form' = NoForm
  BY <1>3 DEF NoForm, FormOK
<1>4. ASSUME NEW s \in Slots, Loaded(s), ~Failed(s) PROVE FormOK'
  <2> DEFINE read == calls[s].data
  <2>1. calls[s].op = "profile" /\ calls[s].phase = "done" /\ CallOK(calls[s]) /\ calls[s].by = "form"
    BY <1>4 DEF Loaded, Answered, Failed, CallsOK
  <2>2. read \in Fields
    BY <2>1 DEF CallOK
  <2>3. form' = [form EXCEPT !.loaded = TRUE, !.data = read, !.base = read,
                             !.known = {read}, !.coaches = Coaches]
    BY <1>4 DEF Loaded
  <2> HIDE DEF read
  <2>4. CASE form.mounted
    <3>1. form \in Form
      BY <2>4 DEF FormOK
    <3>2. form' \in Form /\ form'.data = read /\ form'.base = read /\ form'.known = {read}
      BY <2>2, <2>3, <3>1 DEF Form
    <3> QED BY <2>2, <3>2 DEF FormOK
  <2>5. CASE ~form.mounted
    <3> QED BY <2>3, <2>5 DEF FormOK
  <2> QED BY <2>4, <2>5
<1>5. ASSUME NEW s \in Slots, ShowCoaches(s) PROVE FormOK'
  <2> DEFINE options == IF Failed(s) THEN {} ELSE calls[s].data.coaches
  <2>1. calls[s].op = "coaches" /\ calls[s].phase \in {"done", "failed"} /\ CallOK(calls[s])
    BY <1>5 DEF ShowCoaches, Answered, CallsOK
  <2>2. options \in SUBSET Coaches
    BY <2>1 DEF CallOK, Failed
  <2>3. form' = [form EXCEPT !.coaches = options]
    BY <1>5 DEF ShowCoaches
  <2> HIDE DEF options
  <2>4. CASE form.mounted
    <3>1. form \in Form
      BY <2>4 DEF FormOK
    <3>2. form' \in Form /\ form'.loaded = form.loaded /\ form'.data = form.data
          /\ form'.base = form.base /\ form'.known = form.known
      BY <2>2, <2>3, <3>1 DEF Form
    <3> QED BY <2>4, <3>2 DEF FormOK
  <2>5. CASE ~form.mounted
    BY <2>3, <2>5 DEF FormOK
  <2> QED BY <2>4, <2>5
<1>6. ASSUME NEW s \in Slots, Submitted(s) PROVE FormOK'
  <2> DEFINE sent == calls[s].data
  <2>1. calls[s].op = "edit" /\ calls[s].phase \in {"done", "failed"} /\ CallOK(calls[s])
    BY <1>6 DEF Submitted, Answered, CallsOK
  <2>2. CASE Failed(s)
    <3>1. form' = [form EXCEPT !.busy = FALSE]
      BY <1>6, <2>2 DEF Submitted
    <3>2. CASE form.mounted
      <4>1. form \in Form
        BY <3>2 DEF FormOK
      <4>2. form' \in Form /\ form'.loaded = form.loaded /\ form'.data = form.data
            /\ form'.base = form.base /\ form'.known = form.known
        BY <3>1, <4>1 DEF Form
      <4> QED BY <3>2, <4>2 DEF FormOK
    <3>3. CASE ~form.mounted
      BY <3>1, <3>3 DEF FormOK
    <3> QED BY <3>2, <3>3
  <2>3. CASE ~Failed(s)
    <3> DEFINE newBase == IF sent.image THEN form.base ELSE sent
    <3>1. sent \in Fields
      BY <2>1, <2>3 DEF CallOK, Failed
    <3>2. form' = [form EXCEPT !.busy = FALSE, !.known = form.known \cup {sent}, !.base = newBase]
      BY <1>6, <2>3 DEF Submitted
    <3> HIDE DEF sent
    <3>3. CASE form.mounted
      <4>1. form \in Form
        BY <3>3 DEF FormOK
      <4>2. newBase \in {Nothing} \cup Fields
        BY <3>1, <4>1 DEF Form
      <4>3. form.loaded => newBase \in form.known \cup {sent}
        BY <3>3 DEF FormOK
      <4>4. form.known \cup {sent} \in SUBSET Fields
        BY <3>1, <4>1 DEF Form
      <4> HIDE DEF newBase
      <4>5. form' \in Form /\ form'.loaded = form.loaded /\ form'.data = form.data
            /\ form'.base = newBase /\ form'.known = form.known \cup {sent}
        BY <3>2, <4>1, <4>2, <4>4 DEF Form
      <4> QED BY <3>3, <4>3, <4>5 DEF FormOK
    <3>4. CASE ~form.mounted
      BY <3>2, <3>4 DEF FormOK
    <3> QED BY <3>3, <3>4
  <2> QED BY <2>2, <2>3
<1>7. ASSUME Ready, form' = [form EXCEPT !.unlocked = TRUE] \/ form' = [form EXCEPT !.busy = TRUE]
      PROVE  FormOK'
  <2>1. form \in Form
    BY <1>7 DEF FormOK, Ready
  <2>2. form' \in Form /\ form'.loaded = form.loaded /\ form'.data = form.data
        /\ form'.base = form.base /\ form'.known = form.known
    BY <1>7, <2>1 DEF Form
  <2> QED BY <1>7, <2>2 DEF FormOK, Ready
<1>8. ASSUME \/ ChooseImage
             \/ \E p \in Provinces \cup {0} : ChooseProvince(p) \/ ChooseCounty(p) \/ ChooseCity(p)
             \/ \E k \in Clubs \cup {""} : ChooseClub(k)
             \/ \E c \in Coaches \cup {""} : ChooseCoach(c)
             \/ \E title \in {"isCoach", "isReferee", "kyorogi"} : ChooseTitle(title)
             \/ \E grade \in {"coachGrade", "kyorogiGrade"}, g \in {"", "set"} : ChooseGrade(grade, g)
      PROVE  FormOK'
  <2>1. ASSUME Ready PROVE form.data \in Fields
    BY <2>1 DEF FormOK, Ready
  <2>2. CASE ChooseImage
    BY <2>1, <2>2, ChoicesOK, EnterOK DEF ChooseImage
  <2>3. ASSUME NEW p \in Provinces \cup {0}, ChooseProvince(p) PROVE FormOK'
    BY <2>1, <2>3, ChoicesOK, EnterOK DEF ChooseProvince, Provinces
  <2>4. ASSUME NEW p \in Provinces \cup {0}, ChooseCounty(p) PROVE FormOK'
    BY <2>1, <2>4, ChoicesOK, EnterOK DEF ChooseCounty
  <2>5. ASSUME NEW p \in Provinces \cup {0}, ChooseCity(p) PROVE FormOK'
    BY <2>1, <2>5, ChoicesOK, EnterOK DEF ChooseCity
  <2>6. ASSUME NEW k \in Clubs \cup {""}, ChooseClub(k) PROVE FormOK'
    BY <2>1, <2>6, ChoicesOK, EnterOK DEF ChooseClub
  <2>7. ASSUME NEW c \in Coaches \cup {""}, ChooseCoach(c) PROVE FormOK'
    BY <2>1, <2>7, ChoicesOK, EnterOK DEF ChooseCoach
  <2>8. ASSUME NEW title \in {"isCoach", "isReferee", "kyorogi"}, ChooseTitle(title) PROVE FormOK'
    BY <2>1, <2>8, ChoicesOK, EnterOK DEF ChooseTitle
  <2>9. ASSUME NEW grade \in {"coachGrade", "kyorogiGrade"}, NEW g \in {"", "set"}, ChooseGrade(grade, g)
        PROVE  FormOK'
    BY <2>1, <2>9, ChoicesOK, EnterOK DEF ChooseGrade
  <2> QED BY <1>8, <2>2, <2>3, <2>4, <2>5, <2>6, <2>7, <2>8, <2>9
<1>9. CASE Browser
  <2>1. ASSUME NEW s \in Slots, Loaded(s) PROVE FormOK'
    BY <1>3, <1>4, <2>1 DEF Loaded
  <2>2. CASE Confirm \/ UnlockClub
    BY <1>7, <2>2 DEF Confirm, UnlockClub
  <2>3. CASE Unmount
    BY <1>3, <2>3 DEF Unmount
  <2> QED BY <1>2, <1>5, <1>6, <1>8, <1>9, <2>1, <2>2, <2>3 DEF Browser
<1>10. CASE Server
  BY <1>1, <1>10 DEF Server, HandleProfile, HandleCoaches, StoreEdit, RefuseOwnCoach, FinishEdit,
     Fail, formVars
<1>11. CASE Approvals
  BY <1>1, <1>11 DEF Approvals, BeginFormApproval, SaveForm, DeleteForm, ApprovalCut
<1> QED BY <1>1, <1>9, <1>10, <1>11 DEF FormNext, allVars, formVars

-----------------------------------------------------------------------------
\* Each step leaves the profile, the edit and what approvals have read sound.
LEMMA RowsStep ==
    ASSUME FormTyped, [FormNext]_allVars, ApprovalsMatch
    PROVE  RowsOK'
<1> USE DEF FormTyped
<1>1. CASE UNCHANGED <<profile, edit, acked, reading>>
  BY <1>1 DEF RowsOK
<1>2. ASSUME NEW s \in Slots, StoreEdit(s) PROVE RowsOK'
  <2>1. calls[s].data \in Fields /\ Valid(calls[s].data)
    BY <1>2 DEF CallsOK, CallOK, StoreEdit, Waiting
  <2>2. Content(calls[s].data) \in SoundFields
    BY <2>1, ContentIsSound DEF RowsOK
  <2> QED BY <1>2, <2>2 DEF StoreEdit, RowsOK
<1>3. ASSUME NEW s \in Slots, FinishEdit(s) PROVE RowsOK'
  <2>1. calls[s].data.stored \in SoundFields
    BY <1>3 DEF CallsOK, CallOK, FinishEdit, Handling, Kept
  <2> QED BY <1>3, <2>1 DEF FinishEdit, RowsOK
<1>4. ASSUME NEW a \in Staff, NEW list \in BOOLEAN, BeginFormApproval(a, list), followed # NULL PROVE RowsOK'
  <2>1. edit \in SoundFields
    BY <1>4 DEF BeginFormApproval, BeginApproval, ApprovalsMatch, RowsOK
  <2> DEFINE new == [list |-> list, old |-> profile, edit |-> edit]
  <2>2. new \in Reading
    BY <2>1 DEF Reading, RowsOK
  <2>3. reading' = [reading EXCEPT ![a] = new]
    BY <1>4 DEF BeginFormApproval
  <2> HIDE DEF new
  <2> QED BY <1>4, <2>2, <2>3 DEF BeginFormApproval, RowsOK
<1>5. ASSUME NEW a \in Staff, SaveForm(a), followed # NULL PROVE RowsOK'
  <2>1. reading[a] \in Reading
    BY <1>5 DEF SaveForm, SaveProfile, ApprovalsMatch, RowsOK
  <2>2. Applied(reading[a]) \in SoundFields
    BY <2>1, AppliedIsSound
  <2> QED BY <1>5, <2>2 DEF SaveForm, RowsOK
<1>6. ASSUME NEW a \in Staff, DeleteForm(a) \/ ApprovalCut(a) PROVE RowsOK'
  BY <1>6 DEF DeleteForm, ApprovalCut, RowsOK
<1>7. CASE Server
  BY <1>1, <1>2, <1>3, <1>7 DEF Server, HandleProfile, HandleCoaches, RefuseOwnCoach, Fail, formVars
<1>8. CASE Approvals /\ followed # NULL
  BY <1>4, <1>5, <1>6, <1>8 DEF Approvals
<1>9. CASE Browser
  BY <1>1, <1>9 DEF Browser
<1> QED BY <1>1, <1>7, <1>8, <1>9 DEF FormNext, allVars, formVars

-----------------------------------------------------------------------------
\* Each step leaves approvals and edits those of the member followed.
LEMMA MatchStep ==
    ASSUME EditsTyped, FormTyped, ApprovalsMatch, [FormNext]_allVars
    PROVE  ApprovalsMatch'
<1> SUFFICES ASSUME followed # NULL, followed' = followed
             PROVE  ApprovalsMatch'
  BY DEF ApprovalsMatch, FormNext, allVars
<1>0. /\ pendingEdits \subseteq {followed}
      /\ followed \in pendingEdits => edit # Nothing
      /\ \A a \in Staff : approving[a] # NULL => approving[a].profile = followed /\ reading[a] # Nothing
      /\ approving \in [Staff -> KnownApprovals] /\ reading \in [Staff -> {Nothing} \cup Reading]
  BY DEF ApprovalsMatch, EditsTyped, FormTyped, RowsOK
<1>1. CASE UNCHANGED <<pendingEdits, approving, edit, reading>>
  BY <1>0, <1>1 DEF ApprovalsMatch
<1>2. ASSUME NEW s \in Slots, StoreEdit(s) \/ FinishEdit(s) PROVE ApprovalsMatch'
  <2>1. edit' # Nothing
    <3>1. calls[s].data.stored \in SoundFields \/ StoreEdit(s)
      BY <1>2 DEF FormTyped, CallsOK, CallOK, FinishEdit, Handling, Kept
    <3>2. CASE StoreEdit(s)
      <4>1. calls[s].data \in Fields /\ Valid(calls[s].data)
        BY <3>2 DEF FormTyped, CallsOK, CallOK, StoreEdit, Waiting
      <4> QED BY <3>2, <4>1, ContentIsSound, NoFields DEF StoreEdit, FormTyped, RowsOK, SoundFields
    <3>3. CASE FinishEdit(s)
      <4>1. calls[s].data.stored \in SoundFields
        BY <3>3 DEF FormTyped, CallsOK, CallOK, FinishEdit, Handling, Kept
      <4> QED BY <3>3, <4>1, NoFields DEF FinishEdit, SoundFields
    <3> QED BY <1>2, <3>2, <3>3
  <2>2. pendingEdits' \subseteq {followed} /\ UNCHANGED <<approving, reading>>
    BY <1>0, <1>2 DEF StoreEdit, FinishEdit, SubmitEdit
  <2> QED BY <1>0, <2>1, <2>2 DEF ApprovalsMatch
<1>3. ASSUME NEW a \in Staff, NEW list \in BOOLEAN, BeginFormApproval(a, list) PROVE ApprovalsMatch'
  <2> DEFINE app == [profile |-> followed, scores |-> ScoreColumns(followed),
                     counters |-> MedalColumns(followed), saved |-> FALSE]
             new == [list |-> list, old |-> profile, edit |-> edit]
  <2>1. approving' = [approving EXCEPT ![a] = app] /\ reading' = [reading EXCEPT ![a] = new]
        /\ UNCHANGED <<pendingEdits, edit>> /\ approving[a] = NULL /\ followed \in pendingEdits
    BY <1>3 DEF BeginFormApproval, BeginApproval
  <2>2. new \in Reading
    BY <1>0, <2>1 DEF Reading, FormTyped, RowsOK
  <2>3. new # Nothing /\ app.profile = followed
    BY <2>2, NoFields
  <2> HIDE DEF app, new
  <2> QED BY <1>0, <2>1, <2>3 DEF ApprovalsMatch
<1>4. ASSUME NEW a \in Staff, SaveForm(a) PROVE ApprovalsMatch'
  <2>1. PICK p \in Profiles : approving[a] \in ApprovalOn(p)
    BY <1>0, <1>4 DEF SaveForm, SaveProfile, KnownApprovals
  <2> DEFINE new == [approving[a] EXCEPT !.saved = TRUE]
  <2>2. approving' = [approving EXCEPT ![a] = new]
    BY <1>4, Zenon DEF SaveForm, SaveProfile
  <2>3. new.profile = approving[a].profile
    BY <2>1 DEF ApprovalOn
  <2>4. approving[a] # NULL /\ UNCHANGED <<pendingEdits, edit, reading>>
    BY <1>4 DEF SaveForm, SaveProfile
  <2> HIDE DEF new
  <2> QED BY <1>0, <2>2, <2>3, <2>4 DEF ApprovalsMatch
<1>5. ASSUME NEW a \in Staff, DeleteForm(a) PROVE ApprovalsMatch'
  <2>1. /\ approving' = [approving EXCEPT ![a] = NULL] /\ reading' = [reading EXCEPT ![a] = Nothing]
        /\ pendingEdits' = pendingEdits \ {followed}
    BY <1>0, <1>5 DEF DeleteForm, DeleteEdit
  <2> QED BY <1>0, <2>1 DEF ApprovalsMatch
<1>6. ASSUME NEW a \in Staff, ApprovalCut(a) PROVE ApprovalsMatch'
  <2>1. /\ approving' = [approving EXCEPT ![a] = NULL] /\ reading' = [reading EXCEPT ![a] = Nothing]
        /\ UNCHANGED <<pendingEdits, edit>>
    BY <1>6 DEF ApprovalCut, ApprovalDies
  <2> QED BY <1>0, <2>1 DEF ApprovalsMatch
<1>7. CASE Server
  BY <1>1, <1>2, <1>7 DEF Server, HandleProfile, HandleCoaches, RefuseOwnCoach, Fail, vars, editVars, formVars
<1>8. CASE Approvals
  BY <1>3, <1>4, <1>5, <1>6, <1>8 DEF Approvals
<1>9. CASE Browser
  BY <1>1, <1>9 DEF Browser, vars, editVars
<1>10. CASE UNCHANGED allVars
  BY <1>1, <1>10 DEF allVars, vars, editVars, formVars
<1> QED BY <1>7, <1>8, <1>9, <1>10 DEF FormNext

-----------------------------------------------------------------------------
\* An acknowledged edit waits or is in the profile; every approval under way has
\* read it, and one that has written the profile has put it there.
AckedIsKept ==
    acked # Nothing =>
        /\ followed # NULL
        /\ edit = acked \/ (edit = Nothing /\ Carries(acked))
        /\ \A a \in Staff : reading[a] # Nothing =>
             reading[a].edit = acked /\ (approving[a].saved => Carries(acked))

\* Each step keeps the acknowledged edit.
LEMMA AckedStep ==
    ASSUME EditsTyped, FormTyped, ApprovalsMatch, AckedIsKept, [FormNext]_allVars
    PROVE  AckedIsKept'
<1> SUFFICES ASSUME acked' # Nothing
             PROVE  AckedIsKept'
  BY DEF AckedIsKept
<1>f. followed' = followed
  BY DEF FormNext, allVars
<1>t. approving \in [Staff -> KnownApprovals] /\ reading \in [Staff -> {Nothing} \cup Reading]
  BY DEF EditsTyped, FormTyped, RowsOK
<1>c. ASSUME profile' = profile PROVE \A e : Carries(e)' = Carries(e)
  BY <1>c DEF Carries
<1>1. CASE UNCHANGED <<acked, edit, reading, profile>> /\ (followed # NULL => UNCHANGED approving)
  BY <1>1, <1>c, <1>f DEF AckedIsKept
<1>2. ASSUME NEW s \in Slots, StoreEdit(s) PROVE AckedIsKept'
  BY <1>2 DEF StoreEdit
<1>3. ASSUME NEW s \in Slots, FinishEdit(s), followed # NULL PROVE AckedIsKept'
  <2> DEFINE stored == calls[s].data.stored
  <2>1. /\ acked' = stored /\ edit' = stored /\ reading' = reading /\ approving' = approving
        /\ \A a \in Staff : reading[a] # Nothing => reading[a].edit = stored /\ ~approving[a].saved
    BY <1>3 DEF FinishEdit, SubmitEdit
  <2> HIDE DEF stored
  <2> QED BY <1>3, <1>f, <2>1 DEF AckedIsKept
<1>4. ASSUME NEW a \in Staff, NEW list \in BOOLEAN, BeginFormApproval(a, list), followed # NULL
      PROVE  AckedIsKept'
  <2> DEFINE app == [profile |-> followed, scores |-> ScoreColumns(followed),
                     counters |-> MedalColumns(followed), saved |-> FALSE]
             new == [list |-> list, old |-> profile, edit |-> edit]
  <2>1. approving' = [approving EXCEPT ![a] = app] /\ reading' = [reading EXCEPT ![a] = new]
        /\ UNCHANGED <<pendingEdits, edit, profile, acked>> /\ followed \in pendingEdits
    BY <1>4 DEF BeginFormApproval, BeginApproval
  <2>2. app.saved = FALSE /\ new.edit = edit
    OBVIOUS
  <2>3. edit # Nothing
    BY <1>4, <2>1 DEF ApprovalsMatch
  <2> HIDE DEF app, new
  <2> QED BY <1>4, <1>c, <1>f, <1>t, <2>1, <2>2, <2>3 DEF AckedIsKept
<1>5. ASSUME NEW a \in Staff, SaveForm(a), followed # NULL PROVE AckedIsKept'
  <2>1. reading[a] \in Reading /\ acked' = acked /\ profile' = Applied(reading[a])
        /\ UNCHANGED <<edit, reading>>
    BY <1>5, <1>t DEF SaveForm, SaveProfile, ApprovalsMatch
  <2>2. PICK r \in Reading : r = reading[a]
    BY <2>1
  <2>3. r.edit = acked
    BY <2>1, <2>2, NoFields DEF AckedIsKept
  <2>4. Carries(r.edit)'
    BY <2>1, <2>2, AppliedIsCarried
  <2>5. acked' = r.edit
    BY <2>1, <2>3
  <2>6. Carries(acked)'
    BY <2>4, <2>5 DEF Carries
  <2> QED BY <1>5, <1>f, <2>1, <2>6 DEF AckedIsKept
<1>6. ASSUME NEW a \in Staff, DeleteForm(a), followed # NULL PROVE AckedIsKept'
  <2>1. /\ reading' = [reading EXCEPT ![a] = Nothing] /\ approving' = [approving EXCEPT ![a] = NULL]
        /\ edit' = Nothing /\ UNCHANGED <<profile, acked>>
        /\ approving[a] # NULL /\ approving[a].saved
    BY <1>6 DEF DeleteForm, DeleteEdit
  <2>2. Carries(acked)
    BY <1>6, <2>1 DEF AckedIsKept, ApprovalsMatch
  <2> QED BY <1>6, <1>c, <1>f, <1>t, <2>1, <2>2 DEF AckedIsKept
<1>7. ASSUME NEW a \in Staff, ApprovalCut(a) PROVE AckedIsKept'
  <2>1. /\ reading' = [reading EXCEPT ![a] = Nothing] /\ approving' = [approving EXCEPT ![a] = NULL]
        /\ UNCHANGED <<profile, acked, edit>>
    BY <1>7 DEF ApprovalCut, ApprovalDies
  <2> QED BY <1>c, <1>f, <1>t, <2>1 DEF AckedIsKept
<1>8. CASE Server /\ followed # NULL
  BY <1>1, <1>2, <1>3, <1>8 DEF Server, HandleProfile, HandleCoaches, RefuseOwnCoach, Fail, vars, editVars, formVars
<1>9. CASE Approvals /\ followed # NULL
  BY <1>4, <1>5, <1>6, <1>7, <1>9 DEF Approvals
<1>10. CASE Browser
  BY <1>1, <1>10 DEF Browser, vars, editVars
<1>11. CASE UNCHANGED allVars
  BY <1>1, <1>11 DEF allVars, vars, editVars, formVars
<1> QED BY <1>1, <1>8, <1>9, <1>10, <1>11 DEF FormNext, formVars

\* The inductive invariant of the form, the edit row and the approvals.
FormInv == FormTyped /\ ApprovalsMatch /\ AckedIsKept

\* The invariant of the form holds at first.
LEMMA FormStart == FormInit => FormInv
<1> SUFFICES ASSUME FormInit PROVE FormInv
  OBVIOUS
<1>1. CallsOK
  BY NoCallOK DEF FormInit, NoCalls, CallsOK
<1>2. FormOK
  BY DEF FormInit, FormOK, NoForm
<1>3. RowsOK
  <2>1. PICK club \in IF followed = NULL THEN {NULL} ELSE Clubs \cup {NULL} :
          profile = [place |-> <<1, 1, 1>>, club |-> club, coach |-> NULL,
                   isCoach |-> followed \in Coaches,
                   coachGrade |-> IF followed \in Coaches THEN "set" ELSE "null",
                   isReferee |-> FALSE, kyorogi |-> FALSE, kyorogiGrade |-> "null",
                   image |-> FALSE]
    BY DEF FormInit
  <2>2. <<1, 1, 1>> \in PlacesChosen /\ Complete(<<1, 1, 1>>)
    BY DEF PlacesChosen, Complete
  <2>3. club \in Names
    BY DEF Names
  <2> DEFINE grade == IF followed \in Coaches THEN "set" ELSE "null"
  <2>7. grade \in Grades /\ (followed \in Coaches) \in BOOLEAN
    BY DEF Grades
  <2> HIDE DEF grade
  <2>4. profile \in Fields
    BY <2>1, <2>2, <2>3, <2>7 DEF Fields, Names, Grades, grade
  <2>5. /\ profile.place = <<1, 1, 1>>
        /\ profile.kyorogi = FALSE
        /\ profile.isCoach = (followed \in Coaches)
        /\ profile.coachGrade = IF followed \in Coaches THEN "set" ELSE "null"
    BY <2>1
  <2>6. profile \in SoundFields
    BY <2>2, <2>4, <2>5 DEF SoundFields
  <2> QED BY <2>6 DEF FormInit, RowsOK
<1>4. ApprovalsMatch
  BY DEF FormInit, Init, ApprovalsMatch
<1>5. AckedIsKept
  BY DEF FormInit, AckedIsKept
<1> QED BY <1>1, <1>2, <1>3, <1>4, <1>5 DEF FormInv, FormTyped

\* In every reachable state of the form requests carry what they should, every
\* content on its way is sound, and approvals under way have read the edit
\* that was acknowledged.
THEOREM FormInductive == FormSpec => []FormInv
<1>1. FormInit => FormInv
  BY FormStart
<1>2. EditsInv /\ FormInv /\ [FormNext]_allVars => FormInv'
  BY CallsStep, FormStep, RowsStep, MatchStep, AckedStep DEF FormInv, FormTyped, EditsInv
<1>3. FormSpec => []EditsInv
  BY EditsInductive, FormImplementsEdits, PTL
<1> QED BY <1>1, <1>2, <1>3, PTL DEF FormSpec

\* The edit a member was told is registered waits for approval or is in the
\* profile, for any number of staff, approvals and submissions.
THEOREM AcknowledgedStays == FormSpec => []AcknowledgedEditIsKept
<1>1. FormInv => AcknowledgedEditIsKept
  BY DEF FormInv, AckedIsKept, AcknowledgedEditIsKept
<1> QED BY <1>1, FormInductive, PTL

\* A form with nothing to submit shows what the server had, as loaded or as
\* acknowledged (PersonalInfoForm compares with what it last sent).
THEOREM NothingHidden == FormSpec => []NothingLooksSubmitted
<1>1. FormInv => NothingLooksSubmitted
  BY DEF FormInv, FormTyped, FormOK, NothingLooksSubmitted, Changed
<1> QED BY <1>1, FormInductive, PTL

\* However edits, approvals and crashes overlap, the profile has one city in
\* its county and province, and the grades of its titles.
THEOREM ProfileStaysSound == FormSpec => []ProfileIsSound
<1>1. FormInv => ProfileIsSound
  <2> SUFFICES ASSUME FormInv PROVE ProfileIsSound
    OBVIOUS
  <2>1. profile \in SoundFields /\ profile \in Fields
    BY DEF FormInv, FormTyped, RowsOK, SoundFields
  <2>2. profile.place \in PlacesChosen /\ Complete(profile.place)
    BY <2>1 DEF Fields, SoundFields
  <2>3. \A q \in PlacesChosen : Complete(q) => q \in {<<1, 1, 1>>, <<2, 2, 2>>}
    BY DEF PlacesChosen, Complete
  <2> QED BY <2>1, <2>2, <2>3 DEF ProfileIsSound, SoundFields, Provinces
<1> QED BY <1>1, FormInductive, PTL
=============================================================================
