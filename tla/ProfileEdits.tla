---------------------------- MODULE ProfileEdits ----------------------------
(***************************************************************************)
(* Members edit their profile and staff approve the edit, while results    *)
(* are announced.  The approval is not a transaction: it reads the whole   *)
(* profile, later writes every column of it back, and then deletes the     *)
(* edit.  Points and medals live in columns of that same row, so what was  *)
(* announced in between is lost.                                           *)
(*                                                                         *)
(* What the edit says is left out here: ProfileForm adds it.               *)
(***************************************************************************)
EXTENDS KyorugiResults

CONSTANTS
    Staff,
    MaxApprovals    \* bound on the approvals begun

ASSUME EditsAssumption == MaxApprovals \in Nat

VARIABLES
    pendingEdits,  \* profiles with a PendingEditProfile row
    approving,     \* per member of staff, the approval under way, or NULL
    approvals,     \* approvals begun
    overwritten    \* profiles whose newer points an approval undid (not in the code)

editVars == <<pendingEdits, approving, approvals, overwritten>>
vars == <<resultVars, editVars>>

Profiles == Players \cup Coaches
ColumnsOf(p) == {s \in Subjects : s[1] \in {"player", "coach"} /\ s[2] = p}

\* The columns of a profile that results change.
ScoreColumns(p) == [s \in ColumnsOf(p) |-> score[s]]
MedalColumns(p) == [s \in ColumnsOf(p) \cap MedalHolders |-> medals[s]]

Init ==
    /\ ResultsInit
    /\ pendingEdits = {}
    /\ approving = [a \in Staff |-> NULL]
    /\ approvals = 0
    /\ overwritten = {}

\* A second submission replaces the first.
SubmitEdit(p) ==
    /\ pendingEdits' = pendingEdits \cup {p}
    /\ UNCHANGED <<resultVars, approving, approvals, overwritten>>

\* The handler loads the edit and the profile.
BeginApproval(a, p) ==
    /\ approving[a] = NULL /\ p \in pendingEdits /\ approvals < MaxApprovals
    /\ approving' = [approving EXCEPT ![a] =
         [profile |-> p, scores |-> ScoreColumns(p), counters |-> MedalColumns(p), saved |-> FALSE]]
    /\ approvals' = approvals + 1
    /\ UNCHANGED <<resultVars, pendingEdits, overwritten>>

\* user.save() writes every column with the values loaded.
SaveProfile(a) ==
    LET edit == approving[a] IN
    /\ edit # NULL /\ ~edit.saved
    /\ score' = [s \in Subjects |-> IF s \in DOMAIN edit.scores THEN edit.scores[s] ELSE score[s]]
    /\ medals' = [s \in MedalHolders |->
                    IF s \in DOMAIN edit.counters THEN edit.counters[s] ELSE medals[s]]
    /\ approving' = [approving EXCEPT ![a].saved = TRUE]
    /\ overwritten' = IF score' = score /\ medals' = medals THEN overwritten
                      ELSE overwritten \cup {edit.profile}
    /\ UNCHANGED <<removed, podium, transactions, medal, pendingEdits, approvals>>

\* Mutation: the edit may be deleted before the profile is saved.
DeleteEditEarly(a) ==
    /\ approving[a] # NULL
    /\ pendingEdits' = pendingEdits \ {approving[a].profile}
    /\ approving' = [approving EXCEPT ![a] = NULL]
    /\ UNCHANGED <<resultVars, approvals, overwritten>>

\* pending.delete(), whether or not somebody else deleted it before.
DeleteEdit(a) ==
    /\ approving[a] # NULL /\ approving[a].saved
    /\ pendingEdits' = pendingEdits \ {approving[a].profile}
    /\ approving' = [approving EXCEPT ![a] = NULL]
    /\ UNCHANGED <<resultVars, approvals, overwritten>>

\* The process dies in the middle of an approval.
ApprovalDies(a) ==
    /\ approving[a] # NULL
    /\ approving' = [approving EXCEPT ![a] = NULL]
    /\ UNCHANGED <<resultVars, pendingEdits, approvals, overwritten>>

Next ==
    \/ ResultsNext /\ UNCHANGED editVars
    \/ \E p \in Profiles : SubmitEdit(p)
    \/ \E a \in Staff, p \in Profiles : BeginApproval(a, p)
    \/ \E a \in Staff : SaveProfile(a) \/ DeleteEdit(a) \/ ApprovalDies(a)

Spec == Init /\ [][Next]_vars

-----------------------------------------------------------------------------
(* Properties                                                              *)

IsApproval(edit) ==
    /\ DOMAIN edit = {"profile", "scores", "counters", "saved"}
    /\ edit.profile \in Profiles
    /\ edit.scores \in [ColumnsOf(edit.profile) -> Int]
    /\ edit.counters \in [ColumnsOf(edit.profile) \cap MedalHolders -> [Medals -> Nat]]
    /\ edit.saved \in BOOLEAN

\* The medal counters never go below zero, which the column type forbids
\* (PositiveIntegerField): an approval may have put back a lower count than
\* the announcement that is taken back had made.
TypeOK ==
    /\ removed \subseteq Subjects
    /\ podium \in [Results -> [Places -> Enrollments \cup {NULL}]]
    /\ transactions \in [Results -> SUBSET (Places \X Subjects)]
    /\ score \in [Subjects -> Int]
    /\ medals \in [MedalHolders -> [Medals -> Nat]]
    /\ medal \in [Enrollments -> Medals \cup {""}]
    /\ pendingEdits \subseteq Profiles
    /\ \A a \in Staff : approving[a] = NULL \/ IsApproval(approving[a])
    /\ approvals \in 0..MaxApprovals
    /\ overwritten \subseteq Profiles

\* What the podiums as they stand are worth to s, counted from scratch.
PlacesOf(s) ==
    {x \in Results \X Places : podium[x[1]][x[2]] # NULL
                               /\ Snapshot[podium[x[1]][x[2]]][s[1]] = s[2]}
DueMedals(s, m) == Cardinality({x \in PlacesOf(s) : MedalOf(x[2]) = m})
Due(s) == Worth(s[1], [m \in Medals |-> DueMedals(s, m)])

Intact == {s \in Subjects \ removed : s[1] \in {"club", "board"} \/ s[2] \notin overwritten}

\* However often and in whatever order podiums were announced and corrected,
\* the standings are what the present podiums alone would give, for every
\* account that exists and whose row no approval overwrote.
StandingsFollowPodiums ==
    \A s \in Intact :
        /\ score[s] = Due(s)
        /\ s \in MedalHolders => \A m \in Medals : medals[s][m] = DueMedals(s, m)

\* An error in the scores is only made by an approval that writes an old row:
\* announcing again neither repairs it nor makes it worse.
DriftOnlyByApproval ==
    [][\A s \in Subjects \ removed' :
         score'[s] - Due(s)' # score[s] - Due(s)
         => \E a \in Staff : SaveProfile(a) /\ approving[a].profile = s[2]]_vars
=============================================================================
