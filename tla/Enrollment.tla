----------------------------- MODULE Enrollment -----------------------------
(***************************************************************************)
(* Registration for one Kyorugi competition and the participation points   *)
(* that a paid registration earns.                                         *)
(*                                                                         *)
(* A registration request runs in one database transaction                 *)
(* (@transaction.atomic), so it is one action here.  The points are given  *)
(* by an on_commit callback that the post_save signal leaves behind: it    *)
(* runs after the commit, one autocommitted statement at a time, and is    *)
(* one action per statement.  Two workers therefore interleave between     *)
(* those statements, and a worker that dies forgets its callbacks.         *)
(*                                                                         *)
(* Points are counted in quarters: 1.0 is 4, 0.75 is 3 and 0.5 is 2.       *)
(***************************************************************************)
EXTENDS Integers, Sequences, FiniteSets, FiniteSetsExt

CONSTANTS
    Players, Coaches, Clubs, Boards,  \* accounts that can earn points
    NULL,                             \* a foreign key that is not set
    PlainPlayers,      \* the players whose role is exactly "player"
    ClubOf, BoardOf,   \* a player's club and board, or NULL
    ClubBoard,         \* the board a club belongs to, or NULL
    Workers,           \* server processes handling requests
    SimulatePaid,      \* values of simulate_paid: PAYMENTS_ENABLED is off, or the fee is zero
    MaxEnrollments, MaxItems, MaxPodium, MaxCrashes   \* bounds

Subjects == Players \cup Coaches \cup Clubs \cup Boards

ASSUME EnrollmentAssumption ==
    /\ NULL \notin Subjects
    /\ (Players \cup Coaches) \cap (Clubs \cup Boards) = {}
    /\ Clubs \cap Boards = {}
    /\ PlainPlayers \subseteq Players
    /\ ClubOf \in [Players -> Clubs \cup {NULL}]
    /\ BoardOf \in [Players -> Boards \cup {NULL}]
    /\ ClubBoard \in [Clubs -> Boards \cup {NULL}]
    /\ IsFiniteSet(Workers) /\ SimulatePaid \subseteq BOOLEAN
    /\ MaxEnrollments \in Nat /\ MaxItems \in Nat /\ MaxPodium \in 0..4 /\ MaxCrashes \in Nat

VARIABLES
    regOpen,          \* registration_open_effective of the competition
    inDates,          \* today lies within the competition's registration dates
    approved,         \* coaches with an active approval code, terms accepted
    enrollments,      \* the Enrollment table, in id order
    awards,           \* ids that have a RankingAward row
    hooks,            \* per worker, on_commit callbacks still to run
    stage,            \* per worker, next statement of its first callback
    rankCompetition,  \* players' ranking_competition
    rankTotal,        \* ranking_total of every account
    crashes

vars == <<regOpen, inDates, approved, enrollments, awards, hooks, stage,
          rankCompetition, rankTotal, crashes>>

Medals == <<"gold", "silver", "bronze", "bronze">>
Statuses == {"pending_payment", "paid"}
Refs == {"", "DEV-PAID", "TEST-COACH"}
Row == [player : Players, coach : Coaches, status : Statuses, is_paid : BOOLEAN,
        bank_ref_code : Refs, medal : {"", "gold", "silver", "bronze"}]
Stages == {"create", "player", "coach", "club", "board"}
Ids == DOMAIN enrollments

Enrolled == {enrollments[i].player : i \in Ids}
Paid == {i \in Ids : enrollments[i].is_paid}
Idle(w) == hooks[w] = <<>>

Init ==
    /\ regOpen = TRUE
    /\ inDates = TRUE
    /\ approved = {}
    /\ enrollments = <<>>
    /\ awards = {}
    /\ hooks = [w \in Workers |-> <<>>]
    /\ stage = [w \in Workers |-> "create"]
    /\ rankCompetition = [p \in Players |-> 0]
    /\ rankTotal = [s \in Subjects |-> 0]
    /\ crashes = 0

-----------------------------------------------------------------------------
(* Staff and coaches move the two facts registration depends on.           *)

\* Time passes, or staff set registration_manual, which overrides the dates.
SetRegistrationOpen ==
    /\ regOpen' \in BOOLEAN
    /\ inDates' \in BOOLEAN
    /\ UNCHANGED <<approved, enrollments, awards, hooks, stage, rankCompetition, rankTotal, crashes>>

ApproveTerms(c) ==
    /\ approved' = approved \cup {c}
    /\ UNCHANGED <<regOpen, inDates, enrollments, awards, hooks, stage, rankCompetition, rankTotal, crashes>>

DeleteApproval(c) ==
    /\ approved' = approved \ {c}
    /\ UNCHANGED <<regOpen, inDates, enrollments, awards, hooks, stage, rankCompetition, rankTotal, crashes>>

-----------------------------------------------------------------------------
(* A player registers with a coach's code.                                 *)

\* Mutation: the duplicate check is left to the caller.
SelfAdmissibleUnchecked(p, c) == inDates /\ p \in PlainPlayers /\ c \in approved

SelfAdmissible(p, c) ==
    /\ inDates
    /\ p \in PlainPlayers
    /\ p \notin Enrolled
    /\ c \in approved

SelfRow(p, c) ==
    [player |-> p, coach |-> c, status |-> "paid", is_paid |-> TRUE,
     bank_ref_code |-> "DEV-PAID", medal |-> ""]

\* Mutations: the callback captures the id of the row after its own; or only
\* the first save of a request leaves a callback.
QueueAwardsNextId(w, saved) ==
    hooks' = [hooks EXCEPT ![w] = [i \in DOMAIN saved |-> saved[i] + 1]]
QueueAwardsFirst(w, saved) ==
    hooks' = [hooks EXCEPT ![w] = IF saved = <<>> THEN <<>> ELSE <<Head(saved)>>]

\* The post_save signal queues the award of each saved row that is paid and
\* has no RankingAward yet.  The commit that saves the rows starts the queue.
QueueAwards(w, saved) == hooks' = [hooks EXCEPT ![w] = saved]

RegisterSelf(w, p, c) ==
    /\ Idle(w) /\ regOpen /\ SelfAdmissible(p, c)
    /\ Len(enrollments) < MaxEnrollments
    /\ enrollments' = Append(enrollments, SelfRow(p, c))
    /\ QueueAwards(w, <<Len(enrollments) + 1>>)
    /\ UNCHANGED <<regOpen, inDates, approved, awards, stage, rankCompetition, rankTotal, crashes>>

-----------------------------------------------------------------------------
(* A coach registers a list of students; mark_paid pays each of them when  *)
(* no gateway is in use or the fee, which staff may edit, is zero, and      *)
(* itself adds points for the first payment.                               *)

\* Mutation: mark_paid sets the status and forgets is_paid.
CoachRowUnpaid(p, c, simulated) ==
    [player |-> p, coach |-> c, status |-> "paid", is_paid |-> FALSE,
     bank_ref_code |-> "TEST-COACH", medal |-> ""]

CoachRow(p, c, simulated) ==
    [player |-> p, coach |-> c,
     status |-> IF simulated THEN "paid" ELSE "pending_payment",
     is_paid |-> simulated,
     bank_ref_code |-> IF simulated THEN "TEST-COACH" ELSE "", medal |-> ""]

Occurrences(new, S) == Cardinality({i \in DOMAIN new : new[i] \in S})

\* The players whose club or board s is.
MembersOf(s) == {p \in Players : s \in {ClubOf[p], BoardOf[p]}}

\* What mark_paid adds to the ranking_total of subject s when coach c's rows
\* for the players in new go from unpaid to paid.
MarkPaidTotal(new, c, s) ==
    4 * Occurrences(new, {s})
    + (IF s = c THEN 3 * Len(new) ELSE 0)
    + 2 * Occurrences(new, MembersOf(s))

\* The rows of the coach's list that are not skipped as already enrolled.  The
\* list names distinct players: the page builds it from one entry per student.
NewItems ==
    {new \in UNION {[1..n -> Players \ Enrolled] : n \in 1..MaxItems} :
        \A i, j \in DOMAIN new : new[i] = new[j] => i = j}

CoachRegister(w, c, new, simulated) ==
    LET n == Len(enrollments) IN
    /\ Idle(w) /\ regOpen
    /\ n + Len(new) <= MaxEnrollments
    /\ enrollments' = enrollments \o [i \in 1..Len(new) |-> CoachRow(new[i], c, simulated)]
    /\ IF simulated
       THEN /\ rankCompetition' =
                 [p \in Players |-> rankCompetition[p] + 4 * Occurrences(new, {p})]
            /\ rankTotal' =
                 [s \in Subjects |-> rankTotal[s] + MarkPaidTotal(new, c, s)]
            /\ QueueAwards(w, [i \in 1..Len(new) |-> n + i])
       ELSE UNCHANGED <<rankCompetition, rankTotal, hooks>>
    /\ UNCHANGED <<regOpen, inDates, approved, awards, stage, crashes>>

-----------------------------------------------------------------------------
(* The award callback.                                                     *)

\* Who is credited at each stage.  Every row has a coach; club and board are
\* the snapshots taken from the player, the board falling back to the club's.
Recipient(e, st) ==
    LET p == enrollments[e].player IN
    CASE st = "player" -> p
      [] st = "coach"  -> enrollments[e].coach
      [] st = "club"   -> ClubOf[p]
      [] st = "board"  -> IF BoardOf[p] = NULL /\ ClubOf[p] # NULL
                          THEN ClubBoard[ClubOf[p]] ELSE BoardOf[p]

Points(st) == CASE st = "player" -> 4 [] st = "coach" -> 3 [] OTHER -> 2

\* Mutation: the coach is skipped.
NextStageNoCoach(st) ==
    CASE st = "create" -> "player" [] st = "player" -> "club"
      [] st = "club" -> "board"    [] OTHER -> "create"

NextStage(st) ==
    CASE st = "create" -> "player" [] st = "player" -> "coach"
      [] st = "coach" -> "club"    [] st = "club" -> "board" [] OTHER -> "create"

\* Mutation: get_or_create in place of create, so that the loser goes on too.
AwardGetOrCreate(w) ==
    /\ ~Idle(w) /\ stage[w] = "create"
    /\ awards' = awards \cup {Head(hooks[w])}
    /\ stage' = [stage EXCEPT ![w] = "player"]
    /\ UNCHANGED <<regOpen, inDates, approved, enrollments, hooks, rankCompetition, rankTotal, crashes>>

\* INSERT of the RankingAward row.  The "already awarded" test before it was
\* answered, and cached, when the signal ran.
AwardCreate(w) ==
    /\ ~Idle(w) /\ stage[w] = "create"
    /\ Head(hooks[w]) \notin awards
    /\ awards' = awards \cup {Head(hooks[w])}
    /\ stage' = [stage EXCEPT ![w] = "player"]
    /\ UNCHANGED <<regOpen, inDates, approved, enrollments, hooks, rankCompetition, rankTotal, crashes>>

\* The row exists: the one-to-one key raises IntegrityError, which leaves the
\* loop over the callbacks and with it every callback still queued.
AwardRefused(w) ==
    /\ ~Idle(w) /\ stage[w] = "create"
    /\ Head(hooks[w]) \in awards
    /\ hooks' = [hooks EXCEPT ![w] = <<>>]
    /\ UNCHANGED <<regOpen, inDates, approved, enrollments, awards, stage, rankCompetition, rankTotal, crashes>>

\* One UPDATE ... F(...) + points: the player's ranking_competition, then the
\* ranking_total of the coach, the club and the board that are set.
AwardCredit(w) ==
    LET s == Recipient(Head(hooks[w]), stage[w]) IN
    /\ ~Idle(w) /\ stage[w] # "create"
    /\ IF stage[w] = "player"
       THEN /\ rankCompetition' = [rankCompetition EXCEPT ![s] = @ + Points("player")]
            /\ UNCHANGED rankTotal
       ELSE /\ rankTotal' = IF s = NULL THEN rankTotal
                            ELSE [rankTotal EXCEPT ![s] = @ + Points(stage[w])]
            /\ UNCHANGED rankCompetition
    /\ stage' = [stage EXCEPT ![w] = NextStage(stage[w])]
    /\ hooks' = IF stage[w] = "board" THEN [hooks EXCEPT ![w] = Tail(@)] ELSE hooks
    /\ UNCHANGED <<regOpen, inDates, approved, enrollments, awards, crashes>>

\* The process dies after the commit: callbacks live in memory only.
Crash(w) ==
    /\ ~Idle(w) /\ crashes < MaxCrashes
    /\ hooks' = [hooks EXCEPT ![w] = <<>>]
    /\ stage' = [stage EXCEPT ![w] = "create"]
    /\ crashes' = crashes + 1
    /\ UNCHANGED <<regOpen, inDates, approved, enrollments, awards, rankCompetition, rankTotal>>

-----------------------------------------------------------------------------
(* The results service saves the medal on the enrollments of the podium,   *)
(* and each such save fires the same signal.                               *)

Podiums ==
    {pod \in UNION {[1..n -> Ids] : n \in 1..MaxPodium} :
        \A i, j \in DOMAIN pod : pod[i] = pod[j] => i = j}

\* q lists some of pod's entries, in pod's order.
InOrder(q, pod) ==
    \A i, j \in DOMAIN q, a, b \in DOMAIN pod :
        q[i] = pod[a] /\ q[j] = pod[b] /\ i < j => a < b

SaveMedals(w, pod) ==
    LET Changed(e) == \E i \in DOMAIN pod : pod[i] = e /\ enrollments[e].medal # Medals[i] IN
    /\ Idle(w)
    /\ \E i \in DOMAIN pod : Changed(pod[i])
    /\ enrollments' = [e \in Ids |->
         IF Changed(e)
         THEN [enrollments[e] EXCEPT !.medal = Medals[CHOOSE i \in DOMAIN pod : pod[i] = e]]
         ELSE enrollments[e]]
    /\ \E q \in Podiums \cup {<<>>} :
         /\ Range(q) = {e \in Paid \ awards : Changed(e)}
         /\ InOrder(q, pod)
         /\ QueueAwards(w, q)
    /\ UNCHANGED <<regOpen, inDates, approved, awards, stage, rankCompetition, rankTotal, crashes>>

-----------------------------------------------------------------------------
Deliver(w) == AwardCreate(w) \/ AwardRefused(w) \/ AwardCredit(w)

Next ==
    \/ SetRegistrationOpen
    \/ \E c \in Coaches : ApproveTerms(c) \/ DeleteApproval(c)
    \/ \E w \in Workers, c \in Coaches :
         \/ \E p \in Players : RegisterSelf(w, p, c)
         \/ \E new \in NewItems, simulated \in SimulatePaid :
              CoachRegister(w, c, new, simulated)
    \/ \E w \in Workers : Deliver(w) \/ Crash(w)
    \/ \E w \in Workers, pod \in Podiums : SaveMedals(w, pod)

Spec == Init /\ [][Next]_vars

\* A live worker runs the callbacks of the request it has just committed.
Fairness == \A w \in Workers : WF_vars(Deliver(w))
FairSpec == Spec /\ Fairness

-----------------------------------------------------------------------------
(* Properties                                                              *)

TypeOK ==
    /\ regOpen \in BOOLEAN /\ inDates \in BOOLEAN
    /\ approved \subseteq Coaches
    /\ enrollments \in Seq(Row)
    /\ awards \subseteq Ids
    /\ hooks \in [Workers -> Seq(Ids)]
    /\ stage \in [Workers -> Stages]
    /\ rankCompetition \in [Players -> Nat]
    /\ rankTotal \in [Subjects -> Nat]
    /\ crashes \in 0..MaxCrashes

Crediting(w) == ~Idle(w) /\ stage[w] # "create"

\* A player holds one enrollment in a competition, however the player's own
\* request and the requests of several coaches interleave: the checks at
\* views.py 583-594 and 1204-1208 read inside the inserting transaction.
OneEnrollmentPerPlayer ==
    \A i, j \in Ids : enrollments[i].player = enrollments[j].player => i = j

\* The award row is the licence to credit: a worker past the INSERT credits a
\* paid enrollment whose row exists, and no other worker credits that one.
\* The one-to-one key is what keeps two queued callbacks apart, since the
\* hasattr test of the second was cached before the first inserted its row.
CreditNeedsAward ==
    /\ awards \subseteq Paid
    /\ \A w \in Workers : Crediting(w) => Head(hooks[w]) \in awards
    /\ \A v, w \in Workers :
         Crediting(v) /\ Crediting(w) /\ Head(hooks[v]) = Head(hooks[w]) => v = w

\* A worker starts to credit an enrollment only in the step that inserts its
\* award row, so no crash, retry or second callback credits it again.
CreditedOnce ==
    [][\A w \in Workers : Crediting(w)' /\ ~Crediting(w)
           => Head(hooks'[w]) \in awards' \ awards]_vars

-----------------------------------------------------------------------------
(* The scores against the rows that justify them.                          *)

\* Paid through mark_paid, which adds points of its own.
Direct == {e \in Paid : enrollments[e].bank_ref_code = "TEST-COACH"}
DirectOf(players) == {e \in Direct : enrollments[e].player \in players}
DirectBy(coach) == {e \in Direct : enrollments[e].coach = coach}

\* Awarded, with s credited at the given stage: the workers Owing still have
\* that stage before them.
Awarded(st, s) == {e \in awards : Recipient(e, st) = s}
ToGo(st) == CASE st = "coach" -> {"coach", "club", "board"} [] st = "club" -> {"club", "board"}
              [] st = "board" -> {"board"} [] OTHER -> {"player", "coach", "club", "board"}
Creditors == {w \in Workers : Crediting(w)}
Owing(st, s) == {w \in Creditors : st \in ToGo(stage[w]) /\ Recipient(Head(hooks[w]), st) = s}

DueCompetition(p) ==
    4 * Cardinality(DirectOf({p})) + 4 * Cardinality(Awarded("player", p))
InFlightCompetition(p) == 4 * Cardinality(Owing("player", p))

DueTotal(s) ==
    4 * Cardinality(DirectOf({s})) + 3 * Cardinality(DirectBy(s))
    + 2 * Cardinality(DirectOf(MembersOf(s)))
    + 3 * Cardinality(Awarded("coach", s)) + 2 * Cardinality(Awarded("club", s))
    + 2 * Cardinality(Awarded("board", s))
InFlightTotal(s) ==
    3 * Cardinality(Owing("coach", s)) + 2 * Cardinality(Owing("club", s))
    + 2 * Cardinality(Owing("board", s))

\* A player's participation score, with what running callbacks still add, is
\* what the payments justify, but for what crashes lost (models.py 517-547, 690-729).
CompetitionReconciled ==
    \A p \in Players :
        LET claimed == rankCompetition[p] + InFlightCompetition(p)
        IN claimed <= DueCompetition(p) /\ DueCompetition(p) <= claimed + 4 * crashes

\* The same of every ranking total: players, coaches, clubs and boards.  A crash
\* in the middle of one award loses an account the points of one stage.
TotalsReconciled ==
    \A s \in Subjects :
        LET claimed == rankTotal[s] + InFlightTotal(s)
        IN claimed <= DueTotal(s) /\ DueTotal(s) <= claimed + 3 * crashes

\* The scores never exceed what the award rows and the mark_paid payments
\* justify, and equal it once the running callbacks are counted, except that
\* each crash may lose the rest of the one award it interrupts.
LedgerReconciled == CompetitionReconciled /\ TotalsReconciled

\* "Points once per Enrollment" (models.py 692; models.py 528 says the same of
\* mark_paid): a player's participation score counts an enrollment once.
PointsOncePerEnrollment ==
    \A p \in Players :
        rankCompetition[p] <= 4 * Cardinality({e \in Paid : enrollments[e].player = p})

\* Without crashes, and while no results are announced, every payment leads
\* to a completed award.
Settled(i) == i \in awards /\ \A w \in Workers : Crediting(w) => Head(hooks[w]) # i
PaidIsAwarded == \A i \in 1..MaxEnrollments : i \in Paid ~> Settled(i)

\* Registration implements the abstract ledger.
Ledger == INSTANCE ParticipationLedger
            WITH Enrollments <- 1..MaxEnrollments, paid <- Paid, awarded <- awards
LedgerSpec == Ledger!Spec
=============================================================================
