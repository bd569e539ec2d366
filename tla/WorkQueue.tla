------------------------------ MODULE WorkQueue ------------------------------
(***************************************************************************)
(* The persistent work queue (toolbelt.core.work-queue): one row per work  *)
(* item, claimed under a lease, disposed of by the holder of the claim     *)
(* token, retried with backoff, dead-lettered, requeued, and ordered in    *)
(* execution groups by drain barriers.                                     *)
(*                                                                         *)
(* One action is one committed transaction of a stored procedure, except   *)
(* where the code leaves a window that other sessions can act in:          *)
(*   - a disposition (complete, fail, retry) holds the row lock from its   *)
(*     check to the commit of the transaction it runs in (DECIDE, COMMIT); *)
(*   - a retry reads the clock before it waits for that lock (CALL,        *)
(*     DECIDE).                                                            *)
(*                                                                         *)
(* The gate of managed operation is off: WorkQueueManagedGate has          *)
(* ManagedEnabled = 0, so every row has ManagedHold = 0 and no             *)
(* ManagedReservationId, and the conjuncts on them are constant.           *)
(*                                                                         *)
(* Time is relative: lease and retry hold what is left until LeaseUntilUtc *)
(* and NextAttemptAtUtc, and Tick lets time pass.                          *)
(***************************************************************************)
EXTENDS Naturals

CONSTANTS
  Item,           \* identities WorkItem hands out
  WorkType,       \* registered work types
  Group,          \* execution groups
  policy,         \* what each item was enqueued with
  LeaseDuration,  \* @LeaseDurationSeconds of every claim
  MaxCycles       \* bound: requeues per item, plus one

(***************************************************************************)
(* The check constraints of WorkItem and the argument checks of the        *)
(* enqueue procedures.                                                     *)
(***************************************************************************)
Tinyint == 0..255
DelaySeconds == 1..86400
Policy == [type: WorkType, group: Group, priority: Tinyint,
           mode: {"SHARED", "DRAIN_BARRIER"}, maxAttempts: 1..10,
           base: DelaySeconds, cap: DelaySeconds]

ASSUME PolicyAssumption ==
  /\ policy \in [Item -> Policy]
  /\ \A i \in Item : policy[i].base <= policy[i].cap
ASSUME BoundsAssumption ==
  /\ LeaseDuration \in Nat \ {0}
  /\ MaxCycles \in Nat \ {0}

VARIABLES
  status,      \* WorkItem.Status, "ABSENT" before the row exists
  token,       \* WorkItem.ClaimToken: the generation it was drawn for, 0 is NULL
  generation,  \* WorkItem.ClaimGeneration
  attempts,    \* WorkItem.CycleAttemptCount
  cycle,       \* WorkItem.RetryCycleNumber
  epoch,       \* WorkItem.BarrierEpoch
  lease,       \* time left until LeaseUntilUtc of a claim, 0 is expired
  retry,       \* time left until NextAttemptAtUtc, 0 is due
  blockers,    \* the rows of WorkQueueBarrierBlocker
  enabled,     \* the work types with IsEnabled = 1
  calls,       \* claims waiting in USP_ScheduleWorkRetry for the row lock
  txn          \* per row: the uncommitted disposition that locks it

columns == <<status, token, generation, attempts, cycle, epoch, lease, retry>>
sessions == <<calls, txn>>
vars == <<columns, blockers, enabled, sessions>>

Status == {"ABSENT", "QUEUED", "BARRIER_WAIT", "CLAIMED", "RETRY_WAIT",
           "COMPLETED", "FAILED", "DEAD_LETTER"}
Outcome == {"COMPLETED", "FAILED", "RETRY"}
NoTxn == [outcome |-> "NONE", token |-> 0, joined |-> FALSE]
Claim == Item \X (Nat \ {0})

TypeOK ==
  /\ status \in [Item -> Status]
  /\ token \in [Item -> Nat]
  /\ generation \in [Item -> Nat]
  /\ attempts \in [Item -> Nat]
  /\ cycle \in [Item -> 1..MaxCycles]
  /\ epoch \in [Item -> Nat]
  /\ lease \in [Item -> 0..LeaseDuration]
  /\ retry \in [Item -> Nat]
  /\ blockers \subseteq Item \X Nat \X Item \X Nat
  /\ enabled \subseteq WorkType
  /\ calls \subseteq Claim
  /\ txn \in [Item -> [outcome: Outcome, token: Nat, joined: BOOLEAN] \cup {NoTxn}]

-----------------------------------------------------------------------------
IsBarrier(i) == policy[i].mode = "DRAIN_BARRIER"
SameGroup(i, j) == policy[i].group = policy[j].group
SamePriority(i, j) == policy[i].priority = policy[j].priority

(***************************************************************************)
(* The statuses a row waits in before it is claimed for a new cycle.       *)
(***************************************************************************)
Waiting(i) == IF IsBarrier(i) THEN "BARRIER_WAIT" ELSE "QUEUED"

(***************************************************************************)
(* The blocker rows that barrier b stores for epoch e: the generations now *)
(* claimed in its group, barriers of its own priority excepted.            *)
(***************************************************************************)
Capture(b, e) ==
  {<<b, e, j, generation[j]>> : j \in {k \in Item :
     /\ status[k] = "CLAIMED"
     /\ SameGroup(k, b)
     /\ ~(IsBarrier(k) /\ SamePriority(k, b))}}

(***************************************************************************)
(* min(base * 2^(attempt - 1), cap). MaxAttempts is at most 10, so the     *)
(* branch of the code for 31 attempts and more is out of reach.            *)
(***************************************************************************)
PowerOfTwo == <<1, 2, 4, 8, 16, 32, 64, 128, 256, 512>>
Delay(i) ==
  LET d == policy[i].base * PowerOfTwo[attempts[i]]
  IN  IF d > policy[i].cap THEN policy[i].cap ELSE d

Exhausted(i) == attempts[i] >= policy[i].maxAttempts

(***************************************************************************)
(* Mutant of Owns: the token alone is compared, which settled rows keep.   *)
(***************************************************************************)
OwnsByToken(i, g) == token[i] = g

(***************************************************************************)
(* The caller presents the token of the current claim.                     *)
(***************************************************************************)
Owns(i, g) == status[i] = "CLAIMED" /\ token[i] = g
Unlocked(i) == txn[i] = NoTxn

Init ==
  /\ status = [i \in Item |-> "ABSENT"]
  /\ token = [i \in Item |-> 0]
  /\ generation = [i \in Item |-> 0]
  /\ attempts = [i \in Item |-> 0]
  /\ cycle = [i \in Item |-> 1]
  /\ epoch = [i \in Item |-> 0]
  /\ lease = [i \in Item |-> 0]
  /\ retry = [i \in Item |-> 0]
  /\ blockers = {}
  /\ enabled = WorkType
  /\ calls = {}
  /\ txn = [i \in Item |-> NoTxn]

-----------------------------------------------------------------------------
(***************************************************************************)
(* USP_EnqueueWork and USP_EnqueueWorkWithPolicy. A normal item is ready   *)
(* at once. A second call with the same idempotency key finds the row and  *)
(* changes nothing, so it is a stuttering step.                            *)
(***************************************************************************)
EnqueueShared(i) ==
  /\ ~IsBarrier(i)
  /\ status[i] = "ABSENT"
  /\ policy[i].type \in enabled
  /\ status' = [status EXCEPT ![i] = "QUEUED"]
  /\ UNCHANGED <<token, generation, attempts, cycle, epoch, lease, retry,
                 blockers, enabled, sessions>>

(***************************************************************************)
(* USP_EnqueueBarrierWork: USP_EnqueueWorkWithPolicy under the scheduler   *)
(* lock that claims take too. The barrier stores what it has to wait for.  *)
(***************************************************************************)
EnqueueBarrier(i) ==
  /\ IsBarrier(i)
  /\ status[i] = "ABSENT"
  /\ policy[i].type \in enabled
  /\ status' = [status EXCEPT ![i] = "BARRIER_WAIT"]
  /\ epoch' = [epoch EXCEPT ![i] = 1]
  /\ blockers' = blockers \cup Capture(i, 1)
  /\ UNCHANGED <<token, generation, attempts, cycle, lease, retry, enabled, sessions>>

Enqueue(i) == EnqueueShared(i) \/ EnqueueBarrier(i)

(***************************************************************************)
(* Mutants of ArmedEpoch and ArmedBlockers: a barrier goes back to waiting *)
(* in its old epoch, or without looking who runs now.                      *)
(***************************************************************************)
EpochKept == epoch
BlockersKept == blockers

(***************************************************************************)
(* USP_ClaimWorkCore under the scheduler lock. It first re-arms every      *)
(* barrier whose retry is due: back to BARRIER_WAIT, in a new epoch, with  *)
(* a new set of blockers.                                                  *)
(***************************************************************************)
DueBarriers == {b \in Item : IsBarrier(b) /\ status[b] = "RETRY_WAIT" /\ retry[b] = 0}
ArmedStatus == [i \in Item |-> IF i \in DueBarriers THEN "BARRIER_WAIT" ELSE status[i]]
ArmedEpoch == [i \in Item |-> IF i \in DueBarriers THEN epoch[i] + 1 ELSE epoch[i]]
ArmedBlockers == blockers \cup UNION {Capture(b, epoch[b] + 1) : b \in DueBarriers}

(***************************************************************************)
(* A normal item is claimable when it is queued or due and no barrier of   *)
(* its group waits or runs.                                                *)
(***************************************************************************)
SharedClaimable(i) ==
  /\ ~IsBarrier(i)
  /\ \/ status[i] = "QUEUED"
     \/ status[i] = "RETRY_WAIT" /\ retry[i] = 0
  /\ \A b \in Item : IsBarrier(b) /\ SameGroup(b, i)
       => ArmedStatus[b] \notin {"BARRIER_WAIT", "CLAIMED"}

(***************************************************************************)
(* Mutants of BarrierClaimable: running barriers are left to the blocker   *)
(* rows, or a barrier waits until it is the only one.                      *)
(***************************************************************************)
BarrierBehindBlockers(b) ==
  /\ IsBarrier(b)
  /\ ArmedStatus[b] = "BARRIER_WAIT"
  /\ \A j \in Item :
       <<b, ArmedEpoch[b], j, generation[j]>> \in ArmedBlockers => status[j] # "CLAIMED"

BarrierAlone(b) ==
  /\ BarrierBehindBlockers(b)
  /\ \A c \in Item : c # b /\ IsBarrier(c) /\ SameGroup(c, b)
       => ArmedStatus[c] \notin {"BARRIER_WAIT", "CLAIMED"}

(***************************************************************************)
(* A barrier is claimable when the generations stored for its epoch are no *)
(* longer claimed and no barrier of another priority runs in its group.    *)
(***************************************************************************)
BarrierClaimable(b) ==
  /\ IsBarrier(b)
  /\ ArmedStatus[b] = "BARRIER_WAIT"
  /\ \A j \in Item :
       <<b, ArmedEpoch[b], j, generation[j]>> \in ArmedBlockers => status[j] # "CLAIMED"
  /\ \A c \in Item :
       IsBarrier(c) /\ SameGroup(c, b) /\ status[c] = "CLAIMED" => SamePriority(c, b)

Candidates == {i \in Item : /\ policy[i].type \in enabled
                            /\ SharedClaimable(i) \/ BarrierClaimable(i)}

(***************************************************************************)
(* The query orders the candidates by priority and age but leaves out the  *)
(* rows that another session has locked (READPAST) and the work types the  *)
(* session may not claim: any candidate can be the first one it sees.      *)
(***************************************************************************)
ClaimWork(i) ==
  /\ i \in Candidates
  /\ status' = [ArmedStatus EXCEPT ![i] = "CLAIMED"]
  /\ epoch' = ArmedEpoch
  /\ blockers' = ArmedBlockers
  /\ generation' = [generation EXCEPT ![i] = @ + 1]
  /\ token' = [token EXCEPT ![i] = generation[i] + 1]
  /\ attempts' = [attempts EXCEPT ![i] = @ + 1]
  /\ lease' = [lease EXCEPT ![i] = LeaseDuration]
  /\ retry' = [retry EXCEPT ![i] = 0]
  /\ UNCHANGED <<cycle, enabled, sessions>>

(***************************************************************************)
(* A claim that sees no candidate still commits the re-armed barriers.     *)
(***************************************************************************)
ClaimNothing ==
  /\ DueBarriers # {}
  /\ status' = ArmedStatus
  /\ epoch' = ArmedEpoch
  /\ blockers' = ArmedBlockers
  /\ UNCHANGED <<token, generation, attempts, cycle, lease, retry, enabled, sessions>>

(***************************************************************************)
(* USP_RenewWorkLease, on a connection of its own. It waits for the row    *)
(* lock and reads the clock after it has it.                               *)
(***************************************************************************)
RenewWorkLease(i, g) ==
  /\ Unlocked(i)
  /\ Owns(i, g)
  /\ lease[i] > 0
  /\ lease' = [lease EXCEPT ![i] = LeaseDuration]
  /\ UNCHANGED <<status, token, generation, attempts, cycle, epoch, retry,
                 blockers, enabled, sessions>>

-----------------------------------------------------------------------------
(***************************************************************************)
(* A disposition that passed its checks keeps the row locked until the     *)
(* transaction ends: its own, or the one the caller had open (joined).     *)
(***************************************************************************)
Lock(i, g, outcome, joined) ==
  txn' = [txn EXCEPT ![i] = [outcome |-> outcome, token |-> g, joined |-> joined]]

(***************************************************************************)
(* USP_CompleteWork and USP_FailWorkCore: status, token and lease are      *)
(* checked under the row lock against a clock read after it was granted.   *)
(***************************************************************************)
CompleteWork(i, g, joined) ==
  /\ Unlocked(i)
  /\ Owns(i, g)
  /\ lease[i] > 0
  /\ Lock(i, g, "COMPLETED", joined)
  /\ UNCHANGED <<columns, blockers, enabled, calls>>

FailWork(i, g, joined) ==
  /\ Unlocked(i)
  /\ Owns(i, g)
  /\ lease[i] > 0
  /\ Lock(i, g, "FAILED", joined)
  /\ UNCHANGED <<columns, blockers, enabled, calls>>

(***************************************************************************)
(* USP_ScheduleWorkRetryCore reads the clock when it is called (CALL) and  *)
(* compares the lease with that reading once it has the row lock (DECIDE). *)
(* A lease is only ever extended while it is live, so the comparison holds *)
(* exactly when the lease was live at the call; a call made after that     *)
(* throws and changes nothing.                                             *)
(***************************************************************************)
ScheduleWorkRetryCall(i, g) ==
  /\ Owns(i, g)
  /\ lease[i] > 0
  /\ calls' = calls \cup {<<i, g>>}
  /\ UNCHANGED <<columns, blockers, enabled, txn>>

ScheduleWorkRetryDecide(i, g, joined) ==
  /\ <<i, g>> \in calls
  /\ Unlocked(i)
  /\ calls' = calls \ {<<i, g>>}
  /\ IF Owns(i, g)
       THEN Lock(i, g, "RETRY", joined)
       ELSE UNCHANGED txn
  /\ UNCHANGED <<columns, blockers, enabled>>

(***************************************************************************)
(* The transaction commits and the disposition takes effect. A settled row *)
(* keeps its claim columns, and so does one that a retry dead-letters. The *)
(* retry delay counts from the early reading of the clock, so part of it   *)
(* may have passed by now.                                                 *)
(***************************************************************************)
CommitSettled(i) ==
  /\ txn[i].outcome \in {"COMPLETED", "FAILED"}
  /\ status' = [status EXCEPT ![i] = txn[i].outcome]
  /\ UNCHANGED <<token, retry>>

CommitDeadLetter(i) ==
  /\ txn[i].outcome = "RETRY"
  /\ Exhausted(i)
  /\ status' = [status EXCEPT ![i] = "DEAD_LETTER"]
  /\ UNCHANGED <<token, retry>>

CommitRetry(i) ==
  /\ txn[i].outcome = "RETRY"
  /\ ~Exhausted(i)
  /\ status' = [status EXCEPT ![i] = "RETRY_WAIT"]
  /\ token' = [token EXCEPT ![i] = 0]
  /\ \E left \in 0..Delay(i) : retry' = [retry EXCEPT ![i] = left]

Commit(i) ==
  /\ CommitSettled(i) \/ CommitDeadLetter(i) \/ CommitRetry(i)
  /\ lease' = [lease EXCEPT ![i] = 0]
  /\ txn' = [txn EXCEPT ![i] = NoTxn]
  /\ UNCHANGED <<generation, attempts, cycle, epoch, blockers, enabled, calls>>

(***************************************************************************)
(* The transaction does not commit: the caller that had it open rolls it   *)
(* back, an error does, or the connection of the handler is gone.          *)
(***************************************************************************)
Rollback(i) ==
  /\ ~Unlocked(i)
  /\ txn' = [txn EXCEPT ![i] = NoTxn]
  /\ UNCHANGED <<columns, blockers, enabled, calls>>

-----------------------------------------------------------------------------
(***************************************************************************)
(* Mutants of Expired: rows locked by a disposition are taken as well, or  *)
(* claims whose lease is live.                                             *)
(***************************************************************************)
ExpiredOrLocked == {i \in Item : status[i] = "CLAIMED" /\ lease[i] = 0}
ClaimedUnlocked == {i \in Item : status[i] = "CLAIMED" /\ Unlocked(i)}

(***************************************************************************)
(* USP_RecoverExpiredWork: a batch of expired claims, locked rows skipped. *)
(* Any nonempty batch stands for every @MaxItems.                          *)
(***************************************************************************)
Expired == {i \in Item : status[i] = "CLAIMED" /\ lease[i] = 0 /\ Unlocked(i)}

RecoverExpiredWork(S) ==
  /\ S # {}
  /\ S \subseteq Expired
  /\ status' = [i \in Item |-> IF i \notin S THEN status[i]
                               ELSE IF Exhausted(i) THEN "DEAD_LETTER" ELSE "RETRY_WAIT"]
  /\ token' = [i \in Item |-> IF i \in S THEN 0 ELSE token[i]]
  /\ retry' = [i \in Item |-> IF i \in S /\ ~Exhausted(i) THEN Delay(i) ELSE retry[i]]
  /\ UNCHANGED <<generation, attempts, cycle, epoch, lease, blockers, enabled, sessions>>

(***************************************************************************)
(* Mutant of RequeueDeadLetter: the attempts of the old cycle are kept.    *)
(***************************************************************************)
RequeueWithoutReset(i) ==
  /\ status[i] = "DEAD_LETTER"
  /\ cycle[i] < MaxCycles
  /\ status' = [status EXCEPT ![i] = Waiting(i)]
  /\ cycle' = [cycle EXCEPT ![i] = @ + 1]
  /\ IF IsBarrier(i)
       THEN /\ epoch' = [epoch EXCEPT ![i] = @ + 1]
            /\ blockers' = blockers \cup Capture(i, epoch[i] + 1)
       ELSE UNCHANGED <<epoch, blockers>>
  /\ UNCHANGED <<token, generation, attempts, lease, retry, enabled, sessions>>

(***************************************************************************)
(* USP_RequeueDeadLetter: a new cycle of the same row.                     *)
(***************************************************************************)
RequeueDeadLetter(i) ==
  /\ status[i] = "DEAD_LETTER"
  /\ cycle[i] < MaxCycles
  /\ status' = [status EXCEPT ![i] = Waiting(i)]
  /\ cycle' = [cycle EXCEPT ![i] = @ + 1]
  /\ attempts' = [attempts EXCEPT ![i] = 0]
  /\ token' = [token EXCEPT ![i] = 0]
  /\ lease' = [lease EXCEPT ![i] = 0]
  /\ retry' = [retry EXCEPT ![i] = 0]
  /\ IF IsBarrier(i)
       THEN /\ epoch' = [epoch EXCEPT ![i] = @ + 1]
            /\ blockers' = blockers \cup Capture(i, epoch[i] + 1)
       ELSE UNCHANGED <<epoch, blockers>>
  /\ UNCHANGED <<generation, enabled, sessions>>

(***************************************************************************)
(* toolbelt.core.work-type decides which types the enqueue and claim       *)
(* procedures accept: USP_RegisterWorkType, with @Reactivate, and          *)
(* USP_DisableWorkType. (USP_RemoveWorkType takes disabled types only, and *)
(* the foreign key of WorkItem keeps those that have items.)               *)
(***************************************************************************)
RegisterWorkType(t) ==
  /\ enabled' = enabled \cup {t}
  /\ UNCHANGED <<columns, blockers, sessions>>

DisableWorkType(t) ==
  /\ enabled' = enabled \ {t}
  /\ UNCHANGED <<columns, blockers, sessions>>

(***************************************************************************)
(* A unit of time passes.                                                  *)
(***************************************************************************)
Less(n) == IF n > 0 THEN n - 1 ELSE 0

Tick ==
  /\ \E i \in Item : lease[i] > 0 \/ retry[i] > 0
  /\ lease' = [i \in Item |-> Less(lease[i])]
  /\ retry' = [i \in Item |-> Less(retry[i])]
  /\ UNCHANGED <<status, token, generation, attempts, cycle, epoch,
                 blockers, enabled, sessions>>

-----------------------------------------------------------------------------
(***************************************************************************)
(* What a session that was handed the token of generation g can do. It may *)
(* hold on to the token after the claim is lost, share it with a second    *)
(* connection, or crash and do nothing any more.                           *)
(***************************************************************************)
Handler(i, g) ==
  \/ RenewWorkLease(i, g)
  \/ \E joined \in BOOLEAN : CompleteWork(i, g, joined)
  \/ \E joined \in BOOLEAN : FailWork(i, g, joined)
  \/ ScheduleWorkRetryCall(i, g)
  \/ \E joined \in BOOLEAN : ScheduleWorkRetryDecide(i, g, joined)

Next ==
  \/ \E i \in Item : Enqueue(i)
  \/ \E i \in Item : ClaimWork(i)
  \/ ClaimNothing
  \/ \E i \in Item : \E g \in 1..generation[i] : Handler(i, g)
  \/ \E i \in Item : Commit(i)
  \/ \E i \in Item : Rollback(i)
  \/ \E S \in SUBSET Item : RecoverExpiredWork(S)
  \/ \E i \in Item : RequeueDeadLetter(i)
  \/ \E t \in WorkType : RegisterWorkType(t)
  \/ \E t \in WorkType : DisableWorkType(t)
  \/ Tick

Spec == Init /\ [][Next]_vars

(***************************************************************************)
(* What the surroundings of the queue owe it: time passes, somebody calls  *)
(* claim, somebody recovers every expired lease, transactions end, and no  *)
(* handler renews its lease forever. Nothing is assumed about how a        *)
(* transaction ends or whether a handler disposes of its item at all.      *)
(***************************************************************************)
Fairness ==
  /\ WF_vars(Tick)
  /\ WF_vars(\E i \in Item : ClaimWork(i))
  /\ \A i \in Item : WF_vars(RecoverExpiredWork({i}))
  /\ \A i \in Item : WF_vars(Commit(i) \/ Rollback(i))
  /\ <>[][\A i \in Item : \A g \in 1..generation[i] : ~RenewWorkLease(i, g)]_vars

FairSpec == Spec /\ Fairness

-----------------------------------------------------------------------------
(***************************************************************************)
(* While a barrier is claimed nothing else is claimed in its group except  *)
(* barriers of its own priority, whichever of the two was claimed first.   *)
(* (USP_ClaimWorkCore, with the blocker rows that USP_EnqueueWorkWithPolicy*)
(* and USP_RequeueDeadLetter leave for it.)                                *)
(***************************************************************************)
MayOverlap(i, j) ==
  \/ ~SameGroup(i, j)
  \/ ~IsBarrier(i) /\ ~IsBarrier(j)
  \/ IsBarrier(i) /\ IsBarrier(j) /\ SamePriority(i, j)

BarrierExclusion ==
  \A i, j \in Item :
    i # j /\ status[i] = "CLAIMED" /\ status[j] = "CLAIMED" => MayOverlap(i, j)

(***************************************************************************)
(* No claimed normal item escapes the snapshot of a waiting barrier: its   *)
(* present generation is among the blocker rows of the present epoch.      *)
(* Claims, requeues and re-arming all have to keep the two in step.        *)
(***************************************************************************)
WaitingBarrierCovered ==
  \A b, j \in Item :
    /\ IsBarrier(b)
    /\ status[b] = "BARRIER_WAIT"
    /\ ~IsBarrier(j)
    /\ SameGroup(b, j)
    /\ status[j] = "CLAIMED"
    => <<b, epoch[b], j, generation[j]>> \in blockers

(***************************************************************************)
(* Blocker rows belong to epochs that have begun and to generations that   *)
(* were handed out. So the next capture of a barrier, in the epoch after   *)
(* the present one, can never collide with the primary key of              *)
(* WorkQueueBarrierBlocker; a collision would abort every later claim.     *)
(***************************************************************************)
NextCaptureIsFresh ==
  \A r \in blockers : r[2] \in 1..epoch[r[1]] /\ r[4] \in 1..generation[r[3]]

(***************************************************************************)
(* The books of the retry cycles: every claim of an item is counted in     *)
(* exactly one cycle, a cycle is used up before an item is dead, and an    *)
(* item that waits still has an attempt left. (CycleAttemptCount and       *)
(* RetryCycleNumber across claim, retry, recovery and requeue.)            *)
(***************************************************************************)
AttemptLedger ==
  \A i \in Item :
    /\ generation[i] = (cycle[i] - 1) * policy[i].maxAttempts + attempts[i]
    /\ status[i] \in {"ABSENT", "QUEUED"} => attempts[i] = 0
    /\ status[i] \in {"BARRIER_WAIT", "RETRY_WAIT"} => attempts[i] < policy[i].maxAttempts
    /\ status[i] \in {"CLAIMED", "COMPLETED", "FAILED"}
         => attempts[i] \in 1..policy[i].maxAttempts
    /\ status[i] = "DEAD_LETTER" => attempts[i] = policy[i].maxAttempts

(***************************************************************************)
(* A disposition that passed its checks still owns the claim when it       *)
(* commits: no recovery, claim or second disposition gets in between, even *)
(* when the lease runs out while the caller's transaction is open.         *)
(***************************************************************************)
OpenTransactionOwnsClaim ==
  \A i \in Item : txn[i] # NoTxn => Owns(i, txn[i].token) /\ txn[i].token = generation[i]

(***************************************************************************)
(* A result is final: the handler's transaction that committed COMPLETED,  *)
(* and a committed FAILED, are never followed by another disposition of    *)
(* the same item, although the row keeps its token and its lease.          *)
(***************************************************************************)
SettledIsFinal ==
  [][\A i \in Item : status[i] \in {"COMPLETED", "FAILED"} => status'[i] = status[i]]_vars

(***************************************************************************)
(* A claim whose lease is live ends only by a disposition of its holder:   *)
(* nobody else's step takes the item out of CLAIMED or changes the token.  *)
(***************************************************************************)
LiveClaimIsHolders ==
  [][\A i \in Item :
       /\ status[i] = "CLAIMED"
       /\ lease[i] > 0
       /\ status'[i] # "CLAIMED" \/ token'[i] # token[i]
       => txn[i].token = token[i]]_vars

(***************************************************************************)
(* Every enqueued item comes to rest, whatever its handlers do and however *)
(* often they crash, once its work type stays enabled. In particular no    *)
(* group is blocked for good by its barriers.                              *)
(***************************************************************************)
EveryItemSettles ==
  <>[](enabled = WorkType) =>
    \A i \in Item : status[i] # "ABSENT" ~> status[i] \in {"COMPLETED", "FAILED", "DEAD_LETTER"}

(***************************************************************************)
(* The queue implements the groups that its callers see: claims are turns, *)
(* a due retry and a re-armed barrier are both still waiting.              *)
(***************************************************************************)
PhaseOf(s) ==
  CASE s = "ABSENT" -> "absent"
    [] s \in {"QUEUED", "BARRIER_WAIT", "RETRY_WAIT"} -> "waiting"
    [] s = "CLAIMED" -> "running"
    [] s \in {"COMPLETED", "FAILED"} -> "settled"
    [] s = "DEAD_LETTER" -> "dead"

Groups == INSTANCE WorkGroups WITH
  Compatible <- {c \in Item \X Item : MayOverlap(c[1], c[2])},
  Limit <- [i \in Item |-> policy[i].maxAttempts],
  MaxRounds <- MaxCycles,
  phase <- [i \in Item |-> PhaseOf(status[i])],
  turn <- generation,
  tries <- attempts,
  round <- cycle

ImplementsWorkGroups == Groups!Spec

-----------------------------------------------------------------------------
(***************************************************************************)
(* What the documentation says of USP_ScheduleWorkRetry and the code does  *)
(* not do.                                                                 *)
(*                                                                         *)
(* USP_ScheduleWorkRetry.md: both procedures refuse a caller's transaction.*)
(***************************************************************************)
RetryRefusesCallerTransaction ==
  \A i \in Item : txn[i].outcome = "RETRY" => ~txn[i].joined

(***************************************************************************)
(* USP_ScheduleWorkRetry.md on @ClaimToken: an expired lease is refused.   *)
(***************************************************************************)
ExpiredLeaseIsRefused ==
  [][\A i \in Item : txn[i] = NoTxn /\ txn'[i] # NoTxn => lease[i] > 0]_vars
=============================================================================
