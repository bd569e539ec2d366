--------------------------- MODULE WorkQueueProofs ---------------------------
(***************************************************************************)
(* Proofs about WorkQueue, for every number of items, every policy and     *)
(* every lease duration.                                                   *)
(***************************************************************************)
EXTENDS WorkQueue, TLAPS

(***************************************************************************)
(* The token stored in a claimed row is that of its present generation.    *)
(***************************************************************************)
TokenIsCurrent == \A i \in Item : status[i] = "CLAIMED" => token[i] = generation[i]

(***************************************************************************)
(* The first inductive invariant. The delay of a retry is a number only    *)
(* because the ledger bounds the attempts of a claimed item, the ledger    *)
(* holds only because a disposition commits on a row that is still         *)
(* claimed, and that is so because its token is the present one.           *)
(***************************************************************************)
ClaimInv == TypeOK /\ AttemptLedger /\ TokenIsCurrent /\ OpenTransactionOwnsClaim

-----------------------------------------------------------------------------
(***************************************************************************)
(* What the constants of a policy are.                                     *)
(***************************************************************************)
LEMMA DelaySecondsType == DelaySeconds \subseteq Nat
  BY DEF DelaySeconds

LEMMA PolicyType ==
  ASSUME NEW i \in Item
  PROVE  /\ policy[i].maxAttempts \in 1..10
         /\ policy[i].maxAttempts \in Nat
         /\ policy[i].base \in Nat
         /\ policy[i].cap \in Nat
<1>1. policy[i] \in Policy
  BY PolicyAssumption DEF PolicyAssumption
<1>2. policy[i].maxAttempts \in 1..10
  BY <1>1 DEF Policy
<1>3. policy[i].base \in Nat /\ policy[i].cap \in Nat
  BY <1>1, DelaySecondsType DEF Policy
<1> QED
  BY <1>2, <1>3

(***************************************************************************)
(* The retry delay is a number for every attempt a policy allows.          *)
(***************************************************************************)
LEMMA DelayType ==
  ASSUME NEW i \in Item, attempts[i] \in 1..10
  PROVE  Delay(i) \in Nat
<1>1. PowerOfTwo[attempts[i]] \in Nat
  BY DEF PowerOfTwo
<1>2. policy[i].base * PowerOfTwo[attempts[i]] \in Nat
  BY <1>1, PolicyType
<1> QED
  BY <1>2, PolicyType DEF Delay
-----------------------------------------------------------------------------
LEMMA ClaimInvInit == Init => ClaimInv
<1> SUFFICES ASSUME Init PROVE ClaimInv
  OBVIOUS
<1>1. TypeOK
  BY BoundsAssumption DEF BoundsAssumption, Init, TypeOK, Status, NoTxn
<1>2. AttemptLedger
  <2>1. ASSUME NEW m \in Nat PROVE 0 = (1 - 1) * m + 0
    OBVIOUS
  <2>2. \A i \in Item : 0 = (1 - 1) * policy[i].maxAttempts + 0
    BY <2>1, PolicyType
  <2> QED
    BY <2>2 DEF Init, AttemptLedger
<1>3. TokenIsCurrent /\ OpenTransactionOwnsClaim
  BY DEF Init, TokenIsCurrent, OpenTransactionOwnsClaim
<1> QED
  BY <1>1, <1>2, <1>3 DEF ClaimInv

(***************************************************************************)
(* Under the invariant a row with an open disposition is claimed, and a    *)
(* claimed row has an attempt for which the delay is a number.             *)
(***************************************************************************)
LEMMA ClaimedFacts ==
  ASSUME ClaimInv, NEW i \in Item
  PROVE  /\ txn[i] # NoTxn => status[i] = "CLAIMED"
         /\ txn[i].outcome # "NONE" => txn[i] # NoTxn
         /\ status[i] = "CLAIMED" => attempts[i] \in 1..10 /\ Delay(i) \in Nat
<1>1. txn[i] # NoTxn => status[i] = "CLAIMED"
  BY DEF ClaimInv, OpenTransactionOwnsClaim, Owns
<1>2. txn[i].outcome # "NONE" => txn[i] # NoTxn
  BY DEF NoTxn
<1>3. ASSUME status[i] = "CLAIMED" PROVE attempts[i] \in 1..10 /\ Delay(i) \in Nat
  <2>1. attempts[i] \in 1..policy[i].maxAttempts
    BY <1>3 DEF ClaimInv, AttemptLedger
  <2>2. attempts[i] \in 1..10
    BY <2>1, PolicyType
  <2> QED
    BY <2>2, DelayType
<1> QED
  BY <1>1, <1>2, <1>3

LEMMA TypeStep == ClaimInv /\ [Next]_vars => TypeOK'
<1> SUFFICES ASSUME ClaimInv, [Next]_vars PROVE TypeOK'
  OBVIOUS
<1> USE DEF ClaimInv, TypeOK, Status, Claim, columns, sessions
<1>1. ASSUME NEW i \in Item, Enqueue(i) PROVE TypeOK'
  <2>1. Capture(i, 1) \subseteq Item \X Nat \X Item \X Nat
    BY DEF Capture
  <2> QED
    BY <1>1, <2>1 DEF Enqueue, EnqueueShared, EnqueueBarrier
<1> DEFINE Rows == Item \X Nat \X Item \X Nat
<1>2. /\ ArmedStatus \in [Item -> Status]
      /\ ArmedEpoch \in [Item -> Nat]
      /\ ArmedBlockers \subseteq Rows
  <2>1. ASSUME NEW b \in Item PROVE Capture(b, epoch[b] + 1) \subseteq Rows
    BY DEF Capture
  <2> QED
    BY <2>1 DEF ArmedStatus, ArmedEpoch, ArmedBlockers, DueBarriers
<1>3. ASSUME NEW i \in Item, ClaimWork(i) PROVE TypeOK'
  BY <1>2, <1>3, BoundsAssumption DEF BoundsAssumption, ClaimWork
<1>4. CASE ClaimNothing
  BY <1>2, <1>4 DEF ClaimNothing
<1>5. ASSUME NEW i \in Item, NEW g \in 1..generation[i], Handler(i, g) PROVE TypeOK'
  <2>1. CASE RenewWorkLease(i, g)
    BY <2>1, BoundsAssumption DEF BoundsAssumption, RenewWorkLease
  <2>2. ASSUME NEW joined \in BOOLEAN, CompleteWork(i, g, joined) PROVE TypeOK'
    BY <2>2 DEF CompleteWork, Lock, Outcome
  <2>3. ASSUME NEW joined \in BOOLEAN, FailWork(i, g, joined) PROVE TypeOK'
    BY <2>3 DEF FailWork, Lock, Outcome
  <2>4. CASE ScheduleWorkRetryCall(i, g)
    BY <2>4 DEF ScheduleWorkRetryCall
  <2>5. ASSUME NEW joined \in BOOLEAN, ScheduleWorkRetryDecide(i, g, joined) PROVE TypeOK'
    BY <2>5 DEF ScheduleWorkRetryDecide, Lock, Outcome
  <2> QED
    BY <1>5, <2>1, <2>2, <2>3, <2>4, <2>5 DEF Handler
<1>6. ASSUME NEW i \in Item, Commit(i) PROVE TypeOK'
  <2>1. txn' \in [Item -> [outcome: Outcome, token: Nat, joined: BOOLEAN] \cup {NoTxn}]
    BY <1>6 DEF Commit
  <2> lease' \in [Item -> 0..LeaseDuration]
    BY <1>6, BoundsAssumption DEF BoundsAssumption, Commit
  <2>2. CASE CommitSettled(i)
    BY <1>6, <2>1, <2>2 DEF Commit, CommitSettled
  <2>3. CASE CommitDeadLetter(i)
    BY <1>6, <2>1, <2>3 DEF Commit, CommitDeadLetter
  <2>4. CASE CommitRetry(i)
    <3>1. Delay(i) \in Nat
      BY <2>4, ClaimedFacts DEF CommitRetry
    <3> QED
      BY <1>6, <2>1, <2>4, <3>1 DEF Commit, CommitRetry
  <2> QED
    BY <1>6, <2>2, <2>3, <2>4 DEF Commit
<1>7. ASSUME NEW i \in Item, Rollback(i) PROVE TypeOK'
  BY <1>7 DEF Rollback
<1>8. ASSUME NEW S \in SUBSET Item, RecoverExpiredWork(S) PROVE TypeOK'
  <2>1. \A i \in S : Delay(i) \in Nat
    BY <1>8, ClaimedFacts DEF RecoverExpiredWork, Expired
  <2> QED
    BY <1>8, <2>1 DEF RecoverExpiredWork
<1>9. ASSUME NEW i \in Item, RequeueDeadLetter(i) PROVE TypeOK'
  <2>1. Capture(i, epoch[i] + 1) \subseteq Rows
    BY DEF Capture
  <2> QED
    BY <1>9, <2>1, BoundsAssumption DEF BoundsAssumption, RequeueDeadLetter, Waiting
<1>10. ASSUME NEW t \in WorkType, RegisterWorkType(t) \/ DisableWorkType(t) PROVE TypeOK'
  BY <1>10 DEF RegisterWorkType, DisableWorkType
<1>11. CASE Tick
  BY <1>11, BoundsAssumption DEF BoundsAssumption, Tick, Less
<1>12. CASE UNCHANGED vars
  BY <1>12 DEF vars
<1> QED
  BY <1>1, <1>3, <1>4, <1>5, <1>6, <1>7, <1>8, <1>9, <1>10, <1>11, <1>12 DEF Next
-----------------------------------------------------------------------------
(***************************************************************************)
(* Most steps leave the books of the rows alone. The cases that are left   *)
(* for the other invariants, and for the refinement, are the steps that    *)
(* move a row from one status to another.                                  *)
(***************************************************************************)
books == <<status, token, generation, attempts, cycle, epoch, blockers>>

LEMMA StepCases ==
  ASSUME [Next]_vars
  PROVE  \/ \E i \in Item : Enqueue(i)
         \/ \E i \in Item : ClaimWork(i)
         \/ ClaimNothing
         \/ \E i \in Item : Commit(i)
         \/ \E S \in SUBSET Item : RecoverExpiredWork(S)
         \/ \E i \in Item : RequeueDeadLetter(i)
         \/ UNCHANGED books
<1> USE DEF books, columns
<1>1. ASSUME NEW i \in Item, NEW g \in 1..generation[i], Handler(i, g)
      PROVE  UNCHANGED books
  BY <1>1 DEF Handler, RenewWorkLease, CompleteWork, FailWork, ScheduleWorkRetryCall,
              ScheduleWorkRetryDecide
<1>2. ASSUME NEW i \in Item, Rollback(i) PROVE UNCHANGED books
  BY <1>2 DEF Rollback
<1>3. ASSUME NEW t \in WorkType, RegisterWorkType(t) \/ DisableWorkType(t) PROVE UNCHANGED books
  BY <1>3 DEF RegisterWorkType, DisableWorkType
<1>4. CASE Tick
  BY <1>4 DEF Tick
<1>5. CASE UNCHANGED vars
  BY <1>5 DEF vars
<1> QED
  BY <1>1, <1>2, <1>3, <1>4, <1>5 DEF Next

(***************************************************************************)
(* A claim takes a row that waits, so one with an attempt left, and moves  *)
(* only barriers besides it, from one kind of waiting to another.          *)
(***************************************************************************)
Waits(i) == status[i] \in {"QUEUED", "BARRIER_WAIT", "RETRY_WAIT"}

LEMMA ArmedFacts ==
  ASSUME TypeOK, NEW i \in Item
  PROVE  /\ ArmedStatus[i] = status[i] \/ (status[i] = "RETRY_WAIT" /\ ArmedStatus[i] = "BARRIER_WAIT")
         /\ i \in Candidates => Waits(i)
  BY DEF TypeOK, ArmedStatus, DueBarriers, Candidates, SharedClaimable, BarrierClaimable, Waits

LEMMA WaitingHasAttempt ==
  ASSUME ClaimInv, NEW i \in Item, Waits(i)
  PROVE  attempts[i] \in Nat /\ attempts[i] < policy[i].maxAttempts
  BY PolicyType DEF ClaimInv, TypeOK, AttemptLedger, Waits

LEMMA LedgerStep == ClaimInv /\ [Next]_vars => AttemptLedger'
<1> SUFFICES ASSUME ClaimInv, [Next]_vars PROVE AttemptLedger'
  OBVIOUS
<1> DEFINE Sum(i) == generation[i] = (cycle[i] - 1) * policy[i].maxAttempts + attempts[i]
           Bounds(i) ==
             /\ status[i] \in {"ABSENT", "QUEUED"} => attempts[i] = 0
             /\ status[i] \in {"BARRIER_WAIT", "RETRY_WAIT"} => attempts[i] < policy[i].maxAttempts
             /\ status[i] \in {"CLAIMED", "COMPLETED", "FAILED"}
                  => attempts[i] \in 1..policy[i].maxAttempts
             /\ status[i] = "DEAD_LETTER" => attempts[i] = policy[i].maxAttempts
<1> SUFFICES ASSUME NEW k \in Item PROVE Sum(k)' /\ Bounds(k)'
  BY DEF AttemptLedger
<1>0. Sum(k) /\ Bounds(k) /\ TypeOK
  BY DEF ClaimInv, AttemptLedger
<1> policy[k].maxAttempts \in Nat \ {0}
  BY PolicyType
<1> USE DEF TypeOK
<1>1. ASSUME NEW i \in Item, Enqueue(i) PROVE Sum(k)' /\ Bounds(k)'
  <2>1. Sum(k)'
    BY <1>0, <1>1 DEF Enqueue, EnqueueShared, EnqueueBarrier
  <2>2. Bounds(k)'
    BY <1>0, <1>1 DEF Enqueue, EnqueueShared, EnqueueBarrier
  <2> QED
    BY <2>1, <2>2
<1>2. ASSUME NEW i \in Item, ClaimWork(i) PROVE Sum(k)' /\ Bounds(k)'
  <2>1. CASE k = i
    <3>1. attempts[k] < policy[k].maxAttempts
      BY <1>2, <2>1, <1>0, ArmedFacts, WaitingHasAttempt DEF ClaimWork
    <3>2. /\ status'[k] = "CLAIMED"
          /\ generation'[k] = generation[k] + 1
          /\ attempts'[k] = attempts[k] + 1
          /\ cycle'[k] = cycle[k]
      BY <1>0, <1>2, <2>1 DEF ClaimWork, ArmedStatus
    <3>3. Sum(k)'
      BY <1>0, <3>2
    <3>4. Bounds(k)'
      BY <1>0, <3>1, <3>2
    <3> QED
      BY <3>3, <3>4
  <2>2. CASE k # i
    <3>1. status'[k] = ArmedStatus[k] /\ UNCHANGED <<generation[k], attempts[k], cycle[k]>>
      BY <1>0, <1>2, <2>2 DEF ClaimWork
    <3> QED
      BY <1>0, <3>1, ArmedFacts
  <2> QED
    BY <2>1, <2>2
<1>3. CASE ClaimNothing
  <2>1. status'[k] = ArmedStatus[k] /\ UNCHANGED <<generation[k], attempts[k], cycle[k]>>
    BY <1>3 DEF ClaimNothing
  <2> QED
    BY <1>0, <2>1, ArmedFacts
<1>4. ASSUME NEW i \in Item, Commit(i) PROVE Sum(k)' /\ Bounds(k)'
  <2>1. UNCHANGED <<generation, attempts, cycle>>
    BY <1>4 DEF Commit
  <2>2. Sum(k)'
    BY <1>0, <2>1
  <2>3. CASE k # i
    <3>1. status'[k] = status[k]
      BY <1>0, <1>4, <2>3 DEF Commit, CommitSettled, CommitDeadLetter, CommitRetry
    <3> QED
      BY <1>0, <2>1, <2>2, <3>1
  <2>4. CASE k = i
    <3>1. status[k] = "CLAIMED"
      BY <1>4, <2>4, ClaimedFacts DEF Commit, CommitSettled, CommitDeadLetter, CommitRetry
    <3>2. attempts[k] \in 1..policy[k].maxAttempts
      BY <1>0, <3>1
    <3>3. \/ status'[k] \in {"COMPLETED", "FAILED"}
          \/ status'[k] = "DEAD_LETTER" /\ attempts[k] >= policy[k].maxAttempts
          \/ status'[k] = "RETRY_WAIT" /\ ~(attempts[k] >= policy[k].maxAttempts)
      BY <1>0, <1>4, <2>4 DEF Commit, CommitSettled, CommitDeadLetter, CommitRetry, Exhausted
    <3>4. Bounds(k)'
      BY <1>0, <2>1, <3>2, <3>3
    <3> QED
      BY <2>2, <3>4
  <2> QED
    BY <2>3, <2>4
<1>5. ASSUME NEW S \in SUBSET Item, RecoverExpiredWork(S) PROVE Sum(k)' /\ Bounds(k)'
  <2>1. UNCHANGED <<generation, attempts, cycle>>
    BY <1>5 DEF RecoverExpiredWork
  <2>2. Sum(k)'
    BY <1>0, <2>1
  <2>3. CASE k \notin S
    <3>1. status'[k] = status[k]
      BY <1>5, <2>3 DEF RecoverExpiredWork
    <3> QED
      BY <1>0, <2>1, <2>2, <3>1
  <2>4. CASE k \in S
    <3>1. status[k] = "CLAIMED"
      BY <1>5, <2>4 DEF RecoverExpiredWork, Expired
    <3>2. attempts[k] \in 1..policy[k].maxAttempts
      BY <1>0, <3>1
    <3>3. \/ status'[k] = "DEAD_LETTER" /\ attempts[k] >= policy[k].maxAttempts
          \/ status'[k] = "RETRY_WAIT" /\ ~(attempts[k] >= policy[k].maxAttempts)
      BY <1>5, <2>4 DEF RecoverExpiredWork, Exhausted
    <3>4. attempts'[k] = attempts[k] /\ attempts[k] \in Nat /\ attempts[k] <= policy[k].maxAttempts
      BY <1>0, <2>1, <3>2
    <3>5. Bounds(k)'
      BY <3>3, <3>4
    <3> QED
      BY <2>2, <3>5
  <2> QED
    BY <2>3, <2>4
<1>6. ASSUME NEW i \in Item, RequeueDeadLetter(i) PROVE Sum(k)' /\ Bounds(k)'
  <2>1. CASE k # i
    <3>1. UNCHANGED <<status[k], generation[k], attempts[k], cycle[k]>>
      BY <1>0, <1>6, <2>1 DEF RequeueDeadLetter
    <3> QED
      BY <1>0, <3>1
  <2>2. CASE k = i
    <3>1. /\ status'[k] \in {"QUEUED", "BARRIER_WAIT"}
          /\ generation'[k] = generation[k]
          /\ attempts'[k] = 0
          /\ cycle'[k] = cycle[k] + 1
      BY <1>0, <1>6, <2>2 DEF RequeueDeadLetter, Waiting
    <3>2. attempts[k] = policy[k].maxAttempts
      BY <1>0, <1>6, <2>2 DEF RequeueDeadLetter
    <3>3. Sum(k)'
      BY <1>0, <3>1, <3>2
    <3>4. Bounds(k)'
      BY <3>1
    <3> QED
      BY <3>3, <3>4
  <2> QED
    BY <2>1, <2>2
<1>7. CASE UNCHANGED books
  BY <1>0, <1>7 DEF books
<1> QED
  BY <1>1, <1>2, <1>3, <1>4, <1>5, <1>6, <1>7, StepCases
(***************************************************************************)
(* The token and the open disposition of a row change only together with   *)
(* its claim.                                                              *)
(***************************************************************************)
LEMMA OwnershipStep ==
  ClaimInv /\ [Next]_vars => TokenIsCurrent' /\ OpenTransactionOwnsClaim'
<1> SUFFICES ASSUME ClaimInv, [Next]_vars
             PROVE  TokenIsCurrent' /\ OpenTransactionOwnsClaim'
  OBVIOUS
<1> DEFINE Current(i) == status[i] = "CLAIMED" => token[i] = generation[i]
           Open(i) == txn[i] # NoTxn => Owns(i, txn[i].token) /\ txn[i].token = generation[i]
<1> SUFFICES ASSUME NEW k \in Item PROVE Current(k)' /\ Open(k)'
  BY DEF TokenIsCurrent, OpenTransactionOwnsClaim
<1>0. Current(k) /\ Open(k) /\ TypeOK
  BY DEF ClaimInv, TokenIsCurrent, OpenTransactionOwnsClaim
<1> USE <1>0 DEF TypeOK, Owns, columns, sessions
<1>1. ASSUME NEW i \in Item, Enqueue(i) PROVE Current(k)' /\ Open(k)'
  BY <1>1 DEF Enqueue, EnqueueShared, EnqueueBarrier
<1>2. ASSUME NEW i \in Item, ClaimWork(i) PROVE Current(k)' /\ Open(k)'
  <2>1. txn'[k] = txn[k]
    BY <1>2 DEF ClaimWork
  <2>2. CASE k = i
    <3>1. Waits(k)
      BY <1>2, <2>2, ArmedFacts DEF ClaimWork
    <3>2. status'[k] = "CLAIMED" /\ token'[k] = generation'[k]
      BY <1>2, <2>2 DEF ClaimWork, ArmedStatus
    <3> QED
      BY <2>1, <3>1, <3>2 DEF Waits
  <2>3. CASE k # i
    <3>1. status'[k] = ArmedStatus[k] /\ UNCHANGED <<token[k], generation[k]>>
      BY <1>2, <2>3 DEF ClaimWork
    <3> QED
      BY <2>1, <3>1, ArmedFacts
  <2> QED
    BY <2>2, <2>3
<1>3. CASE ClaimNothing
  <2>1. status'[k] = ArmedStatus[k] /\ UNCHANGED <<token[k], generation[k], txn[k]>>
    BY <1>3 DEF ClaimNothing
  <2> QED
    BY <2>1, ArmedFacts
<1>4. ASSUME NEW i \in Item, NEW g \in 1..generation[i], Handler(i, g)
      PROVE  Current(k)' /\ Open(k)'
  <2>1. CASE RenewWorkLease(i, g)
    BY <2>1 DEF RenewWorkLease
  <2>2. ASSUME NEW joined \in BOOLEAN, CompleteWork(i, g, joined) PROVE Current(k)' /\ Open(k)'
    BY <2>2 DEF CompleteWork, Lock
  <2>3. ASSUME NEW joined \in BOOLEAN, FailWork(i, g, joined) PROVE Current(k)' /\ Open(k)'
    BY <2>3 DEF FailWork, Lock
  <2>4. CASE ScheduleWorkRetryCall(i, g)
    BY <2>4 DEF ScheduleWorkRetryCall
  <2>5. ASSUME NEW joined \in BOOLEAN, ScheduleWorkRetryDecide(i, g, joined)
        PROVE  Current(k)' /\ Open(k)'
    BY <2>5 DEF ScheduleWorkRetryDecide, Lock
  <2> QED
    BY <1>4, <2>1, <2>2, <2>3, <2>4, <2>5 DEF Handler
<1>5. ASSUME NEW i \in Item, Commit(i) PROVE Current(k)' /\ Open(k)'
  <2>1. CASE k = i
    <3>1. txn'[k] = NoTxn /\ status'[k] # "CLAIMED"
      BY <1>5, <2>1 DEF Commit, CommitSettled, CommitDeadLetter, CommitRetry
    <3> QED
      BY <3>1
  <2>2. CASE k # i
    BY <1>5, <2>2 DEF Commit, CommitSettled, CommitDeadLetter, CommitRetry
  <2> QED
    BY <2>1, <2>2
<1>6. ASSUME NEW i \in Item, Rollback(i) PROVE Current(k)' /\ Open(k)'
  BY <1>6 DEF Rollback
<1>7. ASSUME NEW S \in SUBSET Item, RecoverExpiredWork(S) PROVE Current(k)' /\ Open(k)'
  BY <1>7 DEF RecoverExpiredWork, Expired, Unlocked
<1>8. ASSUME NEW i \in Item, RequeueDeadLetter(i) PROVE Current(k)' /\ Open(k)'
  BY <1>8 DEF RequeueDeadLetter, Waiting
<1>9. ASSUME NEW t \in WorkType, RegisterWorkType(t) \/ DisableWorkType(t) PROVE Current(k)' /\ Open(k)'
  BY <1>9 DEF RegisterWorkType, DisableWorkType
<1>10. CASE Tick
  BY <1>10 DEF Tick
<1>11. CASE UNCHANGED vars
  BY <1>11 DEF vars
<1> QED
  BY <1>1, <1>2, <1>3, <1>4, <1>5, <1>6, <1>7, <1>8, <1>9, <1>10, <1>11 DEF Next

(***************************************************************************)
(* ClaimInv holds in every reachable state.                                *)
(***************************************************************************)
THEOREM ClaimInvariant == Spec => []ClaimInv
<1>1. ClaimInv /\ [Next]_vars => ClaimInv'
  BY TypeStep, LedgerStep, OwnershipStep DEF ClaimInv
<1> QED
  BY <1>1, ClaimInvInit, PTL DEF Spec

(***************************************************************************)
(* Every column of the queue stays in its type.                            *)
(***************************************************************************)
THEOREM TypeCorrect == Spec => []TypeOK
<1>1. ClaimInv => TypeOK
  BY DEF ClaimInv
<1> QED
  BY <1>1, ClaimInvariant, PTL

(***************************************************************************)
(* Every claim is counted in exactly one retry cycle, however retries,     *)
(* recoveries and requeues follow each other.                              *)
(***************************************************************************)
THEOREM AttemptsAreCounted == Spec => []AttemptLedger
<1>1. ClaimInv => AttemptLedger
  BY DEF ClaimInv
<1> QED
  BY <1>1, ClaimInvariant, PTL

(***************************************************************************)
(* A disposition that passed its checks owns the claim until its           *)
(* transaction ends.                                                       *)
(***************************************************************************)
THEOREM DispositionKeepsClaim == Spec => []OpenTransactionOwnsClaim
<1>1. ClaimInv => OpenTransactionOwnsClaim
  BY DEF ClaimInv
<1> QED
  BY <1>1, ClaimInvariant, PTL
-----------------------------------------------------------------------------
(***************************************************************************)
(* Exclusion in a group. A barrier starts beside a claimed normal item     *)
(* only if the item escaped its snapshot, so exclusion is inductive        *)
(* together with the coverage of waiting barriers.                         *)
(***************************************************************************)
GroupInv == BarrierExclusion /\ WaitingBarrierCovered

LEMMA GroupInvInit == Init => GroupInv
  BY DEF Init, GroupInv, BarrierExclusion, WaitingBarrierCovered

(***************************************************************************)
(* Re-arming keeps waiting barriers covered, in the new epoch.             *)
(***************************************************************************)
LEMMA ArmedCovered ==
  ASSUME TypeOK, WaitingBarrierCovered,
         NEW b \in Item, NEW j \in Item,
         IsBarrier(b), ArmedStatus[b] = "BARRIER_WAIT",
         ~IsBarrier(j), SameGroup(b, j), status[j] = "CLAIMED"
  PROVE  <<b, ArmedEpoch[b], j, generation[j]>> \in ArmedBlockers
<1>1. CASE b \in DueBarriers
  <2>1. <<b, epoch[b] + 1, j, generation[j]>> \in Capture(b, epoch[b] + 1)
    BY DEF Capture, SameGroup
  <2>2. ArmedEpoch[b] = epoch[b] + 1
    BY <1>1 DEF ArmedEpoch
  <2> QED
    BY <1>1, <2>1, <2>2 DEF ArmedBlockers
<1>2. CASE b \notin DueBarriers
  <2>1. status[b] = "BARRIER_WAIT" /\ ArmedEpoch[b] = epoch[b]
    BY <1>2 DEF ArmedStatus, ArmedEpoch
  <2> QED
    BY <2>1 DEF WaitingBarrierCovered, ArmedBlockers
<1> QED
  BY <1>1, <1>2

(***************************************************************************)
(* A candidate may run beside everything that is claimed.                  *)
(***************************************************************************)
LEMMA CandidateFits ==
  ASSUME TypeOK, WaitingBarrierCovered,
         NEW i \in Candidates, NEW j \in Item, status[j] = "CLAIMED"
  PROVE  MayOverlap(i, j) /\ MayOverlap(j, i)
<1> i \in Item
  BY DEF Candidates
<1>1. ArmedStatus[j] = "CLAIMED"
  BY DEF ArmedStatus, DueBarriers
<1>2. CASE SharedClaimable(i)
  BY <1>1, <1>2 DEF SharedClaimable, MayOverlap, SameGroup
<1>3. CASE BarrierClaimable(i)
  <2>1. CASE ~IsBarrier(j) /\ SameGroup(i, j)
    <3>1. <<i, ArmedEpoch[i], j, generation[j]>> \in ArmedBlockers
      BY <1>3, <2>1, ArmedCovered DEF BarrierClaimable
    <3> QED
      BY <1>3, <3>1 DEF BarrierClaimable
  <2>2. CASE IsBarrier(j) /\ SameGroup(i, j)
    BY <1>3, <2>2 DEF BarrierClaimable, MayOverlap, SameGroup, SamePriority
  <2>3. CASE ~SameGroup(i, j)
    BY <2>3 DEF MayOverlap, SameGroup
  <2> QED
    BY <2>1, <2>2, <2>3
<1> QED
  BY <1>2, <1>3 DEF Candidates

LEMMA ExclusionStep ==
  ClaimInv /\ GroupInv /\ [Next]_vars => BarrierExclusion'
<1> SUFFICES ASSUME ClaimInv, GroupInv, [Next]_vars,
                    NEW i \in Item, NEW j \in Item, i # j,
                    status'[i] = "CLAIMED", status'[j] = "CLAIMED"
             PROVE  MayOverlap(i, j)
  BY DEF BarrierExclusion, MayOverlap, SameGroup, SamePriority, IsBarrier
<1> USE DEF ClaimInv, TypeOK, GroupInv
<1>1. CASE status[i] = "CLAIMED" /\ status[j] = "CLAIMED"
  BY <1>1 DEF BarrierExclusion
<1>2. ASSUME NEW k \in Item, ClaimWork(k) PROVE MayOverlap(i, j)
  <2>1. k \in Candidates
    BY <1>2 DEF ClaimWork
  <2>2. ASSUME NEW l \in {i, j}, l # k PROVE status[l] = "CLAIMED"
    BY <1>2, <2>2, ArmedFacts DEF ClaimWork
  <2> QED
    BY <1>1, <2>1, <2>2, CandidateFits
<1>3. (~\E k \in Item : ClaimWork(k)) => status[i] = "CLAIMED" /\ status[j] = "CLAIMED"
  <2> SUFFICES ASSUME NEW l \in Item, status'[l] = "CLAIMED", ~\E k \in Item : ClaimWork(k)
               PROVE  status[l] = "CLAIMED"
    OBVIOUS
  <2>1. ASSUME NEW k \in Item, Enqueue(k) PROVE status[l] = "CLAIMED"
    BY <2>1 DEF Enqueue, EnqueueShared, EnqueueBarrier
  <2>2. CASE ClaimNothing
    BY <2>2, ArmedFacts DEF ClaimNothing
  <2>3. ASSUME NEW k \in Item, Commit(k) PROVE status[l] = "CLAIMED"
    BY <2>3 DEF Commit, CommitSettled, CommitDeadLetter, CommitRetry
  <2>4. ASSUME NEW S \in SUBSET Item, RecoverExpiredWork(S) PROVE status[l] = "CLAIMED"
    BY <2>4 DEF RecoverExpiredWork
  <2>5. ASSUME NEW k \in Item, RequeueDeadLetter(k) PROVE status[l] = "CLAIMED"
    BY <2>5 DEF RequeueDeadLetter, Waiting
  <2>6. CASE UNCHANGED books
    BY <2>6 DEF books
  <2> QED
    BY <2>1, <2>2, <2>3, <2>4, <2>5, <2>6, StepCases
<1> QED
  BY <1>1, <1>2, <1>3

LEMMA CoverageStep ==
  ClaimInv /\ GroupInv /\ [Next]_vars => WaitingBarrierCovered'
<1> SUFFICES ASSUME ClaimInv, GroupInv, [Next]_vars,
                    NEW b \in Item, NEW j \in Item,
                    IsBarrier(b), status'[b] = "BARRIER_WAIT",
                    ~IsBarrier(j), SameGroup(b, j), status'[j] = "CLAIMED"
             PROVE  <<b, epoch'[b], j, generation'[j]>> \in blockers'
  BY DEF WaitingBarrierCovered, SameGroup, IsBarrier
<1> USE DEF ClaimInv, TypeOK, GroupInv
<1> b # j
  OBVIOUS
<1>0. \A e : status[j] = "CLAIMED" => <<b, e, j, generation[j]>> \in Capture(b, e)
  BY DEF Capture, SameGroup
<1>1. ASSUME NEW i \in Item, Enqueue(i) PROVE <<b, epoch'[b], j, generation'[j]>> \in blockers'
  <2>1. status[j] = "CLAIMED" /\ generation' = generation
    BY <1>1 DEF Enqueue, EnqueueShared, EnqueueBarrier
  <2>2. CASE b = i
    BY <1>0, <1>1, <2>1, <2>2 DEF Enqueue, EnqueueShared, EnqueueBarrier
  <2>3. CASE b # i
    <3>1. status[b] = "BARRIER_WAIT" /\ epoch'[b] = epoch[b] /\ blockers \subseteq blockers'
      BY <1>1, <2>3 DEF Enqueue, EnqueueShared, EnqueueBarrier
    <3> QED
      BY <2>1, <3>1 DEF WaitingBarrierCovered
  <2> QED
    BY <2>2, <2>3
<1>2. ASSUME NEW i \in Item, ClaimWork(i) PROVE <<b, epoch'[b], j, generation'[j]>> \in blockers'
  <2>1. b # i /\ ArmedStatus[b] = "BARRIER_WAIT"
    BY <1>2 DEF ClaimWork, ArmedStatus
  <2>2. j # i
    <3> SUFFICES ASSUME j = i PROVE FALSE
      OBVIOUS
    <3>1. SharedClaimable(j)
      BY <1>2 DEF ClaimWork, Candidates, BarrierClaimable
    <3> QED
      BY <2>1, <3>1 DEF SharedClaimable, SameGroup
  <2>3. status[j] = "CLAIMED" /\ generation'[j] = generation[j]
    BY <1>2, <2>2, ArmedFacts DEF ClaimWork
  <2>4. <<b, ArmedEpoch[b], j, generation[j]>> \in ArmedBlockers
    BY <2>1, <2>3, ArmedCovered
  <2> QED
    BY <1>2, <2>3, <2>4 DEF ClaimWork
<1>3. CASE ClaimNothing
  <2>1. status[j] = "CLAIMED" /\ ArmedStatus[b] = "BARRIER_WAIT" /\ generation' = generation
    BY <1>3, ArmedFacts DEF ClaimNothing
  <2>2. <<b, ArmedEpoch[b], j, generation[j]>> \in ArmedBlockers
    BY <2>1, ArmedCovered
  <2> QED
    BY <1>3, <2>1, <2>2 DEF ClaimNothing
<1>4. ASSUME NEW i \in Item, Commit(i) PROVE <<b, epoch'[b], j, generation'[j]>> \in blockers'
  <2>1. status[b] = "BARRIER_WAIT" /\ status[j] = "CLAIMED"
    BY <1>4 DEF Commit, CommitSettled, CommitDeadLetter, CommitRetry
  <2> QED
    BY <1>4, <2>1 DEF Commit, WaitingBarrierCovered
<1>5. ASSUME NEW S \in SUBSET Item, RecoverExpiredWork(S)
      PROVE  <<b, epoch'[b], j, generation'[j]>> \in blockers'
  <2>1. status[b] = "BARRIER_WAIT" /\ status[j] = "CLAIMED"
    BY <1>5 DEF RecoverExpiredWork
  <2> QED
    BY <1>5, <2>1 DEF RecoverExpiredWork, WaitingBarrierCovered
<1>6. ASSUME NEW i \in Item, RequeueDeadLetter(i)
      PROVE  <<b, epoch'[b], j, generation'[j]>> \in blockers'
  <2>1. status[j] = "CLAIMED" /\ generation' = generation
    BY <1>6 DEF RequeueDeadLetter, Waiting
  <2>2. CASE b = i
    BY <1>0, <1>6, <2>1, <2>2 DEF RequeueDeadLetter
  <2>3. CASE b # i
    <3>1. status[b] = "BARRIER_WAIT" /\ epoch'[b] = epoch[b] /\ blockers \subseteq blockers'
      BY <1>6, <2>3 DEF RequeueDeadLetter
    <3> QED
      BY <2>1, <3>1 DEF WaitingBarrierCovered
  <2> QED
    BY <2>2, <2>3
<1>7. CASE UNCHANGED books
  BY <1>7 DEF books, WaitingBarrierCovered
<1> QED
  BY <1>1, <1>2, <1>3, <1>4, <1>5, <1>6, <1>7, StepCases

(***************************************************************************)
(* GroupInv holds in every reachable state.                                *)
(***************************************************************************)
THEOREM GroupInvariant == Spec => []GroupInv
<1>1. ClaimInv /\ GroupInv /\ [Next]_vars => GroupInv'
  BY ExclusionStep, CoverageStep DEF GroupInv
<1> QED
  BY <1>1, GroupInvInit, ClaimInvariant, PTL DEF Spec

(***************************************************************************)
(* A claimed barrier has its group to itself and its peers.                *)
(***************************************************************************)
THEOREM BarriersExclude == Spec => []BarrierExclusion
<1>1. GroupInv => BarrierExclusion
  BY DEF GroupInv
<1> QED
  BY <1>1, GroupInvariant, PTL

(***************************************************************************)
(* No claimed normal item escapes the snapshot of a waiting barrier.       *)
(***************************************************************************)
THEOREM BarriersCover == Spec => []WaitingBarrierCovered
<1>1. GroupInv => WaitingBarrierCovered
  BY DEF GroupInv
<1> QED
  BY <1>1, GroupInvariant, PTL
-----------------------------------------------------------------------------
(***************************************************************************)
(* The primary key of the blocker rows.                                    *)
(***************************************************************************)
LEMMA ClaimedGeneration ==
  ASSUME ClaimInv, NEW i \in Item, status[i] = "CLAIMED"
  PROVE  generation[i] \in Nat \ {0}
<1>1. attempts[i] \in 1..policy[i].maxAttempts /\ attempts[i] \in Nat
  BY DEF ClaimInv, AttemptLedger, TypeOK
<1>2. generation[i] = (cycle[i] - 1) * policy[i].maxAttempts + attempts[i]
  BY DEF ClaimInv, AttemptLedger
<1>3. cycle[i] - 1 \in Nat /\ policy[i].maxAttempts \in Nat
  BY BoundsAssumption, PolicyType DEF BoundsAssumption, ClaimInv, TypeOK
<1>4. ASSUME NEW c \in Nat, NEW m \in Nat, NEW a \in Nat \ {0} PROVE c * m + a \in Nat \ {0}
  <2>1. c * m \in Nat
    OBVIOUS
  <2> QED
    BY <2>1
<1>5. attempts[i] \in Nat \ {0}
  BY <1>1, PolicyType
<1> QED
  BY <1>2, <1>3, <1>4, <1>5

(***************************************************************************)
(* A row that is not there yet has no epoch that its first capture could   *)
(* repeat.                                                                 *)
(***************************************************************************)
AbsentHasNoEpoch == \A i \in Item : status[i] = "ABSENT" => epoch[i] = 0
CaptureInv == NextCaptureIsFresh /\ AbsentHasNoEpoch

LEMMA CaptureInvInit == Init => CaptureInv
  BY DEF Init, CaptureInv, NextCaptureIsFresh, AbsentHasNoEpoch

LEMMA AbsentStep == ClaimInv /\ CaptureInv /\ [Next]_vars => AbsentHasNoEpoch'
<1> SUFFICES ASSUME ClaimInv, CaptureInv, [Next]_vars,
                    NEW j \in Item, status'[j] = "ABSENT"
             PROVE  epoch'[j] = 0
  BY DEF AbsentHasNoEpoch
<1> USE DEF ClaimInv, TypeOK, CaptureInv, AbsentHasNoEpoch
<1>1. ASSUME NEW i \in Item, Enqueue(i) PROVE epoch'[j] = 0
  BY <1>1 DEF Enqueue, EnqueueShared, EnqueueBarrier
<1>2. ASSUME NEW i \in Item, ClaimWork(i) PROVE epoch'[j] = 0
  BY <1>2 DEF ClaimWork, ArmedStatus, ArmedEpoch
<1>3. CASE ClaimNothing
  BY <1>3 DEF ClaimNothing, ArmedStatus, ArmedEpoch
<1>4. ASSUME NEW i \in Item, Commit(i) PROVE epoch'[j] = 0
  BY <1>4 DEF Commit, CommitSettled, CommitDeadLetter, CommitRetry
<1>5. ASSUME NEW S \in SUBSET Item, RecoverExpiredWork(S) PROVE epoch'[j] = 0
  BY <1>5 DEF RecoverExpiredWork
<1>6. ASSUME NEW i \in Item, RequeueDeadLetter(i) PROVE epoch'[j] = 0
  BY <1>6 DEF RequeueDeadLetter, Waiting
<1>7. CASE UNCHANGED books
  BY <1>7 DEF books
<1> QED
  BY <1>1, <1>2, <1>3, <1>4, <1>5, <1>6, <1>7, StepCases

LEMMA FreshStep ==
  ClaimInv /\ CaptureInv /\ [Next]_vars => NextCaptureIsFresh'
<1> SUFFICES ASSUME ClaimInv, CaptureInv, [Next]_vars, NEW r \in blockers'
             PROVE  r[2] \in 1..epoch'[r[1]] /\ r[4] \in 1..generation'[r[3]]
  BY DEF NextCaptureIsFresh
<1> USE DEF ClaimInv, TypeOK, CaptureInv
<1> DEFINE Fresh == r[2] \in 1..epoch'[r[1]] /\ r[4] \in 1..generation'[r[3]]
<1>1. ASSUME r \in blockers,
             \A i \in Item : epoch'[i] \in Nat /\ epoch[i] <= epoch'[i],
             \A i \in Item : generation'[i] \in Nat /\ generation[i] <= generation'[i]
      PROVE  Fresh
  <2>1. r[1] \in Item /\ r[3] \in Item
    BY <1>1
  <2>2. r[2] \in 1..epoch[r[1]] /\ r[4] \in 1..generation[r[3]]
    BY <1>1 DEF NextCaptureIsFresh
  <2> QED
    BY <1>1, <2>1, <2>2
<1>2. ASSUME NEW b \in Item, NEW e \in Nat \ {0}, r \in Capture(b, e), epoch'[b] = e,
             \A i \in Item : generation'[i] \in Nat /\ generation[i] <= generation'[i]
      PROVE  Fresh
  <2>1. PICK j \in Item : status[j] = "CLAIMED" /\ r = <<b, e, j, generation[j]>>
    BY <1>2 DEF Capture
  <2>2. generation[j] \in Nat \ {0}
    BY <2>1, ClaimedGeneration
  <2> QED
    BY <1>2, <2>1, <2>2
<1>3. ASSUME NEW i \in Item, Enqueue(i) PROVE Fresh
  <2>1. CASE r \in blockers
    BY <1>1, <1>3, <2>1 DEF Enqueue, EnqueueShared, EnqueueBarrier, AbsentHasNoEpoch
  <2>2. CASE r \notin blockers
    <3>1. r \in Capture(i, 1) /\ epoch'[i] = 1
      BY <1>3, <2>2 DEF Enqueue, EnqueueShared, EnqueueBarrier
    <3> QED
      BY <1>2, <1>3, <3>1 DEF Enqueue, EnqueueShared, EnqueueBarrier
  <2> QED
    BY <2>1, <2>2
<1>4. ASSUME epoch' = ArmedEpoch, blockers' = ArmedBlockers,
             \A i \in Item : generation'[i] \in Nat /\ generation[i] <= generation'[i]
      PROVE  Fresh
  <2>1. CASE r \in blockers
    <3>1. \A i \in Item : epoch'[i] \in Nat /\ epoch[i] <= epoch'[i]
      BY <1>4 DEF ArmedEpoch
    <3> QED
      BY <1>1, <1>4, <2>1, <3>1
  <2>2. CASE r \notin blockers
    <3>1. PICK b \in DueBarriers : r \in Capture(b, epoch[b] + 1)
      BY <1>4, <2>2 DEF ArmedBlockers
    <3>2. b \in Item /\ epoch'[b] = epoch[b] + 1
      BY <1>4 DEF ArmedEpoch, DueBarriers
    <3> QED
      BY <1>2, <1>4, <3>1, <3>2
  <2> QED
    BY <2>1, <2>2
<1>5. ASSUME NEW i \in Item, ClaimWork(i) PROVE Fresh
  BY <1>4, <1>5 DEF ClaimWork
<1>6. CASE ClaimNothing
  BY <1>4, <1>6 DEF ClaimNothing
<1>7. ASSUME NEW i \in Item, Commit(i) PROVE Fresh
  BY <1>1, <1>7 DEF Commit
<1>8. ASSUME NEW S \in SUBSET Item, RecoverExpiredWork(S) PROVE Fresh
  BY <1>1, <1>8 DEF RecoverExpiredWork
<1>9. ASSUME NEW i \in Item, RequeueDeadLetter(i) PROVE Fresh
  <2>1. CASE r \in blockers
    BY <1>1, <1>9, <2>1 DEF RequeueDeadLetter
  <2>2. CASE r \notin blockers
    <3>1. r \in Capture(i, epoch[i] + 1) /\ epoch'[i] = epoch[i] + 1
      BY <1>9, <2>2 DEF RequeueDeadLetter
    <3> QED
      BY <1>2, <1>9, <3>1 DEF RequeueDeadLetter
  <2> QED
    BY <2>1, <2>2
<1>10. CASE UNCHANGED books
  BY <1>1, <1>10 DEF books
<1> QED
  BY <1>3, <1>5, <1>6, <1>7, <1>8, <1>9, <1>10, StepCases

(***************************************************************************)
(* A capture never collides with the blocker rows that are already stored. *)
(***************************************************************************)
THEOREM CapturesAreFresh == Spec => []NextCaptureIsFresh
<1>1. ClaimInv /\ CaptureInv /\ [Next]_vars => CaptureInv'
  BY AbsentStep, FreshStep DEF CaptureInv
<1>2. CaptureInv => NextCaptureIsFresh
  BY DEF CaptureInv
<1> QED
  BY <1>1, <1>2, CaptureInvInit, ClaimInvariant, PTL DEF Spec

-----------------------------------------------------------------------------
(***************************************************************************)
(* COMPLETED and FAILED are final.                                         *)
(***************************************************************************)
THEOREM ResultsAreFinal == Spec => SettledIsFinal
<1>1. ClaimInv /\ [Next]_vars =>
        \A i \in Item : status[i] \in {"COMPLETED", "FAILED"} => status'[i] = status[i]
  <2> SUFFICES ASSUME ClaimInv, [Next]_vars, NEW i \in Item, status[i] \in {"COMPLETED", "FAILED"}
               PROVE  status'[i] = status[i]
    OBVIOUS
  <2> USE DEF ClaimInv, TypeOK
  <2>1. ASSUME NEW k \in Item, Enqueue(k) PROVE status'[i] = status[i]
    BY <2>1 DEF Enqueue, EnqueueShared, EnqueueBarrier
  <2>2. ASSUME NEW k \in Item, ClaimWork(k) PROVE status'[i] = status[i]
    <3>1. k # i
      BY <2>2, ArmedFacts DEF ClaimWork, Waits
    <3> QED
      BY <2>2, <3>1, ArmedFacts DEF ClaimWork
  <2>3. CASE ClaimNothing
    BY <2>3, ArmedFacts DEF ClaimNothing
  <2>4. ASSUME NEW k \in Item, Commit(k) PROVE status'[i] = status[i]
    <3>1. k # i
      BY <2>4, ClaimedFacts DEF Commit, CommitSettled, CommitDeadLetter, CommitRetry
    <3> QED
      BY <2>4, <3>1 DEF Commit, CommitSettled, CommitDeadLetter, CommitRetry
  <2>5. ASSUME NEW S \in SUBSET Item, RecoverExpiredWork(S) PROVE status'[i] = status[i]
    BY <2>5 DEF RecoverExpiredWork, Expired
  <2>6. ASSUME NEW k \in Item, RequeueDeadLetter(k) PROVE status'[i] = status[i]
    BY <2>6 DEF RequeueDeadLetter
  <2>7. CASE UNCHANGED books
    BY <2>7 DEF books
  <2> QED
    BY <2>1, <2>2, <2>3, <2>4, <2>5, <2>6, <2>7, StepCases
<1> QED
  BY <1>1, ClaimInvariant, PTL DEF Spec, SettledIsFinal

(***************************************************************************)
(* A live claim ends only by its holder's disposition.                     *)
(***************************************************************************)
THEOREM LiveClaimsAreKept == Spec => LiveClaimIsHolders
<1>1. ClaimInv /\ [Next]_vars =>
        \A i \in Item :
          /\ status[i] = "CLAIMED"
          /\ lease[i] > 0
          /\ status'[i] # "CLAIMED" \/ token'[i] # token[i]
          => txn[i].token = token[i]
  <2> SUFFICES ASSUME ClaimInv, [Next]_vars, NEW i \in Item,
                      status[i] = "CLAIMED", lease[i] > 0,
                      txn[i].token # token[i]
               PROVE  status'[i] = "CLAIMED" /\ token'[i] = token[i]
    OBVIOUS
  <2> USE DEF ClaimInv, TypeOK
  <2>1. ASSUME NEW k \in Item, Enqueue(k) PROVE status'[i] = "CLAIMED" /\ token'[i] = token[i]
    BY <2>1 DEF Enqueue, EnqueueShared, EnqueueBarrier
  <2>2. ASSUME NEW k \in Item, ClaimWork(k) PROVE status'[i] = "CLAIMED" /\ token'[i] = token[i]
    <3>1. k # i
      BY <2>2, ArmedFacts DEF ClaimWork, Waits
    <3> QED
      BY <2>2, <3>1, ArmedFacts DEF ClaimWork
  <2>3. CASE ClaimNothing
    BY <2>3, ArmedFacts DEF ClaimNothing
  <2>4. ASSUME NEW k \in Item, Commit(k) PROVE status'[i] = "CLAIMED" /\ token'[i] = token[i]
    <3>1. txn[k] # NoTxn
      BY <2>4, ClaimedFacts DEF Commit, CommitSettled, CommitDeadLetter, CommitRetry
    <3>2. k # i
      BY <3>1 DEF OpenTransactionOwnsClaim, Owns
    <3> QED
      BY <2>4, <3>2 DEF Commit, CommitSettled, CommitDeadLetter, CommitRetry
  <2>5. ASSUME NEW S \in SUBSET Item, RecoverExpiredWork(S)
        PROVE  status'[i] = "CLAIMED" /\ token'[i] = token[i]
    <3>1. i \notin S
      BY <2>5 DEF RecoverExpiredWork, Expired
    <3> QED
      BY <2>5, <3>1 DEF RecoverExpiredWork
  <2>6. ASSUME NEW k \in Item, RequeueDeadLetter(k)
        PROVE  status'[i] = "CLAIMED" /\ token'[i] = token[i]
    BY <2>6 DEF RequeueDeadLetter
  <2>7. CASE UNCHANGED books
    BY <2>7 DEF books
  <2> QED
    BY <2>1, <2>2, <2>3, <2>4, <2>5, <2>6, <2>7, StepCases
<1> QED
  BY <1>1, ClaimInvariant, PTL DEF Spec, LiveClaimIsHolders
-----------------------------------------------------------------------------
(***************************************************************************)
(* The queue implements the groups its callers see. Phases stands for the  *)
(* barred variable phase; a step maps to the action of WorkGroups of the   *)
(* same meaning, or to a stutter.                                          *)
(***************************************************************************)
Phases == [i \in Item |-> PhaseOf(status[i])]

LEMMA PhaseFacts ==
  /\ PhaseOf("ABSENT") = "absent"
  /\ PhaseOf("QUEUED") = "waiting"
  /\ PhaseOf("BARRIER_WAIT") = "waiting"
  /\ PhaseOf("RETRY_WAIT") = "waiting"
  /\ PhaseOf("CLAIMED") = "running"
  /\ PhaseOf("COMPLETED") = "settled"
  /\ PhaseOf("FAILED") = "settled"
  /\ PhaseOf("DEAD_LETTER") = "dead"
  BY DEF PhaseOf

LEMMA RunningIsClaimed ==
  ASSUME TypeOK, NEW i \in Item
  PROVE  PhaseOf(status[i]) = "running" <=> status[i] = "CLAIMED"
<1>1. status[i] \in Status
  BY DEF TypeOK
<1> QED
  BY <1>1, PhaseFacts DEF Status

LEMMA GroupsInit == Init => Groups!Init
  BY PhaseFacts DEF Init, Groups!Init

LEMMA ArmedPhase ==
  ASSUME TypeOK, NEW i \in Item
  PROVE  PhaseOf(ArmedStatus[i]) = PhaseOf(status[i])
  BY ArmedFacts, PhaseFacts

LEMMA GroupsStep == ClaimInv /\ GroupInv /\ [Next]_vars => [Groups!Next]_Groups!vars
<1> SUFFICES ASSUME ClaimInv, GroupInv, [Next]_vars
             PROVE  Groups!Next \/ UNCHANGED Groups!vars
  OBVIOUS
<1> USE DEF ClaimInv, TypeOK
<1>1. ASSUME NEW i \in Item, Enqueue(i) PROVE Groups!Submit(i)
  <2>1. Phases' = [Phases EXCEPT ![i] = "waiting"]
    BY <1>1, PhaseFacts DEF Phases, Enqueue, EnqueueShared, EnqueueBarrier
  <2>2. Phases[i] = "absent" /\ UNCHANGED <<generation, attempts, cycle>>
    BY <1>1, PhaseFacts DEF Phases, Enqueue, EnqueueShared, EnqueueBarrier
  <2> QED
    BY <2>1, <2>2 DEF Phases, Groups!Submit
<1>2. ASSUME NEW i \in Item, ClaimWork(i) PROVE Groups!Start(i)
  <2>1. i \in Candidates /\ Waits(i)
    BY <1>2, ArmedFacts DEF ClaimWork
  <2>2. PhaseOf(status[i]) = "waiting"
    BY <2>1, PhaseFacts DEF Waits
  <2>3. attempts[i] < policy[i].maxAttempts
    BY <2>1, WaitingHasAttempt
  <2>4. ASSUME NEW j \in Item, PhaseOf(status[j]) = "running" PROVE MayOverlap(i, j)
    BY <2>1, <2>4, CandidateFits, RunningIsClaimed DEF GroupInv
  <2>5. Phases' = [Phases EXCEPT ![i] = "running"]
    <3>1. ASSUME NEW k \in Item, k # i PROVE PhaseOf(status'[k]) = PhaseOf(status[k])
      BY <1>2, <3>1, ArmedPhase DEF ClaimWork
    <3>2. PhaseOf(status'[i]) = "running"
      BY <1>2, PhaseFacts DEF ClaimWork, ArmedStatus
    <3> QED
      BY <3>1, <3>2 DEF Phases
  <2>6. /\ generation' = [generation EXCEPT ![i] = @ + 1]
        /\ attempts' = [attempts EXCEPT ![i] = @ + 1]
        /\ UNCHANGED cycle
    BY <1>2 DEF ClaimWork
  <2> QED
    BY <2>2, <2>3, <2>4, <2>5, <2>6 DEF Phases, Groups!Start
<1>3. ASSUME ClaimNothing PROVE UNCHANGED Groups!vars
  <2>1. Phases' = Phases
    BY <1>3, ArmedPhase DEF Phases, ClaimNothing
  <2> QED
    BY <1>3, <2>1 DEF Phases, ClaimNothing, Groups!vars
<1>4. ASSUME NEW i \in Item, Commit(i) PROVE Groups!Settle(i) \/ Groups!Return({i})
  <2>1. status[i] = "CLAIMED" /\ attempts[i] \in 1..policy[i].maxAttempts
    BY <1>4, ClaimedFacts
    DEF Commit, CommitSettled, CommitDeadLetter, CommitRetry, AttemptLedger
  <2>2. PhaseOf(status[i]) = "running" /\ UNCHANGED <<generation, attempts, cycle>>
    BY <1>4, <2>1, PhaseFacts DEF Commit
  <2>3. CASE CommitSettled(i)
    <3>1. Phases' = [Phases EXCEPT ![i] = "settled"]
      BY <2>3, PhaseFacts DEF Phases, CommitSettled
    <3> QED
      BY <2>2, <3>1 DEF Phases, Groups!Settle
  <2>4. CASE CommitDeadLetter(i)
    <3>1. status' = [status EXCEPT ![i] = "DEAD_LETTER"] /\ ~(attempts[i] < policy[i].maxAttempts)
      BY <2>1, <2>4, PolicyType DEF CommitDeadLetter, Exhausted
    <3>2. \A k \in Item : PhaseOf(status'[k]) = IF k = i THEN "dead" ELSE PhaseOf(status[k])
      BY <3>1, PhaseFacts
    <3> QED
      BY <2>2, <3>1, <3>2 DEF Phases, Groups!Return
  <2>5. CASE CommitRetry(i)
    <3>1. status' = [status EXCEPT ![i] = "RETRY_WAIT"] /\ attempts[i] < policy[i].maxAttempts
      BY <2>1, <2>5, PolicyType DEF CommitRetry, Exhausted
    <3>2. \A k \in Item : PhaseOf(status'[k]) = IF k = i THEN "waiting" ELSE PhaseOf(status[k])
      BY <3>1, PhaseFacts
    <3> QED
      BY <2>2, <3>1, <3>2 DEF Phases, Groups!Return
  <2> QED
    BY <1>4, <2>3, <2>4, <2>5 DEF Commit
<1>5. ASSUME NEW S \in SUBSET Item, RecoverExpiredWork(S) PROVE Groups!Return(S)
  <2>1. \A i \in S : status[i] = "CLAIMED"
    BY <1>5 DEF RecoverExpiredWork, Expired
  <2>2. \A i \in S : PhaseOf(status[i]) = "running"
    BY <2>1, PhaseFacts
  <2>3. ASSUME NEW i \in S PROVE Exhausted(i) <=> ~(attempts[i] < policy[i].maxAttempts)
    BY PolicyType DEF Exhausted
  <2>4. ASSUME NEW i \in Item
        PROVE  PhaseOf(status'[i]) = IF i \notin S THEN PhaseOf(status[i])
                                     ELSE IF attempts[i] < policy[i].maxAttempts THEN "waiting" ELSE "dead"
    BY <1>5, <2>3, PhaseFacts DEF RecoverExpiredWork
  <2>5. UNCHANGED <<generation, attempts, cycle>>
    BY <1>5 DEF RecoverExpiredWork
  <2> QED
    BY <2>2, <2>4, <2>5 DEF Phases, Groups!Return
<1>6. ASSUME NEW i \in Item, RequeueDeadLetter(i) PROVE Groups!Reopen(i)
  <2>1. Phases' = [Phases EXCEPT ![i] = "waiting"]
    BY <1>6, PhaseFacts DEF Phases, RequeueDeadLetter, Waiting
  <2>2. /\ PhaseOf(status[i]) = "dead"
        /\ cycle[i] < MaxCycles
        /\ attempts' = [attempts EXCEPT ![i] = 0]
        /\ cycle' = [cycle EXCEPT ![i] = @ + 1]
        /\ UNCHANGED generation
    BY <1>6, PhaseFacts DEF RequeueDeadLetter
  <2> QED
    BY <2>1, <2>2 DEF Phases, Groups!Reopen
<1>7. ASSUME UNCHANGED books PROVE UNCHANGED Groups!vars
  BY <1>7 DEF books, Groups!vars
<1> QED
  BY <1>1, <1>2, <1>3, <1>4, <1>5, <1>6, <1>7, StepCases DEF Groups!Next

(***************************************************************************)
(* Every behaviour of the queue is a behaviour of WorkGroups.              *)
(***************************************************************************)
THEOREM QueueImplementsGroups == Spec => ImplementsWorkGroups
  BY GroupsInit, GroupsStep, ClaimInvariant, GroupInvariant, PTL
  DEF Spec, ImplementsWorkGroups, Groups!Spec
=============================================================================
