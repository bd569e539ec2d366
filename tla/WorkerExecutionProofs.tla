------------------------- MODULE WorkerExecutionProofs -------------------------
(***************************************************************************)
(* Proofs about WorkerExecution, for every number of items, attempts and   *)
(* workers and all limits.                                                 *)
(***************************************************************************)
EXTENDS WorkerExecution, FiniteSetTheorems, TLAPS

-----------------------------------------------------------------------------
(***************************************************************************)
(* Sessions whose attempt is still to be decided, by a commit or by the    *)
(* record of a rollback.                                                   *)
(***************************************************************************)
Undecided == Open \ {"COMMITTED"}

(***************************************************************************)
(* Sessions that cannot commit any more, or not unless they are bound.     *)
(***************************************************************************)
Quiet == {"IDLE", "RECORDED", "CLOSED"}

(***************************************************************************)
(* What the row of an attempt says of its slot, its item and its witness.  *)
(***************************************************************************)
AttemptInv(r) ==
  /\ state[r] = "ABSENT" => ~occupied[r] /\ phase[r] = "IDLE" /\ r \notin witness
  /\ ~occupied[r] => state[r] \in {"ABSENT", "COMMITTED", "ROLLED_BACK"}
  /\ occupied[r] =>
       /\ reservation[item[r]] = r
       /\ slot[item[r]] = r
       /\ status[item[r]] \in {"CLAIMED", "COMPLETED"}
       /\ state[r] \notin {"ABSENT", "COMMITTED"}
  /\ state[r] = "COMMITTED" => r \in witness /\ status[item[r]] = "COMPLETED"
  /\ state[r] = "ROLLED_BACK" => r \notin witness /\ phase[r] \in Quiet

(***************************************************************************)
(* What a session, or the witness of its commit, keeps others from doing.  *)
(***************************************************************************)
SessionInv(r) ==
  /\ phase[r] \in Undecided => occupied[r] /\ status[item[r]] = "CLAIMED"
  /\ phase[r] \in {"GATED", "COMPLETED"} => ~held[item[r]]
  /\ r \in witness =>
       /\ phase[r] # "IDLE"
       /\ reservation[item[r]] = r
       /\ slot[item[r]] = r
       /\ status[item[r]] \in {"CLAIMED", "COMPLETED"}

(***************************************************************************)
(* What the rows of an item, in both tables, say of its attempts.          *)
(***************************************************************************)
ItemInv(i) ==
  /\ slot[i] # None => item[slot[i]] = i /\ state[slot[i]] # "ABSENT"
  /\ reservation[i] # None => item[reservation[i]] = i /\ state[reservation[i]] # "ABSENT"
  /\ status[i] = "CLAIMED" => reservation[i] # None /\ occupied[reservation[i]]
  /\ status[i] = "COMPLETED" => reservation[i] \in witness /\ ~held[i]

HoldInv(i) ==
  /\ held[i] <=> managedHold[i]
  /\ held[i] => slot[i] # None /\ reservation[i] = slot[i]
  /\ stop[i] = "ROLLED_BACK_HELD" =>
       held[i] /\ slot[i] \notin witness /\ phase[slot[i]] \in Quiet
  /\ stop[i] = "ALREADY_COMMITTED" => slot[i] \in witness /\ status[i] = "COMPLETED"

(***************************************************************************)
(* The inductive invariant.                                                *)
(***************************************************************************)
Inv ==
  /\ TypeOK
  /\ \A r \in Attempt : AttemptInv(r) /\ SessionInv(r)
  /\ \A i \in Item : ItemInv(i) /\ HoldInv(i)

(***************************************************************************)
(* The steps of an executor and its session preserve the invariant. A      *)
(* reservation is made on a waiting item, which no occupied attempt and no *)
(* witness has.                                                            *)
(***************************************************************************)
LEMMA ReserveStep ==
  ASSUME Inv, NEW r \in Attempt, NEW w \in Worker, NEW i \in Item, ReserveWorkerExecution(r, w, i)
  PROVE  Inv'
<1> USE NoneAssumption DEF NoneAssumption
<1>1. TypeOK'
  BY DEF Inv, TypeOK, ReserveWorkerExecution, executors, Status, StopStatus, State
<1>2. ASSUME NEW q \in Attempt PROVE AttemptInv(q)'
  BY DEF Inv, TypeOK, AttemptInv, HoldInv, ReserveWorkerExecution, executors
<1>3. ASSUME NEW q \in Attempt PROVE SessionInv(q)'
  BY DEF Inv, TypeOK, AttemptInv, SessionInv, ReserveWorkerExecution, executors
<1>4. ASSUME NEW j \in Item PROVE ItemInv(j)'
  BY DEF Inv, TypeOK, ItemInv, ReserveWorkerExecution
<1>5. ASSUME NEW j \in Item PROVE HoldInv(j)'
  BY DEF Inv, TypeOK, HoldInv, ReserveWorkerExecution, executors
<1> QED
  BY <1>1, <1>2, <1>3, <1>4, <1>5 DEF Inv

LEMMA BindStep ==
  ASSUME Inv, NEW r \in Attempt, BindWorkerExecution(r)
  PROVE  Inv'
<1> USE NoneAssumption DEF NoneAssumption
<1>1. TypeOK'
  BY DEF Inv, TypeOK, BindWorkerExecution, workItem, disposition, State, Phase, Open
<1>2. ASSUME NEW q \in Attempt PROVE AttemptInv(q)'
  BY DEF Inv, AttemptInv, BindWorkerExecution, workItem, disposition
<1>3. ASSUME NEW q \in Attempt PROVE SessionInv(q)'
  <2>1. CASE q = r
    BY <2>1 DEF Inv, TypeOK, AttemptInv, SessionInv, ItemInv, BindWorkerExecution, workItem
  <2>2. CASE q # r
    BY <2>2 DEF Inv, SessionInv, BindWorkerExecution, workItem, disposition
  <2> QED
    BY <2>1, <2>2
<1>4. ASSUME NEW j \in Item PROVE ItemInv(j)'
  BY DEF Inv, ItemInv, BindWorkerExecution, workItem, disposition
<1>5. ASSUME NEW j \in Item PROVE HoldInv(j)'
  BY DEF Inv, ItemInv, HoldInv, BindWorkerExecution, Held, workItem, disposition
<1> QED
  BY <1>1, <1>2, <1>3, <1>4, <1>5 DEF Inv

LEMMA WitnessStep ==
  ASSUME Inv, NEW r \in Attempt, BeginWorkerTransactionWitness(r)
  PROVE  Inv'
<1> USE NoneAssumption DEF NoneAssumption
<1>1. TypeOK'
  BY DEF Inv, TypeOK, BeginWorkerTransactionWitness, workItem, disposition, attempts, Phase,
     Open, InTransaction
<1>2. ASSUME NEW q \in Attempt PROVE AttemptInv(q)'
  BY DEF Inv, AttemptInv, BeginWorkerTransactionWitness, workItem, disposition, attempts, Quiet
<1>3. ASSUME NEW q \in Attempt PROVE SessionInv(q)'
  BY DEF Inv, TypeOK, SessionInv, BeginWorkerTransactionWitness, workItem, disposition,
     attempts, Phase, Undecided
<1>4. ASSUME NEW j \in Item PROVE ItemInv(j)'
  BY DEF Inv, ItemInv, BeginWorkerTransactionWitness, workItem, disposition, attempts
<1>5. ASSUME NEW j \in Item PROVE HoldInv(j)'
  BY DEF Inv, ItemInv, HoldInv, BeginWorkerTransactionWitness, Held, workItem, disposition
<1> QED
  BY <1>1, <1>2, <1>3, <1>4, <1>5 DEF Inv

LEMMA CommitInHandlerStep ==
  ASSUME Inv, NEW r \in Attempt, CommitInHandler(r)
  PROVE  Inv'
<1> USE NoneAssumption DEF NoneAssumption
<1>1. TypeOK'
  BY DEF Inv, TypeOK, CommitInHandler, workItem, disposition, attempts, executors
<1>2. ASSUME NEW q \in Attempt PROVE AttemptInv(q)'
  BY DEF Inv, AttemptInv, CommitInHandler, workItem, disposition, attempts, executors, Quiet
<1>3. ASSUME NEW q \in Attempt PROVE SessionInv(q)'
  BY DEF Inv, TypeOK, AttemptInv, SessionInv, CommitInHandler, workItem, disposition,
     attempts, executors, Phase, Undecided
<1>4. ASSUME NEW j \in Item PROVE ItemInv(j)'
  BY DEF Inv, ItemInv, CommitInHandler, workItem, disposition, attempts
<1>5. ASSUME NEW j \in Item PROVE HoldInv(j)'
  BY DEF Inv, HoldInv, CommitInHandler, workItem, disposition, executors, Quiet
<1> QED
  BY <1>1, <1>2, <1>3, <1>4, <1>5 DEF Inv

LEMMA BeginCompletionStep ==
  ASSUME Inv, NEW r \in Attempt, BeginWorkerCompletion(r)
  PROVE  Inv'
<1> USE NoneAssumption DEF NoneAssumption
<1>1. TypeOK'
  BY DEF Inv, TypeOK, BeginWorkerCompletion, workItem, disposition, attempts, Phase, Open,
     InTransaction
<1>2. ASSUME NEW q \in Attempt PROVE AttemptInv(q)'
  BY DEF Inv, AttemptInv, BeginWorkerCompletion, workItem, disposition, attempts, Quiet
<1>3. ASSUME NEW q \in Attempt PROVE SessionInv(q)'
  BY DEF Inv, TypeOK, SessionInv, HoldInv, BeginWorkerCompletion, OwnsClaim, workItem,
     disposition, attempts
<1>4. ASSUME NEW j \in Item PROVE ItemInv(j)'
  BY DEF Inv, ItemInv, BeginWorkerCompletion, workItem, disposition, attempts
<1>5. ASSUME NEW j \in Item PROVE HoldInv(j)'
  BY DEF Inv, ItemInv, HoldInv, BeginWorkerCompletion, workItem, disposition
<1> QED
  BY <1>1, <1>2, <1>3, <1>4, <1>5 DEF Inv

LEMMA CompleteStep ==
  ASSUME Inv, NEW r \in Attempt, CompleteWork(r)
  PROVE  Inv'
<1> USE NoneAssumption DEF NoneAssumption
<1>1. TypeOK'
  BY DEF Inv, TypeOK, CompleteWork, workItem, disposition, attempts, Phase, Open,
     InTransaction
<1>2. ASSUME NEW q \in Attempt PROVE AttemptInv(q)'
  BY DEF Inv, AttemptInv, CompleteWork, workItem, disposition, attempts, Quiet
<1>3. ASSUME NEW q \in Attempt PROVE SessionInv(q)'
  BY DEF Inv, TypeOK, SessionInv, ItemInv, CompleteWork, OwnsClaim, workItem, disposition,
     attempts
<1>4. ASSUME NEW j \in Item PROVE ItemInv(j)'
  BY DEF Inv, ItemInv, CompleteWork, workItem, disposition, attempts
<1>5. ASSUME NEW j \in Item PROVE HoldInv(j)'
  BY DEF Inv, ItemInv, HoldInv, CompleteWork, workItem, disposition
<1> QED
  BY <1>1, <1>2, <1>3, <1>4, <1>5 DEF Inv

LEMMA CommitStep ==
  ASSUME Inv, NEW r \in Attempt, Commit(r)
  PROVE  Inv'
<1> USE NoneAssumption DEF NoneAssumption
<1>1. TypeOK'
  BY DEF Inv, TypeOK, Commit, disposition, attempts, Status, Phase, Open
<1>2. ASSUME NEW q \in Attempt PROVE AttemptInv(q)'
  BY DEF Inv, AttemptInv, Commit, disposition, attempts, Quiet
<1>3. ASSUME NEW q \in Attempt PROVE SessionInv(q)'
  BY DEF Inv, TypeOK, AttemptInv, SessionInv, Commit, disposition, attempts, Phase, Undecided
<1>4. ASSUME NEW j \in Item PROVE ItemInv(j)'
  BY DEF Inv, TypeOK, AttemptInv, SessionInv, ItemInv, Commit, disposition, attempts, Phase,
     Undecided
<1>5. ASSUME NEW j \in Item PROVE HoldInv(j)'
  BY DEF Inv, SessionInv, ItemInv, HoldInv, Commit, disposition
<1> QED
  BY <1>1, <1>2, <1>3, <1>4, <1>5 DEF Inv

LEMMA RollbackStep ==
  ASSUME Inv, NEW r \in Attempt, Rollback(r)
  PROVE  Inv'
<1> USE NoneAssumption DEF NoneAssumption
<1>1. TypeOK'
  BY DEF Inv, TypeOK, Rollback, workItem, disposition, attempts, Phase, Open
<1>2. ASSUME NEW q \in Attempt PROVE AttemptInv(q)'
  BY DEF Inv, AttemptInv, Rollback, workItem, disposition, attempts, InTransaction, Quiet
<1>3. ASSUME NEW q \in Attempt PROVE SessionInv(q)'
  BY DEF Inv, TypeOK, SessionInv, Rollback, workItem, disposition, attempts, Phase,
     InTransaction, Undecided
<1>4. ASSUME NEW j \in Item PROVE ItemInv(j)'
  BY DEF Inv, ItemInv, Rollback, workItem, disposition, attempts
<1>5. ASSUME NEW j \in Item PROVE HoldInv(j)'
  BY DEF Inv, HoldInv, Rollback, workItem, disposition, InTransaction, Quiet
<1> QED
  BY <1>1, <1>2, <1>3, <1>4, <1>5 DEF Inv

LEMMA CloseStep ==
  ASSUME Inv, NEW r \in Attempt, CloseSession(r)
  PROVE  Inv'
<1> USE NoneAssumption DEF NoneAssumption
<1>1. TypeOK'
  BY DEF Inv, TypeOK, CloseSession, workItem, disposition, attempts, Phase
<1>2. ASSUME NEW q \in Attempt PROVE AttemptInv(q)'
  BY DEF Inv, AttemptInv, CloseSession, workItem, disposition, attempts, Open, InTransaction,
     Quiet
<1>3. ASSUME NEW q \in Attempt PROVE SessionInv(q)'
  BY DEF Inv, SessionInv, CloseSession, workItem, disposition, attempts, Open, InTransaction,
     Undecided
<1>4. ASSUME NEW j \in Item PROVE ItemInv(j)'
  BY DEF Inv, ItemInv, CloseSession, workItem, disposition, attempts
<1>5. ASSUME NEW j \in Item PROVE HoldInv(j)'
  BY DEF Inv, HoldInv, CloseSession, workItem, disposition, Quiet
<1> QED
  BY <1>1, <1>2, <1>3, <1>4, <1>5 DEF Inv

LEMMA RecordCommitStep ==
  ASSUME Inv, NEW r \in Attempt, RecordWorkerCommit(r)
  PROVE  Inv'
<1> USE NoneAssumption DEF NoneAssumption
<1>1. TypeOK'
  BY DEF Inv, TypeOK, RecordWorkerCommit, EndCommitted, workItem, StopStatus, State, Phase
<1>2. ASSUME NEW q \in Attempt PROVE AttemptInv(q)'
  BY DEF Inv, TypeOK, AttemptInv, ItemInv, RecordWorkerCommit, EndCommitted, Completed,
     workItem
<1>3. ASSUME NEW q \in Attempt PROVE SessionInv(q)'
  BY DEF Inv, SessionInv, RecordWorkerCommit, EndCommitted, workItem, Open, InTransaction,
     Undecided
<1>4. ASSUME NEW j \in Item PROVE ItemInv(j)'
  BY DEF Inv, ItemInv, RecordWorkerCommit, EndCommitted, Completed, workItem
<1>5. ASSUME NEW j \in Item PROVE HoldInv(j)'
  <2>1. CASE j = item[r]
    BY <2>1 DEF Inv, ItemInv, HoldInv, RecordWorkerCommit, EndCommitted, Completed, workItem
  <2>2. CASE j # item[r]
    BY <2>2 DEF Inv, ItemInv, HoldInv, RecordWorkerCommit, EndCommitted, workItem
  <2> QED
    BY <2>1, <2>2
<1> QED
  BY <1>1, <1>2, <1>3, <1>4, <1>5 DEF Inv

(***************************************************************************)
(* The executor's record of a rollback ends a held attempt, or leaves it   *)
(* to the final decision. Without a witness nothing can be committed: the  *)
(* transaction is over.                                                    *)
(***************************************************************************)
LEMMA RecordRollbackStep ==
  ASSUME Inv, NEW r \in Attempt, RecordWorkerRollback(r)
  PROVE  Inv'
<1> USE NoneAssumption DEF NoneAssumption
<1>1. TypeOK'
  <2> SUFFICES ASSUME TypeOK PROVE TypeOK'
    BY DEF Inv
  <2>1. CASE Held(r)
    <3>1. EndHeld(r) /\ phase' = [phase EXCEPT ![r] = "CLOSED"]
      BY <2>1 DEF RecordWorkerRollback
    <3> QED
      BY <3>1 DEF TypeOK, RecordWorkerRollback, EndHeld, Status, StopStatus, State, Phase
  <2>2. CASE ~Held(r)
    BY <2>2 DEF TypeOK, RecordWorkerRollback, workItem, disposition, State, Phase, Open
  <2> QED
    BY <2>1, <2>2
<1>2. ASSUME NEW q \in Attempt PROVE AttemptInv(q)'
  BY DEF Inv, TypeOK, AttemptInv, SessionInv, RecordWorkerRollback, EndHeld, Witnessed,
     workItem, disposition, Quiet
<1>3. ASSUME NEW q \in Attempt PROVE SessionInv(q)'
  BY DEF Inv, TypeOK, AttemptInv, SessionInv, RecordWorkerRollback, EndHeld, Witnessed,
     workItem, disposition, Open, InTransaction, Undecided
<1>4. ASSUME NEW j \in Item PROVE ItemInv(j)'
  BY DEF Inv, TypeOK, ItemInv, RecordWorkerRollback, EndHeld, workItem, disposition
<1>5. ASSUME NEW j \in Item PROVE HoldInv(j)'
  <2>1. CASE Held(r)
    BY <2>1 DEF Inv, TypeOK, AttemptInv, HoldInv, RecordWorkerRollback, EndHeld, Witnessed, Quiet
  <2>2. CASE ~Held(r)
    BY <2>2 DEF Inv, TypeOK, ItemInv, HoldInv, RecordWorkerRollback, Held, workItem, disposition
  <2> QED
    BY <2>1, <2>2
<1> QED
  BY <1>1, <1>2, <1>3, <1>4, <1>5 DEF Inv

LEMMA FinalizeFailureStep ==
  ASSUME Inv, NEW r \in Attempt, FinalizeWorkerFailure(r)
  PROVE  Inv'
<1> USE NoneAssumption DEF NoneAssumption
<1>1. TypeOK'
  <2> SUFFICES ASSUME TypeOK PROVE TypeOK'
    BY DEF Inv
  <2>1. phase' = [phase EXCEPT ![r] = "CLOSED"] /\ UNCHANGED <<witness, paused, gaveUp>>
    BY DEF FinalizeWorkerFailure
  <2>2. CASE EndHeld(r)
    BY <2>1, <2>2 DEF TypeOK, EndHeld, Status, StopStatus, State, Phase
  <2>3. ASSUME NEW outcome \in {"FAILED", "RETRY_WAIT", "DEAD_LETTER"}, EndFailed(r, outcome)
        PROVE  TypeOK'
    BY <2>1, <2>3 DEF TypeOK, EndFailed, disposition, Status, Phase
  <2> QED
    BY <2>2, <2>3 DEF FinalizeWorkerFailure
<1>2. ASSUME NEW q \in Attempt PROVE AttemptInv(q)'
  BY DEF Inv, TypeOK, AttemptInv, SessionInv, FinalizeWorkerFailure, EndHeld, EndFailed,
     disposition, Quiet
<1>3. ASSUME NEW q \in Attempt PROVE SessionInv(q)'
  BY DEF Inv, TypeOK, AttemptInv, SessionInv, FinalizeWorkerFailure, EndHeld, EndFailed,
     disposition, Open, InTransaction, Undecided
<1>4. ASSUME NEW j \in Item PROVE ItemInv(j)'
  BY DEF Inv, TypeOK, ItemInv, FinalizeWorkerFailure, EndHeld, EndFailed, disposition
<1>5. ASSUME NEW j \in Item PROVE HoldInv(j)'
  <2>1. CASE Held(r) \/ ~live[item[r]]
    BY <2>1 DEF Inv, TypeOK, AttemptInv, HoldInv, FinalizeWorkerFailure, EndHeld, Quiet
  <2>2. CASE ~(Held(r) \/ ~live[item[r]])
    BY <2>2 DEF Inv, TypeOK, AttemptInv, ItemInv, HoldInv, FinalizeWorkerFailure, EndFailed,
       disposition
  <2> QED
    BY <2>1, <2>2
<1> QED
  BY <1>1, <1>2, <1>3, <1>4, <1>5 DEF Inv

LEMMA RecordUnknownStep ==
  ASSUME Inv, NEW r \in Attempt, RecordWorkerUnknown(r)
  PROVE  Inv'
<1> USE NoneAssumption DEF NoneAssumption
<1>1. TypeOK'
  BY DEF Inv, TypeOK, RecordWorkerUnknown, workItem, disposition, State
<1>2. ASSUME NEW q \in Attempt PROVE AttemptInv(q)'
  BY DEF Inv, AttemptInv, RecordWorkerUnknown, workItem, disposition
<1>3. ASSUME NEW q \in Attempt PROVE SessionInv(q)'
  BY DEF Inv, SessionInv, RecordWorkerUnknown, workItem, disposition
<1>4. ASSUME NEW j \in Item PROVE ItemInv(j)'
  BY DEF Inv, ItemInv, RecordWorkerUnknown, workItem, disposition
<1>5. ASSUME NEW j \in Item PROVE HoldInv(j)'
  BY DEF Inv, HoldInv, RecordWorkerUnknown, workItem, disposition
<1> QED
  BY <1>1, <1>2, <1>3, <1>4, <1>5 DEF Inv

(***************************************************************************)
(* The steps of operators. A stop that does not find the commit holds the  *)
(* item; the gate keeps out the sessions that could still complete it.     *)
(***************************************************************************)
LEMMA StopStep ==
  ASSUME Inv, NEW r \in Attempt, StopWorkerExecution(r)
  PROVE  Inv'
<1> USE NoneAssumption DEF NoneAssumption
<1>1. TypeOK'
  <2>1. CASE StopCommitted(r)
    BY <2>1 DEF Inv, TypeOK, StopWorkerExecution, StopCommitted, EndCommitted, workItem,
       executors, StopStatus, State
  <2>2. CASE StopAndHold(r)
    BY <2>2 DEF Inv, TypeOK, StopWorkerExecution, StopAndHold, executors, StopStatus, State,
       Undecided, Quiet
  <2> QED
    BY <2>1, <2>2 DEF StopWorkerExecution
<1>2. ASSUME NEW q \in Attempt PROVE AttemptInv(q)'
  BY DEF Inv, TypeOK, AttemptInv, ItemInv, StopWorkerExecution, StopCommitted, StopAndHold,
     EndCommitted, Completed, workItem, executors
<1>3. ASSUME NEW q \in Attempt PROVE SessionInv(q)'
  BY DEF Inv, TypeOK, AttemptInv, SessionInv, StopWorkerExecution, StopCommitted,
     StopAndHold, EndCommitted, Completed, GateFree, workItem, executors, Phase, Undecided
<1>4. ASSUME NEW j \in Item PROVE ItemInv(j)'
  BY DEF Inv, TypeOK, SessionInv, ItemInv, StopWorkerExecution, StopCommitted, StopAndHold,
     EndCommitted, Completed, Witnessed, workItem
<1>5. ASSUME NEW j \in Item PROVE HoldInv(j)'
  <2>1. CASE StopCommitted(r)
    BY <2>1 DEF Inv, ItemInv, HoldInv, StopWorkerExecution, StopCommitted, EndCommitted,
       Completed, workItem, executors
  <2>2. CASE StopAndHold(r)
    BY <2>2 DEF Inv, TypeOK, AttemptInv, SessionInv, HoldInv, StopWorkerExecution, StopAndHold,
       Undisputed, executors
  <2> QED
    BY <2>1, <2>2 DEF StopWorkerExecution
<1> QED
  BY <1>1, <1>2, <1>3, <1>4, <1>5 DEF Inv

(***************************************************************************)
(* A reconciliation knows that no session is bound. It therefore finds the *)
(* transaction of the attempt either committed, with witness and           *)
(* completion, or gone.                                                    *)
(***************************************************************************)
LEMMA ReconcileStep ==
  ASSUME Inv, NEW r \in Attempt, ReconcileWorkerExecution(r)
  PROVE  Inv'
<1> USE NoneAssumption DEF NoneAssumption
<1>1. TypeOK'
  <2>1. CASE ReconcileCommitted(r)
    BY <2>1 DEF Inv, TypeOK, ReconcileWorkerExecution, ReconcileCommitted, EndCommitted,
       executors, StopStatus, State
  <2>2. CASE ReconcileRolledBack(r)
    BY <2>2 DEF Inv, TypeOK, ReconcileWorkerExecution, ReconcileRolledBack, EndHeld, executors,
       Status, StopStatus, State
  <2>3. CASE ReconcileUnknown(r)
    BY <2>3 DEF Inv, TypeOK, ReconcileWorkerExecution, ReconcileUnknown, executors, StopStatus,
       State
  <2> QED
    BY <2>1, <2>2, <2>3 DEF ReconcileWorkerExecution
<1>2. ASSUME NEW q \in Attempt PROVE AttemptInv(q)'
  BY DEF Inv, TypeOK, AttemptInv, SessionInv, ReconcileWorkerExecution, ReconcileCommitted,
     ReconcileRolledBack, ReconcileUnknown, EndCommitted, EndHeld, Completed, Witnessed,
     Ended, AttemptLockFree, executors, Phase, Quiet
<1>3. ASSUME NEW q \in Attempt PROVE SessionInv(q)'
  BY DEF Inv, TypeOK, AttemptInv, SessionInv, ReconcileWorkerExecution, ReconcileCommitted,
     ReconcileRolledBack, ReconcileUnknown, EndCommitted, EndHeld, Witnessed,
     AttemptLockFree, executors, Phase, Undecided
<1>4. ASSUME NEW j \in Item PROVE ItemInv(j)'
  BY DEF Inv, TypeOK, SessionInv, ItemInv, ReconcileWorkerExecution, ReconcileCommitted,
     ReconcileRolledBack, ReconcileUnknown, EndCommitted, EndHeld, Completed, Witnessed
<1>5. ASSUME NEW j \in Item PROVE HoldInv(j)'
  <2>1. CASE ReconcileCommitted(r)
    BY <2>1 DEF Inv, ItemInv, HoldInv, ReconcileWorkerExecution, ReconcileCommitted,
       EndCommitted, Completed, executors
  <2>2. CASE ReconcileRolledBack(r)
    BY <2>2 DEF Inv, TypeOK, HoldInv, ReconcileWorkerExecution, ReconcileRolledBack, EndHeld,
       OwnsClaim, Witnessed, AttemptLockFree, executors, Phase, Quiet
  <2>3. CASE ReconcileUnknown(r)
    BY <2>3 DEF Inv, TypeOK, AttemptInv, HoldInv, ReconcileWorkerExecution, ReconcileUnknown,
       Ended, executors
  <2> QED
    BY <2>1, <2>2, <2>3 DEF ReconcileWorkerExecution
<1> QED
  BY <1>1, <1>2, <1>3, <1>4, <1>5 DEF Inv

(***************************************************************************)
(* At the beginning there are no rows.                                     *)
(***************************************************************************)
LEMMA InvInit == Init => Inv
<1> USE NoneAssumption, SetsAssumption DEF NoneAssumption, SetsAssumption
<1>1. (CHOOSE i \in Item : TRUE) \in Item /\ (CHOOSE w \in Worker : TRUE) \in Worker
  OBVIOUS
<1>2. Init => TypeOK
  BY <1>1 DEF Init, TypeOK, Status, StopStatus, State, Phase
<1>3. ASSUME Init, NEW r \in Attempt PROVE AttemptInv(r) /\ SessionInv(r)
  BY <1>3 DEF Init, AttemptInv, SessionInv, Undecided, Open, InTransaction
<1>4. ASSUME Init, NEW i \in Item PROVE ItemInv(i) /\ HoldInv(i)
  BY <1>4 DEF Init, ItemInv, HoldInv
<1> QED
  BY <1>2, <1>3, <1>4 DEF Inv

LEMMA StopWorkersStep ==
  ASSUME Inv, NEW W \in SUBSET Worker, StopWorkers(W)
  PROVE  Inv'
<1> USE NoneAssumption DEF NoneAssumption
<1>1. TypeOK'
  BY DEF Inv, TypeOK, StopWorkers, GateFree, Completed, Witnessed, workItem, disposition,
     attempts, executors, Status, StopStatus, State, Phase, Open, InTransaction
<1>2. ASSUME NEW q \in Attempt PROVE AttemptInv(q)'
  BY DEF Inv, TypeOK, AttemptInv, ItemInv, StopWorkers, Completed, executors
<1>3. ASSUME NEW q \in Attempt PROVE SessionInv(q)'
  BY DEF Inv, TypeOK, AttemptInv, SessionInv, StopWorkers, GateFree, Completed, executors,
     Phase, Undecided
<1>4. ASSUME NEW j \in Item PROVE ItemInv(j)'
  BY DEF Inv, TypeOK, AttemptInv, ItemInv, StopWorkers, Completed, Witnessed
<1>5. ASSUME NEW j \in Item PROVE HoldInv(j)'
  BY DEF Inv, TypeOK, AttemptInv, ItemInv, HoldInv, StopWorkers, Completed, executors
<1> QED
  BY <1>1, <1>2, <1>3, <1>4, <1>5 DEF Inv

LEMMA ReleaseStep ==
  ASSUME Inv, NEW i \in Item, ReleaseHeldWork(i)
  PROVE  Inv'
<1> USE NoneAssumption DEF NoneAssumption
<1>1. TypeOK'
  BY DEF Inv, TypeOK, ReleaseHeldWork, attempts, executors, Status, StopStatus
<1>2. ASSUME NEW q \in Attempt PROVE AttemptInv(q)'
  BY DEF Inv, AttemptInv, ReleaseHeldWork, attempts, executors
<1>3. ASSUME NEW q \in Attempt PROVE SessionInv(q)'
  BY DEF Inv, SessionInv, ReleaseHeldWork, attempts, executors
<1>4. ASSUME NEW j \in Item PROVE ItemInv(j)'
  BY DEF Inv, ItemInv, ReleaseHeldWork, attempts
<1>5. ASSUME NEW j \in Item PROVE HoldInv(j)'
  BY DEF Inv, TypeOK, HoldInv, ReleaseHeldWork, executors
<1> QED
  BY <1>1, <1>2, <1>3, <1>4, <1>5 DEF Inv

LEMMA RequeueStep ==
  ASSUME Inv, NEW i \in Item, RequeueDeadLetter(i)
  PROVE  Inv'
<1> USE NoneAssumption DEF NoneAssumption
<1>1. TypeOK'
  BY DEF Inv, TypeOK, RequeueDeadLetter, disposition, attempts, executors, Status
<1>2. ASSUME NEW q \in Attempt PROVE AttemptInv(q)'
  BY DEF Inv, AttemptInv, RequeueDeadLetter, disposition, attempts, executors
<1>3. ASSUME NEW q \in Attempt PROVE SessionInv(q)'
  BY DEF Inv, SessionInv, RequeueDeadLetter, disposition, attempts, executors
<1>4. ASSUME NEW j \in Item PROVE ItemInv(j)'
  BY DEF Inv, ItemInv, RequeueDeadLetter, disposition, attempts
<1>5. ASSUME NEW j \in Item PROVE HoldInv(j)'
  BY DEF Inv, HoldInv, RequeueDeadLetter, disposition, executors
<1> QED
  BY <1>1, <1>2, <1>3, <1>4, <1>5 DEF Inv

LEMMA LeaseExpiresStep ==
  ASSUME Inv, NEW i \in Item, LeaseExpires(i)
  PROVE  Inv'
<1> USE NoneAssumption DEF NoneAssumption
<1>1. TypeOK'
  BY DEF Inv, TypeOK, LeaseExpires, disposition, attempts, executors
<1>2. ASSUME NEW q \in Attempt PROVE AttemptInv(q)'
  BY DEF Inv, AttemptInv, LeaseExpires, disposition, attempts, executors
<1>3. ASSUME NEW q \in Attempt PROVE SessionInv(q)'
  BY DEF Inv, SessionInv, LeaseExpires, disposition, attempts, executors
<1>4. ASSUME NEW j \in Item PROVE ItemInv(j)'
  BY DEF Inv, ItemInv, LeaseExpires, disposition, attempts
<1>5. ASSUME NEW j \in Item PROVE HoldInv(j)'
  BY DEF Inv, HoldInv, LeaseExpires, disposition, executors
<1> QED
  BY <1>1, <1>2, <1>3, <1>4, <1>5 DEF Inv

(***************************************************************************)
(* Steps that touch nothing the invariant is about.                        *)
(***************************************************************************)
LEMMA PausingStep ==
  ASSUME Inv, UNCHANGED <<workItem, disposition, attempts, witness, executors>>,
         paused' \subseteq Worker
  PROVE  Inv'
  BY DEF Inv, TypeOK, AttemptInv, SessionInv, ItemInv, HoldInv, workItem, disposition,
     attempts, executors

(***************************************************************************)
(* Every step preserves the invariant.                                     *)
(***************************************************************************)
LEMMA InvStep == Inv /\ [Next]_vars => Inv'
<1> SUFFICES ASSUME Inv, [Next]_vars PROVE Inv'
  OBVIOUS
<1>1. ASSUME NEW r \in Attempt, Executor(r) PROVE Inv'
  BY <1>1, ReserveStep, BindStep, WitnessStep, BeginCompletionStep, CompleteStep, RollbackStep,
     RecordCommitStep, RecordRollbackStep, FinalizeFailureStep, RecordUnknownStep DEF Executor
<1>2. ASSUME NEW r \in Attempt, Session(r) PROVE Inv'
  BY <1>2, CommitInHandlerStep, CommitStep, CloseStep DEF Session
<1>3. ASSUME NEW w \in Worker, ActivateWorker(w) \/ PauseWorker(w) PROVE Inv'
  <2>1. paused \subseteq Worker
    BY DEF Inv, TypeOK
  <2> QED
    BY <1>3, <2>1, PausingStep DEF ActivateWorker, PauseWorker
<1>4. CASE Operator
  BY <1>3, <1>4, StopStep, ReconcileStep, StopWorkersStep, ReleaseStep, RequeueStep DEF
     Operator
<1>5. CASE UNCHANGED vars
  <2>1. paused \subseteq Worker
    BY DEF Inv, TypeOK
  <2> QED
    BY <1>5, <2>1, PausingStep DEF vars
<1> QED
  BY <1>1, <1>2, <1>4, <1>5, LeaseExpiresStep DEF Next

(***************************************************************************)
(* The invariant holds; all theorems below follow from it.                 *)
(***************************************************************************)
THEOREM ExecutionInvariant == Spec => []Inv
<1>1. Init => Inv
  BY InvInit
<1>2. Inv /\ [Next]_vars => Inv'
  BY InvStep
<1> QED
  BY <1>1, <1>2, PTL DEF Spec

(***************************************************************************)
(* A committed handler's item is never given out again: it stays with the  *)
(* attempt of the witness (NoReplay).                                      *)
(***************************************************************************)
THEOREM NothingIsReplayed == Spec => []NoReplay
<1>1. Inv => NoReplay
  BY NoneAssumption DEF NoneAssumption, Inv, NoReplay, TypeOK, SessionInv
<1> QED
  BY <1>1, ExecutionInvariant, PTL

(***************************************************************************)
(* An item is completed or held, never both (StopOrCompletionWins).        *)
(***************************************************************************)
THEOREM StopAndCompletionExclude == Spec => []StopOrCompletionWins
<1>1. Inv => StopOrCompletionWins
  BY NoneAssumption DEF NoneAssumption, Inv, StopOrCompletionWins, ItemInv, HoldInv
<1> QED
  BY <1>1, ExecutionInvariant, PTL

(***************************************************************************)
(* A slot is occupied exactly for the attempt that has the claim           *)
(* (SlotsHaveClaims).                                                      *)
(***************************************************************************)
THEOREM SlotsAndClaimsAgree == Spec => []SlotsHaveClaims
<1>1. Inv => SlotsHaveClaims
  BY NoneAssumption DEF NoneAssumption, Inv, SlotsHaveClaims, TypeOK, AttemptInv, ItemInv
<1> QED
  BY <1>1, ExecutionInvariant, PTL

(***************************************************************************)
(* The hold of the disposition and that of the queue row agree             *)
(* (HoldsAgree).                                                           *)
(***************************************************************************)
THEOREM HoldsAgreeAlways == Spec => []HoldsAgree
<1>1. Inv => HoldsAgree
  BY NoneAssumption DEF NoneAssumption, Inv, HoldsAgree, HoldInv
<1> QED
  BY <1>1, ExecutionInvariant, PTL

(***************************************************************************)
(* What an operator is told of a stop stays true (StopReportIsTrue).       *)
(***************************************************************************)
THEOREM StopReportsAreTrue == Spec => []StopReportIsTrue
<1>1. Inv => StopReportIsTrue
  BY NoneAssumption DEF NoneAssumption, Inv, StopReportIsTrue, HoldInv, Quiet, InTransaction
<1> QED
  BY <1>1, ExecutionInvariant, PTL

-----------------------------------------------------------------------------
(***************************************************************************)
(* Only a reservation occupies a slot: a reconciliation that puts an       *)
(* attempt back to UNKNOWN finds its slot still occupied.                  *)
(***************************************************************************)
LEMMA OccupiedStep ==
  ASSUME Inv, [Next]_vars,
         ~ \E r \in Attempt, w \in Worker, i \in Item : ReserveWorkerExecution(r, w, i)
  PROVE  \A q \in Attempt : occupied'[q] => occupied[q] /\ worker'[q] = worker[q]
<1> SUFFICES ASSUME NEW q \in Attempt, occupied'[q]
             PROVE  occupied[q] /\ worker'[q] = worker[q]
  OBVIOUS
<1> USE DEF workItem, disposition, attempts, executors
<1>1. occupied \in [Attempt -> BOOLEAN]
  BY DEF Inv, TypeOK
<1>2. ASSUME NEW r \in Attempt, Executor(r) PROVE occupied[q] /\ worker'[q] = worker[q]
  BY <1>1, <1>2 DEF Executor, BindWorkerExecution, BeginWorkerTransactionWitness,
     BeginWorkerCompletion, CompleteWork, Rollback, RecordWorkerCommit, RecordWorkerRollback,
     FinalizeWorkerFailure, RecordWorkerUnknown, EndCommitted, EndHeld, EndFailed
<1>3. ASSUME NEW r \in Attempt, Session(r) PROVE occupied[q] /\ worker'[q] = worker[q]
  BY <1>3 DEF Session, CommitInHandler, Commit, CloseSession
<1>4. ASSUME NEW r \in Attempt, StopWorkerExecution(r)
      PROVE  occupied[q] /\ worker'[q] = worker[q]
  BY <1>1, <1>4 DEF StopWorkerExecution, StopCommitted, StopAndHold, EndCommitted
<1>5. ASSUME NEW r \in Attempt, ReconcileWorkerExecution(r)
      PROVE  occupied[q] /\ worker'[q] = worker[q]
  <2>1. occupied[r]
    BY <1>5 DEF Inv, AttemptInv, ReconcileWorkerExecution, Ended
  <2> QED
    BY <1>1, <1>5, <2>1 DEF ReconcileWorkerExecution, ReconcileCommitted, ReconcileRolledBack,
       ReconcileUnknown, EndCommitted, EndHeld
<1>6. ASSUME NEW W \in SUBSET Worker, StopWorkers(W)
      PROVE  occupied[q] /\ worker'[q] = worker[q]
  BY <1>6 DEF StopWorkers
<1>7. CASE Operator
  BY <1>4, <1>5, <1>6, <1>7 DEF Operator, ActivateWorker, PauseWorker, ReleaseHeldWork,
     RequeueDeadLetter
<1>8. CASE UNCHANGED vars
  BY <1>8 DEF vars
<1> QED
  BY <1>2, <1>3, <1>7, <1>8 DEF Next, LeaseExpires

(***************************************************************************)
(* A reservation adds one attempt to the slots of its worker and to all,   *)
(* both below their limits; other steps add none.                          *)
(***************************************************************************)
LEMMA LimitsStep == Inv /\ SlotsWithinLimits /\ [Next]_vars => SlotsWithinLimits'
<1> SUFFICES ASSUME Inv, SlotsWithinLimits, [Next]_vars PROVE SlotsWithinLimits'
  OBVIOUS
<1> DEFINE All == {q \in Attempt : occupied[q]}
           Of(v) == {q \in Attempt : occupied[q] /\ worker[q] = v}
<1>1. /\ IsFiniteSet(All) /\ Cardinality(All) \in Nat
      /\ \A v \in Worker : IsFiniteSet(Of(v)) /\ Cardinality(Of(v)) \in Nat
  <2>1. All \in SUBSET Attempt /\ \A v \in Worker : Of(v) \in SUBSET Attempt
    OBVIOUS
  <2> HIDE DEF All, Of
  <2> QED
    BY <2>1, FS_Subset, FS_CardinalityType, SetsAssumption DEF SetsAssumption
<1>2. ASSUME NEW r \in Attempt, NEW w \in Worker, NEW i \in Item,
             ReserveWorkerExecution(r, w, i)
      PROVE  SlotsWithinLimits'
  <2>1. r \notin All /\ \A v \in Worker : r \notin Of(v)
    BY <1>2 DEF Inv, AttemptInv, ReserveWorkerExecution
  <2>2. All' = All \cup {r}
    BY <1>2 DEF Inv, TypeOK, ReserveWorkerExecution
  <2>3. \A v \in Worker : Of(v)' = IF v = w THEN Of(v) \cup {r} ELSE Of(v)
    <3>1. /\ \A q \in Attempt : occupied'[q] = (q = r \/ occupied[q])
          /\ \A q \in Attempt : worker'[q] = IF q = r THEN w ELSE worker[q]
      BY <1>2 DEF Inv, TypeOK, ReserveWorkerExecution
    <3>2. ~occupied[r]
      BY <2>1
    <3>3. ASSUME NEW v \in Worker, NEW q \in Attempt
          PROVE  q \in Of(v)' <=> q \in (IF v = w THEN Of(v) \cup {r} ELSE Of(v))
      BY <3>1, <3>2
    <3> QED
      BY <3>3
  <2>4. Cardinality(All) < MaxConcurrentExecutions /\ Cardinality(Of(w)) < Capacity[w]
    BY <1>2 DEF ReserveWorkerExecution, FreeSlot
  <2>5. Cardinality(All) <= MaxConcurrentExecutions
        /\ \A v \in Worker : Cardinality(Of(v)) <= Capacity[v]
    BY DEF SlotsWithinLimits
  <2>6. Cardinality(All') <= MaxConcurrentExecutions
        /\ \A v \in Worker : Cardinality(Of(v)') <= Capacity[v]
    <3> HIDE DEF All, Of
    <3>1. Cardinality(All \cup {r}) = Cardinality(All) + 1
      BY <1>1, <2>1, FS_AddElement
    <3>2. Cardinality(Of(w) \cup {r}) = Cardinality(Of(w)) + 1
      BY <1>1, <2>1, FS_AddElement
    <3> QED
      BY <1>1, <2>2, <2>3, <2>4, <2>5, <3>1, <3>2, LimitsAssumption DEF LimitsAssumption
  <2> QED
    BY <2>6 DEF SlotsWithinLimits
<1>3. CASE ~ \E r \in Attempt, w \in Worker, i \in Item : ReserveWorkerExecution(r, w, i)
  <2>1. All' \in SUBSET All /\ \A v \in Worker : Of(v)' \in SUBSET Of(v)
    BY <1>3, OccupiedStep
  <2>2. Cardinality(All) <= MaxConcurrentExecutions
        /\ \A v \in Worker : Cardinality(Of(v)) <= Capacity[v]
    BY DEF SlotsWithinLimits
  <2>3. Cardinality(All') <= MaxConcurrentExecutions
        /\ \A v \in Worker : Cardinality(Of(v)') <= Capacity[v]
    <3> HIDE DEF All, Of
    <3>1. /\ IsFiniteSet(All') /\ Cardinality(All') <= Cardinality(All)
          /\ \A v \in Worker : IsFiniteSet(Of(v)') /\ Cardinality(Of(v)') <= Cardinality(Of(v))
      BY <1>1, <2>1, FS_Subset
    <3>2. Cardinality(All') \in Nat /\ \A v \in Worker : Cardinality(Of(v)') \in Nat
      BY <3>1, FS_CardinalityType
    <3> QED
      BY <1>1, <2>2, <3>1, <3>2, LimitsAssumption DEF LimitsAssumption
  <2> QED
    BY <2>3 DEF SlotsWithinLimits
<1> QED
  BY <1>2, <1>3

(***************************************************************************)
(* Occupied slots stay within the capacity of each worker and within the   *)
(* global limit (SlotsWithinLimits).                                       *)
(***************************************************************************)
THEOREM LimitsAreKept == Spec => []SlotsWithinLimits
<1>1. Init => SlotsWithinLimits
  <2> SUFFICES ASSUME Init PROVE SlotsWithinLimits
    OBVIOUS
  <2>1. {q \in Attempt : occupied[q]} = {}
        /\ \A v \in Worker : {q \in Attempt : occupied[q] /\ worker[q] = v} = {}
    BY DEF Init
  <2> QED
    BY <2>1, FS_EmptySet, LimitsAssumption DEF LimitsAssumption, SlotsWithinLimits
<1> QED
  BY <1>1, LimitsStep, ExecutionInvariant, PTL DEF Spec

(***************************************************************************)
(* The types of all columns (TypeOK).                                      *)
(***************************************************************************)
THEOREM ExecutionTypes == Spec => []TypeOK
<1>1. Inv => TypeOK
  BY DEF Inv
<1> QED
  BY <1>1, ExecutionInvariant, PTL

=============================================================================
