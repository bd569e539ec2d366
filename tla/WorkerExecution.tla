---------------------------- MODULE WorkerExecution ----------------------------
(***************************************************************************)
(* Managed operation of the work queue (toolbelt.core.worker-control): an  *)
(* item is claimed together with a slot reservation of a worker, executed  *)
(* on a connection that is bound to the reservation, and completed, failed *)
(* or retried through it. An operator can stop executions at any time; a   *)
(* stopped item is held until its fate is proved and it is released.       *)
(*                                                                         *)
(* Two things prove the fate. The witness is a row that the handler's      *)
(* transaction writes before it does anything else: it is there if and     *)
(* only if that transaction has committed. And the bound connection holds  *)
(* a session lock on the attempt: while it is held nothing is proved.      *)
(*                                                                         *)
(* An action is one transaction of a stored procedure; the handler's own   *)
(* transaction is open from BeginWorkerTransactionWitness to its commit.   *)
(* From BeginWorkerCompletion on it owns the lock on the disposition that  *)
(* the operator's procedures need (the gate).                              *)
(*                                                                         *)
(* Operators act on a version of the disposition row that they have read;  *)
(* a call with an old version throws. A call that takes effect is one on   *)
(* the present row, so versions are not in the state.                      *)
(***************************************************************************)
EXTENDS FiniteSets, Naturals

CONSTANTS
  Item,
  Attempt,                  \* identities of reservations; bound: each is used once
  Worker,
  Capacity,                 \* of each worker
  MaxConcurrentExecutions,  \* of all workers
  None

ASSUME LimitsAssumption ==
  /\ Capacity \in [Worker -> Nat]
  /\ MaxConcurrentExecutions \in Nat
ASSUME NoneAssumption == None \notin Attempt
ASSUME SetsAssumption == Item # {} /\ Worker # {} /\ IsFiniteSet(Attempt)

VARIABLES
  \* WorkItem
  status,       \* Status
  reservation,  \* ManagedReservationId
  managedHold,  \* ManagedHold
  live,         \* LeaseUntilUtc is in the future
  \* WorkerExecutionDisposition
  slot,         \* SlotReservationId
  held,         \* IsHeld
  stop,         \* StopStatus
  \* WorkerSlotReservation and WorkerExecutionCommitWitness
  state,        \* State, "ABSENT" before the row exists
  occupied,     \* IsOccupied
  item,         \* WorkItemId
  worker,       \* WorkerId
  witness,      \* the committed witness rows
  \* WorkerRegistration
  paused,       \* the workers with AdmissionPaused = 1
  \* executors
  phase,        \* what the session of the attempt has done
  gaveUp        \* the attempts whose executor has recorded UNKNOWN

workItem == <<status, reservation, managedHold, live>>
disposition == <<slot, held, stop>>
attempts == <<state, occupied, item, worker>>
executors == <<phase, gaveUp>>
vars == <<workItem, disposition, attempts, witness, paused, executors>>

Status == {"QUEUED", "CLAIMED", "RETRY_WAIT", "COMPLETED", "FAILED", "DEAD_LETTER"}
StopStatus == {"NONE", "REQUESTED", "ROLLED_BACK_HELD", "ALREADY_COMMITTED", "UNKNOWN"}
State == {"ABSENT", "RESERVED", "RUNNING", "STOP_REQUESTED", "UNKNOWN", "COMMITTED",
          "ROLLED_BACK"}

(***************************************************************************)
(* The session of an attempt: not connected; bound; in the handler's       *)
(* transaction; in it with the gate; with the completion done as well;     *)
(* after its commit or rollback; with the rollback recorded; closed.       *)
(***************************************************************************)
InTransaction == {"WORKING", "GATED", "COMPLETED"}
Open == InTransaction \cup {"BOUND", "COMMITTED", "ROLLED_BACK", "RECORDED"}
Phase == Open \cup {"IDLE", "CLOSED"}

TypeOK ==
  /\ status \in [Item -> Status]
  /\ reservation \in [Item -> Attempt \cup {None}]
  /\ managedHold \in [Item -> BOOLEAN]
  /\ live \in [Item -> BOOLEAN]
  /\ slot \in [Item -> Attempt \cup {None}]
  /\ held \in [Item -> BOOLEAN]
  /\ stop \in [Item -> StopStatus]
  /\ state \in [Attempt -> State]
  /\ occupied \in [Attempt -> BOOLEAN]
  /\ item \in [Attempt -> Item]
  /\ worker \in [Attempt -> Worker]
  /\ witness \subseteq Attempt
  /\ paused \subseteq Worker
  /\ phase \in [Attempt -> Phase]
  /\ gaveUp \subseteq Attempt

Init ==
  /\ status = [i \in Item |-> "QUEUED"]
  /\ reservation = [i \in Item |-> None]
  /\ managedHold = [i \in Item |-> FALSE]
  /\ live = [i \in Item |-> FALSE]
  /\ slot = [i \in Item |-> None]
  /\ held = [i \in Item |-> FALSE]
  /\ stop = [i \in Item |-> "NONE"]
  /\ state = [r \in Attempt |-> "ABSENT"]
  /\ occupied = [r \in Attempt |-> FALSE]
  /\ item = [r \in Attempt |-> CHOOSE i \in Item : TRUE]
  /\ worker = [r \in Attempt |-> CHOOSE w \in Worker : TRUE]
  /\ witness = {}
  /\ paused = {}
  /\ phase = [r \in Attempt |-> "IDLE"]
  /\ gaveUp = {}

-----------------------------------------------------------------------------
(***************************************************************************)
(* Mutants: an attempt is judged by the status of its item; the gate is    *)
(* given up when BeginWorkerCompletion returns; a reconciliation does not  *)
(* ask for the attempt; one slot too many is given away.                   *)
(***************************************************************************)
WitnessedByStatus(r) == status[item[r]] = "COMPLETED"
GateUntilReturn(r) == TRUE
ReservedOrBound(r) == state[r] # "ABSENT"
SlotsToLimit(w) ==
  /\ Cardinality({r \in Attempt : occupied[r] /\ worker[r] = w}) <= Capacity[w]
  /\ Cardinality({r \in Attempt : occupied[r]}) < MaxConcurrentExecutions

Witnessed(r) == r \in witness

(***************************************************************************)
(* Nobody has the lock on the disposition. Apart from the handler's        *)
(* transaction it is only held within one action.                          *)
(***************************************************************************)
GateFree(r) == phase[r] \notin {"GATED", "COMPLETED"}

(***************************************************************************)
(* No session is bound to the attempt.                                     *)
(***************************************************************************)
AttemptLockFree(r) == phase[r] \notin Open

FreeSlot(w) ==
  /\ Cardinality({r \in Attempt : occupied[r] /\ worker[r] = w}) < Capacity[w]
  /\ Cardinality({r \in Attempt : occupied[r]}) < MaxConcurrentExecutions

(***************************************************************************)
(* The disposition of the item is the one of this attempt, and it is held. *)
(***************************************************************************)
Held(r) == slot[item[r]] = r /\ held[item[r]]

(***************************************************************************)
(* The claim of the item is that of this attempt.                          *)
(***************************************************************************)
OwnsClaim(r) == status[item[r]] = "CLAIMED" /\ reservation[item[r]] = r

Completed(r) == status[item[r]] = "COMPLETED" /\ reservation[item[r]] = r

(***************************************************************************)
(* Mutants of Ended and Undisputed: released attempts, or retried ones,    *)
(* are looked at as if they still ran.                                     *)
(***************************************************************************)
EndedByCommit(r) == ~occupied[r] /\ state[r] = "COMMITTED"
NeverUndisputed(r) == FALSE

Ended(r) == ~occupied[r] /\ state[r] \in {"COMMITTED", "ROLLED_BACK"}

(***************************************************************************)
(* The attempt was rolled back and its item was given back without a hold. *)
(***************************************************************************)
Undisputed(r) == ~occupied[r] /\ state[r] = "ROLLED_BACK" /\ ~held[item[r]]

-----------------------------------------------------------------------------
(***************************************************************************)
(* USP_ClaimWorkerWork: USP_ReserveWorkerExecution reserves a slot and     *)
(* claims an item in one transaction. Order, groups and barriers of the    *)
(* claim are those of WorkQueue; here any waiting item may be claimed, and *)
(* a retry is due at any time.                                             *)
(***************************************************************************)
ReserveWorkerExecution(r, w, i) ==
  /\ state[r] = "ABSENT"
  /\ w \notin paused
  /\ FreeSlot(w)
  /\ status[i] \in {"QUEUED", "RETRY_WAIT"}
  /\ ~managedHold[i]
  /\ status' = [status EXCEPT ![i] = "CLAIMED"]
  /\ reservation' = [reservation EXCEPT ![i] = r]
  /\ live' = [live EXCEPT ![i] = TRUE]
  /\ state' = [state EXCEPT ![r] = "RESERVED"]
  /\ occupied' = [occupied EXCEPT ![r] = TRUE]
  /\ item' = [item EXCEPT ![r] = i]
  /\ worker' = [worker EXCEPT ![r] = w]
  /\ IF held[i]
       THEN UNCHANGED <<slot, stop>>
       ELSE /\ slot' = [slot EXCEPT ![i] = r]
            /\ stop' = [stop EXCEPT ![i] = "NONE"]
  /\ UNCHANGED <<managedHold, held, witness, paused, executors>>

(***************************************************************************)
(* USP_BindWorkerExecution: the session lock on the attempt, for one       *)
(* connection, once.                                                       *)
(***************************************************************************)
BindWorkerExecution(r) ==
  /\ r \notin gaveUp
  /\ phase[r] = "IDLE"
  /\ state[r] = "RESERVED"
  /\ occupied[r]
  /\ ~Held(r)
  /\ state' = [state EXCEPT ![r] = "RUNNING"]
  /\ phase' = [phase EXCEPT ![r] = "BOUND"]
  /\ UNCHANGED <<workItem, disposition, occupied, item, worker, witness, paused, gaveUp>>

(***************************************************************************)
(* The executor begins the handler's transaction, with the witness.        *)
(***************************************************************************)
BeginWorkerTransactionWitness(r) ==
  /\ r \notin gaveUp
  /\ phase[r] = "BOUND"
  /\ occupied[r]
  /\ ~Held(r)
  /\ phase' = [phase EXCEPT ![r] = "WORKING"]
  /\ UNCHANGED <<workItem, disposition, attempts, witness, paused, gaveUp>>

(***************************************************************************)
(* A handler that breaks the rules commits the transaction it was called   *)
(* in, and with it the witness.                                            *)
(***************************************************************************)
CommitInHandler(r) ==
  /\ phase[r] = "WORKING"
  /\ witness' = witness \cup {r}
  /\ UNCHANGED <<workItem, disposition, attempts, paused, executors>>

BeginWorkerCompletion(r) ==
  /\ r \notin gaveUp
  /\ phase[r] = "WORKING"
  /\ occupied[r]
  /\ ~Held(r)
  /\ OwnsClaim(r)
  /\ ~managedHold[item[r]]
  /\ phase' = [phase EXCEPT ![r] = "GATED"]
  /\ UNCHANGED <<workItem, disposition, attempts, witness, paused, gaveUp>>

(***************************************************************************)
(* USP_CompleteWork on a managed claim.                                    *)
(***************************************************************************)
CompleteWork(r) ==
  /\ r \notin gaveUp
  /\ phase[r] = "GATED"
  /\ OwnsClaim(r)
  /\ ~managedHold[item[r]]
  /\ live[item[r]]
  /\ phase' = [phase EXCEPT ![r] = "COMPLETED"]
  /\ UNCHANGED <<workItem, disposition, attempts, witness, paused, gaveUp>>

(***************************************************************************)
(* The handler's transaction commits. The executor may have given up       *)
(* waiting for the answer.                                                 *)
(***************************************************************************)
Commit(r) ==
  /\ phase[r] = "COMPLETED"
  /\ status' = [status EXCEPT ![item[r]] = "COMPLETED"]
  /\ witness' = witness \cup {r}
  /\ phase' = [phase EXCEPT ![r] = "COMMITTED"]
  /\ UNCHANGED <<reservation, managedHold, live, disposition, attempts, paused, gaveUp>>

(***************************************************************************)
(* Anything before the commit fails: a call throws, the handler does, the  *)
(* guardian has lost the lease or the worker is told to stop. The executor *)
(* rolls back.                                                             *)
(***************************************************************************)
Rollback(r) ==
  /\ r \notin gaveUp
  /\ phase[r] \in InTransaction \cup {"BOUND"}
  /\ phase' = [phase EXCEPT ![r] = "ROLLED_BACK"]
  /\ UNCHANGED <<workItem, disposition, attempts, witness, paused, gaveUp>>

(***************************************************************************)
(* The session ends: closed by the executor, or lost together with it. An  *)
(* open transaction is rolled back and the attempt lock released.          *)
(***************************************************************************)
CloseSession(r) ==
  /\ phase[r] \in Open
  /\ phase' = [phase EXCEPT ![r] = "CLOSED"]
  /\ UNCHANGED <<workItem, disposition, attempts, witness, paused, gaveUp>>

-----------------------------------------------------------------------------
(***************************************************************************)
(* The three ways in which the attempt of an item ends, as the procedures  *)
(* below record them.                                                      *)
(***************************************************************************)
EndCommitted(r) ==
  /\ state' = [state EXCEPT ![r] = "COMMITTED"]
  /\ occupied' = [occupied EXCEPT ![r] = FALSE]
  /\ held' = [held EXCEPT ![item[r]] = FALSE]
  /\ UNCHANGED <<slot, item, worker>>

EndHeld(r) ==
  /\ OwnsClaim(r)
  /\ status' = [status EXCEPT ![item[r]] = "FAILED"]
  /\ managedHold' = [managedHold EXCEPT ![item[r]] = TRUE]
  /\ state' = [state EXCEPT ![r] = "ROLLED_BACK"]
  /\ occupied' = [occupied EXCEPT ![r] = FALSE]
  /\ held' = [held EXCEPT ![item[r]] = TRUE]
  /\ stop' = [stop EXCEPT ![item[r]] = "ROLLED_BACK_HELD"]
  /\ UNCHANGED <<reservation, live, slot, item, worker>>

EndFailed(r, outcome) ==
  /\ OwnsClaim(r)
  /\ ~managedHold[item[r]]
  /\ status' = [status EXCEPT ![item[r]] = outcome]
  /\ reservation' = [reservation EXCEPT ![item[r]] = None]
  /\ occupied' = [occupied EXCEPT ![r] = FALSE]
  /\ UNCHANGED <<managedHold, live, disposition, state, item, worker>>

-----------------------------------------------------------------------------
RecordWorkerCommit(r) ==
  /\ r \notin gaveUp
  /\ phase[r] = "COMMITTED"
  /\ Witnessed(r)
  /\ Completed(r)
  /\ EndCommitted(r)
  /\ stop' = IF held[item[r]] THEN [stop EXCEPT ![item[r]] = "ALREADY_COMMITTED"] ELSE stop
  /\ phase' = [phase EXCEPT ![r] = "CLOSED"]
  /\ UNCHANGED <<workItem, witness, paused, gaveUp>>

(***************************************************************************)
(* USP_RecordWorkerRollback: a hold is final with it, otherwise the        *)
(* executor goes on to decide between failure and retry.                   *)
(***************************************************************************)
RecordWorkerRollback(r) ==
  /\ r \notin gaveUp
  /\ phase[r] = "ROLLED_BACK"
  /\ occupied[r]
  /\ ~Witnessed(r)
  /\ IF Held(r)
       THEN /\ EndHeld(r)
            /\ phase' = [phase EXCEPT ![r] = "CLOSED"]
       ELSE /\ state' = [state EXCEPT ![r] = "ROLLED_BACK"]
            /\ phase' = [phase EXCEPT ![r] = "RECORDED"]
            /\ UNCHANGED <<workItem, disposition, occupied, item, worker>>
  /\ UNCHANGED <<witness, paused, gaveUp>>

(***************************************************************************)
(* USP_FinalizeWorkerFailure: a hold, or a lease that has run out, wins    *)
(* over the executor's decision. A retry is dead-lettered when no attempt  *)
(* of the policy is left, which WorkQueue models.                          *)
(***************************************************************************)
FinalizeWorkerFailure(r) ==
  /\ r \notin gaveUp
  /\ phase[r] = "RECORDED"
  /\ occupied[r]
  /\ state[r] = "ROLLED_BACK"
  /\ ~Witnessed(r)
  /\ IF Held(r) \/ ~live[item[r]]
       THEN EndHeld(r)
       ELSE \E outcome \in {"FAILED", "RETRY_WAIT", "DEAD_LETTER"} : EndFailed(r, outcome)
  /\ phase' = [phase EXCEPT ![r] = "CLOSED"]
  /\ UNCHANGED <<witness, paused, gaveUp>>

(***************************************************************************)
(* USP_RecordWorkerUnknown, on a connection of its own: the executor does  *)
(* not know what became of its last call and does nothing any more. The    *)
(* session may still be there, and a commit may still be on its way.       *)
(***************************************************************************)
RecordWorkerUnknown(r) ==
  /\ r \notin gaveUp
  /\ state[r] # "ABSENT"
  /\ occupied[r]
  /\ state' = [state EXCEPT ![r] = "UNKNOWN"]
  /\ gaveUp' = gaveUp \cup {r}
  /\ UNCHANGED <<workItem, disposition, occupied, item, worker, witness, paused, phase>>

(***************************************************************************)
(* The guardian no longer renews the lease of a claim, and it runs out.    *)
(***************************************************************************)
LeaseExpires(i) ==
  /\ status[i] = "CLAIMED"
  /\ live[i]
  /\ live' = [live EXCEPT ![i] = FALSE]
  /\ UNCHANGED <<status, reservation, managedHold, disposition, attempts, witness, paused,
                 executors>>

-----------------------------------------------------------------------------
(***************************************************************************)
(* USP_StopWorkerExecution: what has committed stays so, everything else   *)
(* is held.                                                                *)
(***************************************************************************)
StopCommitted(r) ==
  /\ Completed(r)
  /\ Witnessed(r)
  /\ EndCommitted(r)
  /\ stop' = [stop EXCEPT ![item[r]] = "ALREADY_COMMITTED"]
  /\ UNCHANGED workItem

StopAndHold(r) ==
  /\ ~(Completed(r) /\ Witnessed(r))
  /\ held' = [held EXCEPT ![item[r]] = TRUE]
  /\ stop' = [stop EXCEPT ![item[r]] =
                IF state[r] = "ROLLED_BACK" THEN "ROLLED_BACK_HELD" ELSE "REQUESTED"]
  /\ managedHold' = IF reservation[item[r]] = r
                      THEN [managedHold EXCEPT ![item[r]] = TRUE] ELSE managedHold
  /\ state' = IF occupied[r] /\ state[r] # "ROLLED_BACK"
                THEN [state EXCEPT ![r] = "STOP_REQUESTED"] ELSE state
  /\ UNCHANGED <<status, reservation, live, slot, occupied, item, worker>>

StopWorkerExecution(r) ==
  /\ GateFree(r)
  /\ state[r] # "ABSENT"
  /\ slot[item[r]] = r
  /\ ~Undisputed(r)
  /\ StopCommitted(r) \/ StopAndHold(r)
  /\ UNCHANGED <<witness, paused, executors>>

(***************************************************************************)
(* USP_StopWorkers pauses workers and stops all they execute, or does      *)
(* nothing if one of the gates is taken. Unlike a single stop it also      *)
(* turns a recorded rollback into a requested stop.                        *)
(***************************************************************************)
StopWorkers(W) ==
  LET R == {r \in Attempt : occupied[r] /\ worker[r] \in W}
      C == {r \in R : Completed(r) /\ Witnessed(r)}
      Of(S) == {i \in Item : slot[i] \in S}
  IN  /\ W # {}
      /\ \A r \in R : GateFree(r)
      /\ state' = [r \in Attempt |-> IF r \in C THEN "COMMITTED"
                                     ELSE IF r \in R THEN "STOP_REQUESTED" ELSE state[r]]
      /\ occupied' = [r \in Attempt |-> occupied[r] /\ r \notin C]
      /\ held' = [i \in Item |-> IF i \in Of(C) THEN FALSE
                                 ELSE held[i] \/ i \in Of(R)]
      /\ stop' = [i \in Item |-> IF i \in Of(C) THEN "ALREADY_COMMITTED"
                                 ELSE IF i \in Of(R) THEN "REQUESTED" ELSE stop[i]]
      /\ managedHold' = [i \in Item |-> managedHold[i] \/ reservation[i] \in R \ C]
      /\ paused' = paused \cup W
      /\ UNCHANGED <<status, reservation, live, slot, item, worker, witness, executors>>

(***************************************************************************)
(* USP_SetWorkerState, as admission sees it.                               *)
(***************************************************************************)
ActivateWorker(w) ==
  /\ paused' = paused \ {w}
  /\ UNCHANGED <<workItem, disposition, attempts, witness, executors>>

PauseWorker(w) ==
  /\ paused' = paused \cup {w}
  /\ UNCHANGED <<workItem, disposition, attempts, witness, executors>>

(***************************************************************************)
(* Mutant of Stopped: an attempt whose executor gave up is left alone.     *)
(***************************************************************************)
StoppedAndKnown == {"STOP_REQUESTED", "ROLLED_BACK"}

Stopped == {"STOP_REQUESTED", "UNKNOWN", "ROLLED_BACK"}

(***************************************************************************)
(* USP_ReconcileWorkerExecution takes the attempt lock and the gate. It    *)
(* proves the commit by witness and queue, the rollback of a stopped       *)
(* attempt by the missing witness, and holds everything else.              *)
(***************************************************************************)
ReconcileCommitted(r) ==
  /\ Witnessed(r)
  /\ Completed(r)
  /\ EndCommitted(r)
  /\ stop' = [stop EXCEPT ![item[r]] = "ALREADY_COMMITTED"]
  /\ managedHold' = [managedHold EXCEPT ![item[r]] = FALSE]
  /\ UNCHANGED <<status, reservation, live>>

ReconcileRolledBack(r) ==
  /\ ~Witnessed(r)
  /\ Held(r)
  /\ state[r] \in Stopped
  /\ EndHeld(r)

ReconcileUnknown(r) ==
  /\ ~(Witnessed(r) /\ Completed(r))
  /\ ~(~Witnessed(r) /\ Held(r) /\ state[r] \in Stopped)
  /\ state' = [state EXCEPT ![r] = "UNKNOWN"]
  /\ occupied' = [occupied EXCEPT ![r] = TRUE]
  /\ held' = [held EXCEPT ![item[r]] = TRUE]
  /\ stop' = [stop EXCEPT ![item[r]] = "UNKNOWN"]
  /\ managedHold' = IF reservation[item[r]] = r
                      THEN [managedHold EXCEPT ![item[r]] = TRUE] ELSE managedHold
  /\ UNCHANGED <<status, reservation, live, slot, item, worker>>

ReconcileWorkerExecution(r) ==
  /\ AttemptLockFree(r)
  /\ GateFree(r)
  /\ state[r] # "ABSENT"
  /\ slot[item[r]] = r
  /\ ~Ended(r)
  /\ ReconcileCommitted(r) \/ ReconcileRolledBack(r) \/ ReconcileUnknown(r)
  /\ UNCHANGED <<witness, paused, executors>>

(***************************************************************************)
(* USP_ReleaseHeldWork: a new cycle of an item whose rollback is proved.   *)
(***************************************************************************)
ReleaseHeldWork(i) ==
  LET r == slot[i] IN
  /\ held[i]
  /\ GateFree(r)
  /\ state[r] = "ROLLED_BACK"
  /\ ~occupied[r]
  /\ ~Witnessed(r)
  /\ status[i] = "FAILED"
  /\ reservation[i] = r
  /\ status' = [status EXCEPT ![i] = "QUEUED"]
  /\ reservation' = [reservation EXCEPT ![i] = None]
  /\ managedHold' = [managedHold EXCEPT ![i] = FALSE]
  /\ held' = [held EXCEPT ![i] = FALSE]
  /\ stop' = [stop EXCEPT ![i] = "NONE"]
  /\ UNCHANGED <<live, slot, attempts, witness, paused, executors>>

(***************************************************************************)
(* USP_RequeueDeadLetter of an item that managed operation is done with.   *)
(***************************************************************************)
RequeueDeadLetter(i) ==
  /\ status[i] = "DEAD_LETTER"
  /\ ~managedHold[i]
  /\ reservation[i] = None
  /\ status' = [status EXCEPT ![i] = "QUEUED"]
  /\ UNCHANGED <<reservation, managedHold, live, disposition, attempts, witness, paused,
                 executors>>

-----------------------------------------------------------------------------
Executor(r) ==
  \/ \E w \in Worker, i \in Item : ReserveWorkerExecution(r, w, i)
  \/ BindWorkerExecution(r)
  \/ BeginWorkerTransactionWitness(r)
  \/ BeginWorkerCompletion(r)
  \/ CompleteWork(r)
  \/ Rollback(r)
  \/ RecordWorkerCommit(r)
  \/ RecordWorkerRollback(r)
  \/ FinalizeWorkerFailure(r)
  \/ RecordWorkerUnknown(r)

Session(r) == CommitInHandler(r) \/ Commit(r) \/ CloseSession(r)

Operator ==
  \/ \E r \in Attempt : StopWorkerExecution(r) \/ ReconcileWorkerExecution(r)
  \/ \E W \in SUBSET Worker : StopWorkers(W)
  \/ \E w \in Worker : ActivateWorker(w) \/ PauseWorker(w)
  \/ \E i \in Item : ReleaseHeldWork(i) \/ RequeueDeadLetter(i)

Next ==
  \/ \E r \in Attempt : Executor(r) \/ Session(r)
  \/ Operator
  \/ \E i \in Item : LeaseExpires(i)

Spec == Init /\ [][Next]_vars

(***************************************************************************)
(* Sessions end, and what is occupied is reconciled when nothing is bound  *)
(* to it any more. Executors may do anything or nothing.                   *)
(***************************************************************************)
Fairness ==
  \A r \in Attempt : WF_vars(CloseSession(r)) /\ WF_vars(ReconcileWorkerExecution(r))

FairSpec == Spec /\ Fairness

-----------------------------------------------------------------------------
(***************************************************************************)
(* What a handler has committed is never executed again: the item stays    *)
(* with the attempt of the witness, so it is neither claimed for another   *)
(* attempt nor retried, requeued or released. (The checks of the witness   *)
(* in RecordWorkerRollback, FinalizeWorkerFailure, ReleaseHeldWork and     *)
(* ReconcileWorkerExecution.)                                              *)
(***************************************************************************)
NoReplay ==
  \A r \in witness :
    /\ reservation[item[r]] = r
    /\ status[item[r]] \in {"CLAIMED", "COMPLETED"}

(***************************************************************************)
(* A stop and a completion that race have one winner: an item is completed *)
(* or held, in both of the tables that say so, but never both.             *)
(***************************************************************************)
StopOrCompletionWins ==
  \A i \in Item : status[i] = "COMPLETED" => ~held[i] /\ ~managedHold[i]

(***************************************************************************)
(* Reservations and claims agree: a slot is occupied by the attempt that   *)
(* has the claim, so an item occupies one slot at most, and no claim is    *)
(* without a slot.                                                         *)
(***************************************************************************)
SlotsHaveClaims ==
  /\ \A r \in Attempt : occupied[r] =>
       /\ reservation[item[r]] = r
       /\ slot[item[r]] = r
       /\ status[item[r]] \in {"CLAIMED", "COMPLETED"}
  /\ \A i \in Item : status[i] = "CLAIMED" =>
       \E r \in Attempt : occupied[r] /\ item[r] = i

(***************************************************************************)
(* The hold of the disposition and that of the queue row, which the claim  *)
(* looks at, are set and cleared together by all procedures.               *)
(***************************************************************************)
HoldsAgree == \A i \in Item : held[i] <=> managedHold[i]

(***************************************************************************)
(* What the operator is told of a stop is true: reported as rolled back,   *)
(* nothing was committed and no transaction is open that could; reported   *)
(* as committed, the item is completed.                                    *)
(***************************************************************************)
StopReportIsTrue ==
  \A i \in Item :
    /\ stop[i] = "ROLLED_BACK_HELD" =>
         slot[i] \notin witness /\ phase[slot[i]] \notin InTransaction
    /\ stop[i] = "ALREADY_COMMITTED" =>
         slot[i] \in witness /\ status[i] = "COMPLETED"

(***************************************************************************)
(* Occupied slots stay within the capacity of the workers and the global   *)
(* limit, also when reconciliations put attempts back to UNKNOWN.          *)
(***************************************************************************)
SlotsWithinLimits ==
  /\ Cardinality({r \in Attempt : occupied[r]}) <= MaxConcurrentExecutions
  /\ \A w \in Worker :
       Cardinality({r \in Attempt : occupied[r] /\ worker[r] = w}) <= Capacity[w]

(***************************************************************************)
(* Once an attempt is stopped its fate is proved and its slot is free      *)
(* again, unless its handler has committed on its own.                     *)
(***************************************************************************)
EveryStopIsProved ==
  \A r \in Attempt :
    occupied[r] /\ Held(r) ~> ~occupied[r] \/ Witnessed(r)
=============================================================================
