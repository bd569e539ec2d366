# Verification of the SQL Server Toolbelt

The repository has two halves. The product is a collection of T-SQL modules
(`src/Modules/*`), CLR providers and PowerShell workers; most modules are
functions without state, and the core that many sessions share is a work queue
in a table, with leases, retries and drain barriers, and around it the control of
workers. The tooling (`src/.ai/foundation`, `src/Scripts`) is Python that plans,
routes and executes work of AI agents and prepares releases; it keeps its state
in files that several processes read and replace.

This directory models both in TLA+, checks the models with TLC, and proves the
properties that matter most with TLAPS. `PROJECT.json` maps every definition to
the lines it models and lists components, runs, mutants, hazards and theorems.

## 1. Inventory

### The product

| component | state | operations | what is hard | correct when |
|---|---|---|---|---|
| work queue, `toolbelt.core.work-queue` | `WorkItem`, `WorkQueueBarrierBlocker`, the scheduler row, the gate of managed operation | enqueue (plain, with policy, barrier), claim, renew, complete, fail, retry, recover, requeue | a lease runs out between the check of a disposition and its commit; snapshots of barriers race with claims; retried barriers start new epochs; handlers die, answers are lost | a claim has one holder, a result is final, barriers exclude what they must, attempts are accounted for, items come to rest |
| work types, `toolbelt.core.work-type` | `WorkType` rows | register, disable, remove, grant | types disabled under waiting items | disabled types admit nothing new |
| worker control, `toolbelt.core.worker-control` | workers, reservations, executions, witnesses, holds | reserve, bind, witness, complete, record, finalise; pause, stop, reconcile, release | a stop races with a commit; a commit that was not recorded looks like one that did not happen | an item is completed or held, never both; slots stay within the limits; what an operator is told is true |
| workers, `src/Workers/ExternalQueue` | processes and connections | claim, run a handler, complete, fail, retry, stop | partial failure between calls | no step of theirs, nor their death, loses or repeats a result |
| session services: execution context, execution cancel, second session, event log | session context, cancel requests, log rows | | one session or one row each | |
| pure modules: conversion, strings, dates, JSON, series, metadata, scripts, files, archives | none | | byte formats, calls of the operating system | |

Sessions interact through the tables only: any number of them call the
procedures; the handler that claimed an item works in a transaction of its own,
completes inside it and commits; a second connection renews the lease; a
scheduler recovers; with the gate on, `worker-control` adds its checks to claim
and completion.

### The tooling

| component | state | operations | what is hard | correct when |
|---|---|---|---|---|
| work planner and executor, `ai_work.py`, `ai_executor.py` | one checkpoint per plan, under a file lock; a cancellation marker | plan; execute, replay, cancel | processes die between any two saves while adapters they called go on | nothing that must not be repeated is; completed work is validated; decided plans stay decided |
| orchestration control, `orchestration_control.py` | control state of jobs; the ledger of a shared budget | tick, heartbeat, acknowledge, rotate, pause, resume, cancel | lost answers, expiring grants, late acknowledgements | no continuation twice, one session per job, bounds kept |
| model routing, `model_router/` | catalogs; outcomes, sessions and reservations under a lock file; provider fragments | route, record, reserve and settle evaluations, synchronise | prices that change by slot and day; concurrent evaluators; dead holders of the lock | a decision holds until it expires; budgets are kept; the ledger balances |
| rule context cache, `rule_context_cache.py` | one record per directory, under a lock file | check, record, status, clear | files change while they are read | a record is one real state; reuse is sound; records do not go back |
| orchestrator and connections, `ai_orchestrator.py`, `ai_runtime_adapters/` | checkpoint of an orchestration, evidence of aliases, the file of connections and its rollback record | plan or execute, refresh and accept evidence, edit, save, roll back | a model was invoked and nobody knows the outcome; two refreshes overlap | nothing follows an invocation in doubt; completed runs are attested; sources are spared; a rollback undoes the last save |
| adapter server, `adapter_protocol.py` | the circuit breaker | probe, catalog, invoke, cancel | what counts as a failure in a row | a failing adapter is left alone |
| provisioning, `host_preparation.py` | checkpoints of plans, targets, evidence of costs | diagnose, inventory, plan, approve, provision, refresh | a process dies around an installer | an installation is not repeated; what is reported completed is true |
| client integration, `client_integration.py` | manifests, backups, the clients' own configurations | detect, plan, apply, roll back, hand off, synthesise | three writes without a lock | every change is recorded and can be undone by hand |
| artifact references, `artifact_reference.py` | registry, front matter, lock file | new, register, recover, validate | a process dies between registry and artifact | a reference names one artifact |
| release preparation, `prepare_release.py` | the checkout, its commits, two package files | plan, freeze, build, verify | the checkout changes between the steps | a package is what its commit says, and only validated modules are stable |
| other generators and validators | none | | text processing by one job | |

The tools call each other as child processes and through files: the executor and
the orchestrator call adapters (served by the adapter server) and keep going when
one dies; job control grants what a host carries out later; the router reads the
catalogs that synchronisation writes; clients call the router.

## 2. Modules

| module | contents |
|---|---|
| `WorkQueue`, `WorkGroups`, `WorkQueueProofs` | the queue, what callers see of it, theorems |
| `WorkerExecution`, `WorkerExecutionProofs` | managed execution, theorems |
| `WorkPlanning` | the planner, a function of request, catalog and time |
| `WorkExecutor`, `WorkExecutorProofs` | extends `WorkPlanning`: the executor of a plan, theorems |
| `JobControl`, `JobControlProofs` | job control and the host behind it, theorems |
| `Optional` | the value that may be absent, shared by the two modules below |
| `ModelRouting` | the decision of the router, a function of catalog and request |
| `RouterRuntime` | extends `ModelRouting`: what the router keeps, and who changes it |
| `RuleContextCache` | the cache, with the repository around it |
| `LockedStateProofs` | theorems about the router and the cache |
| `AdapterRuntime` | when connections are valid, and how invocations end |
| `ConnectionStore` | extends `AdapterRuntime`: the file of connections |
| `Orchestrator`, `OrchestratorProofs` | extends `ConnectionStore`: an orchestration over those connections, theorems |
| `AdapterServer` | the server and its breaker |
| `HostPreparation`, `ClientIntegration` | provisioning, clients |
| `ArtifactRegistry` | the registry |
| `ReleasePreparation` | releases |
| `Tooling`, `ToolingProofs` | instantiates the last five, which share nothing; theorems about them |
| `Sums`, `DataTheorems` | sums over finite sets; theorems on sums, on minimal counterexamples and on what is repeated |
| `MC...` | instances for TLC |

`Tooling` gives each of its five components the variables it needs and lets a
behaviour be one of a single component, while the variables of the others keep
no value. Its properties are those of the components, each guarded by the part
that runs. So one run and one module of proofs serve five specifications, and
neither multiplies what cannot meet.

### `WorkQueue` and the code

Each column of `WorkItem` the control depends on is a function from items to
values. `ABSENT` is a row that was not inserted yet. A claim token is drawn at
random for each claim and is modelled by the generation it was drawn for; 0 is
`NULL`. What an item was enqueued with never changes and is the constant
`policy`. Time is relative: `lease` and `retry` hold the time that is left.

| procedure | action |
|---|---|
| `USP_EnqueueWork`, `...WithPolicy`, `USP_EnqueueBarrierWork` | `EnqueueShared`, `EnqueueBarrier` |
| `USP_ClaimWorkCore` and its wrappers | `ClaimWork`, `ClaimNothing` |
| `USP_RenewWorkLease` | `RenewWorkLease` |
| `USP_CompleteWork`, `USP_FailWorkCore` | `CompleteWork`, `FailWork`, then `Commit` or `Rollback` |
| `USP_ScheduleWorkRetry` | `ScheduleWorkRetryCall`, `ScheduleWorkRetryDecide`, then `Commit` or `Rollback` |
| `USP_RecoverExpiredWork`, `USP_RequeueDeadLetter` | `RecoverExpiredWork`, `RequeueDeadLetter` |
| `USP_RegisterWorkType`, `USP_DisableWorkType` | `RegisterWorkType`, `DisableWorkType` |

What commits in one transaction under locks that exclude the others is one
action. Two windows in which other sessions act are in the model: a disposition
keeps its row lock until its transaction ends, which may be the caller's
(`txn[i]`); and `USP_ScheduleWorkRetry` reads the clock before it waits for the
row lock (`calls`). A handler may use any token that was ever handed out, on two
connections at once, in any order, or never again. Claims take any candidate:
the query skips locked rows and types the session may not claim.

### `WorkerExecution` and the code

`status`, `reservation`, `managedHold` and `live` are columns of `WorkItem`;
`slot`, `held`, `stop` are `WorkerExecutionDisposition`; `state`, `occupied`,
`item`, `worker` are `WorkerSlotReservation`; `witness` is
`WorkerExecutionCommitWitness`; `phase` and `gaveUp` say how far the executor's
connection is. An attempt is a reservation: nonce, token, generation and
execution id are drawn and compared together. The session lock on the attempt is
held in the phases of `Open`, the gate in `GATED` and `COMPLETED`. Each procedure
of workers and operators is an action of its name, and so are the steps of
`Invoke-ManagedExecutor`; the executor may stop after each.

### The tools and the code

All of them work on files that they replace atomically. Where a lock of the
operating system covers a whole operation (executor, job control), an action goes
from one save to the next that matters, and a crash may come between any two.
Where a tool has no lock, or reads before it takes one (router, cache, client
integration, provisioning, connections, registry, releases), the reads and
writes are actions of their own, and everybody else acts in between. A lock that
is a file stays when its holder dies.

* `WorkExecutor`: `Execute` starts a process and loads the checkpoint,
  `StartStep`, `Prepare`, `Invoke`, `CallSucceeds`, `CallFails`, `CallNotMade`
  and `Finish` are its loop; `Crash`, `OrphanEnds` and `RequestCancel` are the
  world. `effect` and `flight` count what an adapter did, which no checkpoint
  knows.
* `JobControl`: an event reads the last snapshot of the host and is one step;
  the host's actions (carry out, acknowledge, fail, write a snapshot) are
  external. The route behind a grant is the set `Routable` of times.
* `ModelRouting` computes the chain with the least expected cost over prices,
  windows, schedules and offers, with fractions as in the code. `RouterRuntime`
  has outcomes, sessions, the ledger of evaluations, the synchronisation of
  catalogs, and provider fragments with their index.
* `RuleContextCache`: a file is a sequence of versions; a process discovers and
  reads files twice; `moment` is what was in the repository when it began.
* `Orchestrator`: routes are any sequences of choices the catalogs offer;
  `AdapterRuntime` has every way a call of the three reference adapters can end,
  and the error class under which it reaches the orchestrator.
* `HostPreparation`, `ClientIntegration`, `ArtifactRegistry`, `AdapterServer`,
  `ReleasePreparation`: one action per step of each command between two
  reads or writes of files.

Digests, hashes and paths stand for what they are of. Messages, wording, argument
parsing and JSON schemas are left out, except that ill-formed input which changes
the control (an invalid entry, a frame, an answer) is a value of its own.

## 3. Runs

| run | module | states | shows |
|---|---|---|---|
| `rearmed` | `MCWorkQueue` | 306,508 | a normal item and a barrier that is retried and requeued: `WaitingBarrierCovered`, `NextCaptureIsFresh`, `AttemptLedger`, `OpenTransactionOwnsClaim`, `SettledIsFinal`, `LiveClaimIsHolders`, `ImplementsWorkGroups` |
| `ranked` | `MCWorkQueue` | 78,560 | a normal item and two barriers of different priority: `BarrierExclusion`, `EveryItemSettles` |
| `managed` | `MCWorkerExecution` | 622,788 | two workers, items and attempts: `NoReplay`, `StopOrCompletionWins`, `SlotsHaveClaims`, `HoldsAgree`, `StopReportIsTrue`, `SlotsWithinLimits`, `EveryStopIsProved` |
| `plans` | `MCWorkExecutor` | 839,892 | `CheckpointLoads`, `NoBlindRepeat`, `CompletedIsValidated`, `StaysDecided` |
| `jobs` | `MCJobControl` | 349,144 | `OneContinuation`, `OneSession`, `NoOverspending` |
| `routing` | `MCRouterRuntime` | 246,114 | `DecisionHolds`, `WithinBudget`, `LedgerBalances` |
| `context` | `MCRuleContextCache` | 356,221 | `SnapshotsAreReal`, `ReuseIsSound`, `RecordsGoForward` |
| `orchestration` | `MCOrchestrator` | | `NothingAfterDoubt`, `CompletedIsAttested`, `SourcesAreSpared`, `RollbackUndoesLastSave` |
| `tooling` | `MCTooling` | 812,231 | `InstalledOnce`, `CompletedIsTrue`, `WrittenIsRecorded`, `ReportedIsComplete`, `OneReference`, `AdapterIsSpared`, `PackageIsSound` |
| `retry_after_expiry`, `retry_in_caller_transaction`, `second_dispatch` | | | the findings of section 7 |

Each property has a mutant of the code that violates it in its run; the mutated
operators stand before the originals in their modules.

What the properties say is stated above each of them. Those that a reader would
not guess from the name:

* `NextCaptureIsFresh`: blocker rows never run ahead of epochs and generations,
  so that a capture never violates the primary key of its table. A violation
  would abort that claim and each one after it.
* `ImplementsWorkGroups`: the queue refines `WorkGroups`, a specification of
  turns, tries and rounds without tokens, leases or blocker rows.
* `NoReplay`: once a handler's transaction has committed, its item is neither
  given away, retried nor released, whoever lost which answer.
* `NoBlindRepeat`: counts effects in the world, not attempts in the checkpoint.
* `DecisionHolds`: routing again from the same inputs gives the same chain at
  every moment before the decision's expiry.
* `WithinBudget`: what is still reserved for a day and what was settled, on that
  day, from its reservations stay within the limit of a plan. An arm that is
  settled later counts as spend of the later day, as in the code.
* `LedgerBalances`: four tables tell one story: spend, reservations, the arms of
  pairs, and the number of evaluations that makes a model count as assessed.
* `OneSession`: of the sessions the job control started. The one that was there
  before is counted too, unless the job was given its first start before it had
  adopted that session (section 5).
* `SnapshotsAreReal`: compares what a process put together from many reads with
  what the repository was at one instant.
* `CompletedIsTrue`, `PackageIsSound`: compare a report with what was, or with a
  definition that does not use the code's own fixpoint.

### Bounds

**Queue and workers.** `MaxCycles` caps requeues, which the code does not;
attempts are bounded by the policy and generations by both. Conflicts of
barriers are between pairs of items of a group: a normal item with a barrier,
and two barriers of different priority; `ranked` has a triple. A stale token
needs two generations, of which `rearmed` has four for its barrier. A lease of 1
is live, can be renewed and ends. In `managed`, attempts of different items meet
only in the limits and in `StopWorkers`, for which two items, two attempts and
two workers suffice; a stale attempt beside a present one needs two attempts of
one item. The global limit equals the sum of the capacities there; the theorem
`LimitsAreKept` covers all limits.

**Tools.** Each instance is a set of *setups* (or scenes), one per question, so
that what cannot meet is not multiplied:

* `plans`: three capabilities, two crashes, three instants; requests whose
  effects are external, limited, or forbidden. Two crashes suffice for a process
  that dies while an adapter of an earlier one is still running.
* `jobs`: one job with three actions and two checkpoints, from nothing; one from
  the session that registers it; one that is asked and
  notified, two that share a budget for one action each. One tick of time makes
  a grant expire.
* `routing`: two models and a variant; days of three slots and weeks of two
  days, so that peaks over midnight and over the week's end occur; two
  evaluators, two pairs, four days' worth of slots; catalogs synchronised twice.
  Arms cost nothing or what was reserved for them: an arm that costs more than
  its estimate is outside the bound that the ledger can keep, in the code too.
* `context`: repositories of three to five files with a cycle of references, an
  override that appears, a name that becomes ambiguous; two operations, two
  edits, which is what a snapshot needs to be torn. The two processes are
  symmetric.
* `orchestration`: two connections, two models, one source, up to three calls.
* `tooling`: two processes each; three calls or starts (four for the registry,
  five frames for the server with a threshold of two); three modules of a
  release in a chain of needs, up to four commits.

`CHECK_DEADLOCK FALSE` is set where calls, crashes or time are bounded, and in
`managed`, where all work can be done; the queue runs check for deadlock.

The type invariants of `WorkQueue` and `WorkerExecution` are proved. Those of
`WorkExecutor` and `JobControl` say what the variables hold
and hold in the instances above; no run spends time on them.

### Fairness

`Fairness` in `WorkQueue`, assumed for `EveryItemSettles` only: time passes; if
some item stays claimable, somebody claims one (the workers poll); an expired
claim that stays unlocked is recovered (recovery is called periodically, and its
batch is ordered by expiry); an open transaction ends, either way; renewals stop
eventually, because a handler that renewed for ever would hold its item for ever,
which the code allows. Nothing is assumed of handlers. The claim is fair as a
whole, not per item, so the property also says that no item depends on luck in
the choice among candidates. Types are enabled for good from some time on.

`Fairness` in `WorkerExecution`, assumed for `EveryStopIsProved` only: sessions
end, because the executor closes its connection in a `finally` block, and SQL
Server those of dead clients; operators who have stopped an execution reconcile
it when its session is gone, which is the procedure the code offers for that. A
handler that committed on its own leaves its attempt `UNKNOWN`, by intent, and is
exempt.

The tools promise nothing they must eventually do: every operation is started by
somebody, and may die.

## 4. Proofs

All theorems hold for every value of the constants that satisfies the named
assumptions.

| module | theorem | property |
|---|---|---|
| `WorkQueueProofs` | `TypeCorrect` | `TypeOK` |
| | `AttemptsAreCounted`, `DispositionKeepsClaim` | `AttemptLedger`, `OpenTransactionOwnsClaim` |
| | `BarriersExclude`, `BarriersCover`, `CapturesAreFresh` | `BarrierExclusion`, `WaitingBarrierCovered`, `NextCaptureIsFresh` |
| | `ResultsAreFinal`, `LiveClaimsAreKept` | `SettledIsFinal`, `LiveClaimIsHolders` |
| | `QueueImplementsGroups` | `ImplementsWorkGroups` |
| `WorkerExecutionProofs` | `ExecutionTypes` | `TypeOK` |
| | `NothingIsReplayed`, `StopAndCompletionExclude`, `SlotsAndClaimsAgree` | `NoReplay`, `StopOrCompletionWins`, `SlotsHaveClaims` |
| | `HoldsAgreeAlways`, `StopReportsAreTrue`, `LimitsAreKept` | `HoldsAgree`, `StopReportIsTrue`, `SlotsWithinLimits` |
| `WorkExecutorProofs` | `CheckpointsLoad`, `EffectsAreNotRepeated`, `DecisionsStay` | `CheckpointLoads`, `NoBlindRepeat`, `StaysDecided` |
| | `CompletionsAreValidated` | `CompletedIsValidated` |
| `JobControlProofs` | `ContinuedOnce`, `SessionIsOne`, `GrantsAreCovered` | `OneContinuation`, `OneSession`, `NoOverspending` |
| `LockedStateProofs` | `DecisionsHold` | `DecisionHolds` |
| | `BudgetsHold`, `BalancesHold` | `WithinBudget`, `LedgerBalances` |
| | `SnapshotsAreOfOneMoment`, `ReuseKeepsKeys`, `RecordsOnlyAdvance` | `SnapshotsAreReal`, `ReuseIsSound`, `RecordsGoForward` |
| `OrchestratorProofs` | `NothingFollowsDoubt`, `CompletionsAreAttested` | `NothingAfterDoubt`, `CompletedIsAttested` |
| | `SourcesSpared`, `RollbackIsOfLastSave` | `SourcesAreSpared`, `RollbackUndoesLastSave` |
| `ToolingProofs` | `InstallsAreOnce`, `CompletionsAreTrue` | `InstalledOnce`, `CompletedIsTrue` |
| | `WritesAreRecorded`, `ReportsAreComplete` | `WrittenIsRecorded`, `ReportedIsComplete` |
| | `ReferencesAreOne`, `FailingAdapterIsSpared`, `PackagesAreSound` | `OneReference`, `AdapterIsSpared`, `PackageIsSound` |

Every safety property that a run checks is a theorem of the same specification.

**Data (`DataTheorems`).** The provers cannot instantiate an induction theorem that
takes a predicate. What is needed of induction is proved by contradiction
instead: the set of numbers, or of subsets of a finite set, for which a claim
fails has a least member (`LeastNumber`, `MinimalSubset`), and the members below
it do not fail. On this rest the sums of the ledgers, which do not depend on the
order of the fold (`TotalRemove`, `TotalAdd`, `TotalMonotone`), and functions by
recursion (`IterationExists`, `DescentRests`). The modules that are proved about
write recursion as functions, not as `RECURSIVE` operators.

**`WorkQueue`.** Assumptions: the check constraints of `WorkItem` (1 to 10
attempts, a base delay not above the cap) and positive bounds. `ClaimInv` joins
`TypeOK`, `AttemptLedger`, `TokenIsCurrent` and `OpenTransactionOwnsClaim`, none
of which is inductive alone: a retry delay is a number only because the ledger
bounds the attempts; the ledger survives a commit only because the row with an
open disposition is still claimed; and every step that ends a claim needs the row
unlocked. `GroupInv` adds the two properties of barriers: a barrier that becomes
claimed excludes normal items because its snapshot is complete, and other
barriers by the check at the claim. The refinement maps claims to `Start`,
committed dispositions to `Settle` or `Return`, recoveries to `Return`, requeues
to `Reopen`, everything else to a stutter.

**`WorkerExecution`.** Assumptions: limits are numbers, there are an item and a
worker, reservations are finitely many. One inductive invariant says what the
four tables and the sessions know of each other (`AttemptInv`, `SessionInv`,
`ItemInv`, `HoldInv`). `NoReplay`, for instance, survives a release because a held
item whose attempt is `ROLLED_BACK` has no witness, and that is so because it was
recorded when no transaction was open, or by the session itself. `LimitsAreKept`
rests on `OccupiedStep`: nothing but a reservation occupies a slot.

**`WorkExecutor`.** No assumptions beyond those of the module. The invariant ties
the attempts to the process: at most one is open (`Single`); a process that is
about to call has it prepared, one that chooses a candidate has none (`Stage`); a
process runs only where nothing is decided (`Running`); and an attempt that must
not be repeated and is prepared has not been called (`Once`). `Once` is what makes
`NoBlindRepeat` inductive: a call may only add to a count of 0, and the only step
that makes an interrupted attempt prepared again, a restart, asks whether it may
be repeated.

`CompletedIsValidated` needs one assumption more: what adapters claim as evidence
is a sequence. A step is not taken again once it is done, so the work succeeds
once (`Ordered`), and a validator is called only after that: the worker its
evidence was compared with is the worker of the report (`Sourced`).

**`JobControl`.** Assumptions: bounds are numbers, and `None` is neither a number
nor a pair. An event computes with a job it has not saved, so the invariant of a
job, `Good`, is a predicate of what the event works with, and each operator of
the module has a lemma that it keeps it. `Owning`: the host is never behind the
job, and a job that is quiescent has no session of its generation alive.
`Continuing`: every continuation is at most as late as the last one, and the
snapshot is not older than that, so that another pair of generation and
checkpoint is a later one. `Starting`: a start that may still be carried out is
waited for, and while the host is at its generation no session is alive; this is
what `OneSession` rests on when the answer to a start is lost. Of the host it is
used that it only goes forward (`Forward`). Actions carry the owner they were
granted under, because a successor (`Successors`) retires its predecessor and a
first start does not.

`NoOverspending` is a second invariant, `Money`. An event grants actions into a
set of its own, so what it works with is either still as it was read (`Ready`) or
has granted within the budget (`Sound`); what tells and notes spends nothing
(`Spares`). A grant without an entry of its own counts with its reservation, an
entry never with more, so the sum over all spending grants only falls between two
reservations, and a reservation is made only if the sum with it stays below the
hard limit. The sums are over sets of any size.

**`Orchestrator`.** Hypothesis `Settings`: the intervals are numbers, sources and
verifiers speak of models on connections, `None` is not a record. The steps
that work on the request and those that work on the evidence keep separate parts
of the invariant: an invocation in doubt leaves a checkpoint `IN_PROGRESS`, which
no later call may execute (`Doubt`); aliases in use come from evidence that some
contact or verification gave and that was fresh at the call (`Attest`); the time
a source has in the ledger covers its last completed contact, and only the holder
of the lock has marks to write (`Spared`). `RollbackUndoesLastSave` needs no
hypothesis: versions are numbered as they are made, and while the file is the one
a save recorded, what it replaced is the one the record kept (`StoreInv`).

**The router's decision.** Assumptions: identities are different numbers, a day and
a week are not empty; what a catalog may hold is what `validate_catalog` accepts.
A schedule is active exactly from its start on one of its days until its end,
over midnight or not (`Lasts`), and a day of the week comes again within a week
(`WeekdayAgain`), so that every start or end between two instants is among the
boundaries that `next_schedule_boundary` enumerates. If there is none, the same
schedules are active, the same one has the highest priority, and the rates are
the same; hence candidates, chains, their worth and the best of them. Windows and
priors do not depend on time, and before its expiry a catalog stays fresh.

**The router's ledger.** Assumption: catalogs and publications are about the models
there are, and limits are numbers. `LedgerInvariant` says that plans that wait to
be reserved are real (`PlansAreReal`): each trial is a model with a cost that is a
number, which goes through the choice of the cheapest candidates (`Sampled`);
that pairs are numbered and complete exactly when all their arms are settled
(`PairsAreSound`); that reservations are of unsettled arms of active pairs, of the
day of their pair, and end together (`ReservationsAreSound`), without which the
expiry of one arm would leave the other of an expired pair; that reserved and
settled amounts of a day are within a limit (`BudgetsAreKept`); that spend, by day
and in total, is what arms were settled for (`Accounts`), which is why
`reserve_evaluations` may compare spend instead of arms with the limit; and that
evaluations are completed pairs (`Counted`). `ReserveAll` repeats over its trials;
that every state of the repetition is sound is the least-number argument. The
invariant was checked with TLC on `routing` before it was proved.

**`RuleContextCache`.** Assumption: files are finitely many, and no file returns to
contents it had. A snapshot is taken by reading each file, twice, while the
repository goes on; if a file has the same fingerprint in both, it had it at every
moment between (`TakenSince`, `TakenBy`), so all files together are the repository
as it was when the second pass began (`moment`). Without the assumption this is
false: a change that is undone between two reads cannot be seen, and
`SnapshotsAreReal` with it. The inductive invariant says of the repository that it
is built of versions there are (`RepositoryIsReal`), of records that they are of
moments that were (`StoreIsReal`), of each process what it may rely on at each
step (`CallsAreReal`), and that lock files keep writers of a record apart and
those who looked again after taking the lock ahead of the record
(`LocksAreExclusive`). `ReuseKeepsKeys` is about closures in a graph of references
with cycles: what a repeated step has reached after as many steps as there are
nodes is closed (`ClosureCloses`), and stays within each closed set
(`ClosureStays`); an analysis outside the closure of what changed depends on
nothing that did, and has its old key.

**`HostPreparation`.** Whoever provisions holds the lock of a plan in progress
(`Working`), and an installer that must not be repeated has not run while the
plan may still be begun (`Installed`). A process that dies leaves the plan in
progress, which no later call carries on with an install of that kind.

**`ClientIntegration`.** All calls that apply a plan replace the same document by
the same (`Applying`); backup and manifest are there before the write that may be
cut off (`Recorded`). A report is written by a call whose copies are all in the
directory, from which nothing is taken away (`Copied`). The assumption is that a
synthesis asks for a configuration.

**`ArtifactRegistry`.** Assumption: `None` is neither a process nor a registry. Only
the holder of the lock file is between its read and its write, the copy it is
about to write only adds to the registry on disk, allocations are injective, and
everything ever allocated or written into an artifact stays in the registry.

**`AdapterServer`.** Assumption: the threshold is positive, the cooldown a number. The
breaker counts at least the failures since the last success, and once it counts
enough of them its time covers the last.

**`ReleasePreparation`.** Assumption: the modules of a product are finitely many. The
passes that demote modules end at the largest set of validated modules that need
only each other, by descent of a finite set; that this is what the property says
in terms of everything a module needs, directly or not, is a closure argument.
Commits do not go away, so what held of a package at its commit keeps holding
(`Grown`, `Good`), and of the two files the second is only ever the first
(`Written`).

`Settings` stands in the theorems of `Orchestrator` because they need more of the
instance than the module assumes.

### Only model-checked

* `EveryItemSettles`, `EveryStopIsProved`: liveness under fairness, and
  `ENABLED`, are beyond the prover.

## 5. What is not modelled

Product:

* `WorkQueue` and `WorkerExecution` together. The first has the gate of managed
  operation off, as it is after installation; the second has it on and leaves
  the order of claims, groups, barriers and the count of attempts to the first.
* Registration of workers and its generations, heartbeats, closing, intervals,
  changes of capacity and limits, switching managed operation; a worker that is
  paused, draining, closed or unreachable is one that admits nothing.
* The guardian that renews leases, the cancellation of running commands and the
  supervision of actors. Their effect on the tables is in the model.
* Idempotency keys: the race of two first enqueues is decided by range locks of
  the engine.
* Permissions, the removal of work types, sessions under `SNAPSHOT` isolation.
* The session services and all pure modules.

Tools:

* Planner and executor: example generation, session lifecycle documents.
* Job control: the interval of the heartbeat, all but a window of notifications,
  the evidence behind a route; autonomy is granted.
* Router: parsing of profiles, the protocol of the MCP server. Routing inside the
  orchestrator is replaced by any choice the catalogs offer.
* Cache: symbolic links that leave the repository, the client's own
  configuration. A file does not return to earlier bytes: two equal snapshots
  around such a change cannot be told from a quiet repository.
* Orchestrator: discovery of runtimes, direct invocation without a checkpoint.
  A hand edit of the file of connections gives a version that nobody had before,
  and does not fall between the two writes of a save, which would overwrite it.
* Server: malformed frames. Provisioning: the `verify` report, several reasons of
  failed downloads. Clients: verification of an integration, configurations that
  cannot be parsed. Releases: the CLR package and its evidence, recovery
  archives, `--check`; commits do not go away.
* Generators and validators of text, deployment scripts.

Weak spots met on the way, which nothing in the repository promises to avoid and
no property forbids:

* Two plans on one client configuration, or a user's edit between the comparison
  of its hash and the replacement, lose an entry (`client_integration.py:452`);
  a rollback has the same window (552-561). A process that dies after it has
  written the configuration leaves a plan that is never rolled back (547-548).
* A plan for a `GENERIC` client over MCP can never be applied (352-363, 469-470).
* A refusal of the open circuit counts as a failure and extends the cooldown.
* A process that dies with a lock file leaves it for somebody to remove
  (`model_router.py:180`, the cache, the registry).
* Cancellation is looked at after an attempt that failed, so a plan whose last
  attempt succeeds completes (`ai_executor.py:912`).
* A host that has a session and is registered before its first snapshot can be
  read leaves the job in `NEEDS_INPUT`, where a later `REGISTER` does not adopt
  the session. `RESUME` finds it stale; if the session has generation 0, it starts
  a second one beside it (`orchestration_control.py:486-495`). This is why
  `OneSession` excepts the session that was there before.
* An evaluation may cost more than was reserved for it: the ledger records it, and
  the day's budget is exceeded (`model_router.py:338`).
* A barrier whose type was disabled cannot be claimed and still blocks its group.

## 6. Plan

| next | models | states |
|---|---|---|
| `WorkerRegistry` | registration and its generations, pauses, changes of limits | one live generation per worker |
| `ManagedQueue` | claims and completions of `WorkQueue` under `WorkerExecution` | `WorkGroups` with holds |
| `EnqueueKeys` | idempotency keys under range locks and rollbacks | a key names one item |
| an abstraction of `WorkExecutor` | an operation is tried, and decided once | refinement |
| proofs | the types of `WorkExecutor`, `JobControl`, `Orchestrator` as theorems; refinement of the abstraction above | |

## 7. Divergences

* `retry_in_caller_transaction`: the documentation says that
  `USP_ScheduleWorkRetry` refuses a transaction of the caller; the code joins it.
* `retry_after_expiry`: the documentation says that an expired lease is refused;
  the retry compares it with a clock read before the wait for the row lock,
  unlike complete, fail and renew. It cannot overturn anything
  (`OpenTransactionOwnsClaim` still holds), but it succeeds after the end of the
  lease.
* `second_dispatch`: the guide says that only a definite failure before the
  invocation, or of the validation, opens the way to a fallback; a connection
  that is reset after the request was sent, or an answer whose output cannot be
  published, does so too, because both are reported as rejected input.
* Without a run: a retry that dead-letters keeps claim token and lease
  (`USP_ScheduleWorkRetryCore.sql:48`), which the documentation says are cleared
  (`USP_ScheduleWorkRetry.md:9`); recovery clears them. The model has it.
