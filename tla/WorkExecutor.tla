----------------------------- MODULE WorkExecutor -----------------------------
(***************************************************************************)
(* The executor of a plan (ai_executor.py). It keeps a checkpoint in a     *)
(* file that it replaces atomically, under a file lock that the operating  *)
(* system releases when the process dies; so at most one process runs the  *)
(* plan, it can die between any two saves, and the next one goes on from   *)
(* what was saved. Adapters are child processes: they can outlive an       *)
(* executor that dies.                                                     *)
(*                                                                         *)
(* What the process changes in memory it saves before it does anything     *)
(* that can be seen, so an action goes from one save to the next one that  *)
(* matters, and the checkpoint in memory is the one in the file.           *)
(***************************************************************************)
EXTENDS WorkPlanning

CONSTANTS
  Requests, RawCatalogs,  \* the inputs the plan is made from
  Bound,                  \* the capabilities with an adapter binding
  Extra,                  \* what a call may use beyond its estimate
  Answers,                \* what a validator may return: sequences of evidence
  Receipts,               \* approvals somebody may give: when, and until when
  MaxTime, MaxCrashes     \* bounds of the model

ASSUME RequestsAssumption == \A r \in Requests : ValidRequest(r)
ASSUME AnswersAssumption == \A items \in Answers : items \in Seq(RangeOf(items))
ASSUME BoundsAssumption == MaxTime \in Nat /\ MaxCrashes \in Nat

VARIABLES
  now,
  task,       \* request, catalog and plan: the arguments of the executor, always the same
  state,      \* of the checkpoint
  attempts,   \* of the checkpoint; the position stands for the operation key
  evidence,   \* of the checkpoint
  cancelled,  \* the cancellation marker is there
  process,    \* the running executor
  flight,     \* running adapter processes of each attempt
  effect,     \* how often the operation of each attempt took effect
  crashes

checkpoint == <<state, attempts, evidence>>
vars == <<now, task, checkpoint, cancelled, process, flight, effect, crashes>>

request == task.request
plan == task.plan

Terminal == {"COMPLETED", "FAILED", "CANCELLED", "UNAVAILABLE", "BLOCKED"}
State == Terminal \cup {"ACTIVE", "MANUAL_REQUIRED"}
Status == {"PREPARED", "IN_PROGRESS", "SUCCEEDED", "FAILED", "UNKNOWN"}
Open == {"PREPARED", "IN_PROGRESS"}
Quantity == {"cost", "cpu", "ram"}
Nothing == [q \in Quantity |-> 0]
External == request.effects \cap ExternalEffect # {}
NoProcess == [pc |-> "NONE", approved |-> FALSE, replay |-> FALSE]

TypeOK ==
  /\ now \in 0 .. MaxTime
  /\ state \in State
  /\ attempts \in Seq([step : {"work", "validate"}, capability : Capability, status : Status,
                       ambiguous : BOOLEAN, used : [Quantity -> Nat]])
  /\ \A e \in evidence : e.attempt \in DOMAIN attempts /\ e.scope \in request.scopes
  /\ cancelled \in BOOLEAN
  /\ process \in [pc : {"NONE", "STEP", "CANDIDATE", "PREPARED", "CALL", "LATE"}, approved : BOOLEAN, replay : BOOLEAN]
  /\ flight \in [DOMAIN attempts -> Nat] /\ effect \in [DOMAIN attempts -> Nat]
  /\ crashes \in 0 .. MaxCrashes

(***************************************************************************)
(* The planner and the executor's constructor agree on the plan: the       *)
(* executor makes it again and compares.                                   *)
(***************************************************************************)
Init ==
  /\ now = 0
  /\ \E r \in Requests, raw \in RawCatalogs :
       task = [request |-> r, catalog |-> Catalog(raw), plan |-> Plan(r, Catalog(raw), 0)]
  /\ state = "ACTIVE" /\ attempts = << >> /\ evidence = {}
  /\ cancelled = FALSE
  /\ process = NoProcess
  /\ flight = << >> /\ effect = << >>
  /\ crashes = 0

(***************************************************************************)
(* Reading the checkpoint.                                                 *)
(***************************************************************************)
Of(step) == {n \in DOMAIN attempts : attempts[n].step = step}
Done(step) == \E n \in Of(step) : attempts[n].status = "SUCCEEDED"
Pending == {n \in DOMAIN attempts : attempts[n].status \in Open}
Latest == CHOOSE n \in Pending : TRUE
Descriptor(n) == task.catalog[attempts[n].capability]
Late == request.deadline # None /\ now >= request.deadline
EligibleNow(i) == Eligible(request, task.catalog[i], now)

Steps == {plan.steps[k].name : k \in DOMAIN plan.steps}
Current == plan.steps[MinOf({k \in DOMAIN plan.steps : ~Done(plan.steps[k].name)})]

\* What the attempts have used; ram is a peak.
Peak(S) == IF S = {} THEN 0 ELSE CHOOSE m \in S : \A k \in S : k <= m
UsedUpTo[q \in Quantity, n \in 0 .. Len(attempts)] ==
  IF n = 0 THEN 0
  ELSE IF q = "ram" THEN Peak({UsedUpTo[q, n - 1], attempts[n].used[q]})
  ELSE UsedUpTo[q, n - 1] + attempts[n].used[q]
Used(q) == UsedUpTo[q, Len(attempts)]

Limit(q) == IF q = "cost" THEN request.maxCost ELSE request.limit[q]
Estimate(c, q) == IF q = "cost" THEN c.cost ELSE c.usage[q]
Projected(q, amount) == IF q = "ram" THEN Peak({Used(q), amount}) ELSE Used(q) + amount

\* An unknown estimate does not fit under a limit.
FitsBudget(c) ==
  \A q \in Quantity : Limit(q) # None => /\ Estimate(c, q) # None
                                         /\ Projected(q, Estimate(c, q)) <= Limit(q)

MaxAttempts == IF request.maxAttempts = None THEN 4 * Len(plan.steps) ELSE request.maxAttempts

\* The capabilities the loop over the candidates still has before it.
Untried ==
  {i \in Current.candidates : /\ EligibleNow(i)
                              /\ \A n \in Of(Current.name) : attempts[n].capability = i => attempts[n].status = "PREPARED"}

ValidationStatus ==
  LET passed == {e.scope : e \in {f \in evidence : f.result = "PASSED"}}
  IN  IF request.scopes = {} THEN "NOT_REQUIRED"
      ELSE IF evidence = {} THEN "UNAVAILABLE"
      ELSE IF \E e \in evidence : e.result = "FAILED" THEN "FAILED"
      ELSE IF passed = request.scopes THEN "PASSED"
      ELSE IF \E e \in evidence : e.result = "INCONCLUSIVE" THEN "INCONCLUSIVE"
      ELSE "UNAVAILABLE"

(***************************************************************************)
(* Ends of a process: a report, with the state saved before it.            *)
(***************************************************************************)
Report(s) == state' = s /\ process' = NoProcess
Goto(pc) == process' = [process EXCEPT !.pc = pc, !.replay = FALSE]
CloseUnsaved(n, status) == UNCHANGED attempts  \* Mutant: the status is not saved.
Close(n, status) == attempts' = [attempts EXCEPT ![n].status = status]

\* After an adapter call that did not succeed, and after every replay.
Proceed(pc) ==
  IF cancelled THEN Report("CANCELLED") ELSE Goto(pc) /\ UNCHANGED state

(***************************************************************************)
(* A process starts: it checks the plan, takes the lock and loads the      *)
(* checkpoint. Where it only repeats an earlier report nothing changes. An *)
(* attempt in progress belongs to a process that died: its outcome is      *)
(* unknown. If it may have had an external effect, it is repeated only     *)
(* with a capability that recognises a repetition by its key.              *)
(***************************************************************************)
RepeatableAlways(n) == TRUE  \* Mutant: the capability is not asked.
Repeatable(n) == External => Descriptor(n).idempotent

\* Mutant: the outcome that was not known is forgotten.
UndecidedByState == state \notin Terminal
Undecided == state \notin Terminal /\ \A n \in DOMAIN attempts : ~attempts[n].ambiguous

ValidCheckpoint == Cardinality(Pending) <= 1

ValidPlan == plan.generated < plan.validUntil /\ now < plan.validUntil

\* A receipt is checked when the process starts, and not again.
ValidReceipt(receipt) == receipt.approved <= now /\ now < receipt.expires /\ receipt.approved < receipt.expires

Execute(receipts) ==
  /\ process = NoProcess
  /\ ValidPlan /\ \A receipt \in receipts : ValidReceipt(receipt)
  /\ ValidCheckpoint /\ Undecided
  /\ LET broken == {n \in Pending : attempts[n].status = "IN_PROGRESS"}
     IN  IF cancelled
         THEN Report("CANCELLED") /\ UNCHANGED attempts
         ELSE IF \E n \in broken : ~Repeatable(n)
         THEN /\ Report("MANUAL_REQUIRED")
              /\ attempts' = [n \in DOMAIN attempts |->
                                IF n \in broken THEN [attempts[n] EXCEPT !.status = "UNKNOWN", !.ambiguous = TRUE]
                                                ELSE attempts[n]]
         ELSE /\ attempts' = [n \in DOMAIN attempts |->
                                IF n \in broken THEN [attempts[n] EXCEPT !.status = "PREPARED"] ELSE attempts[n]]
              /\ IF plan.status \in {"UNAVAILABLE", "BLOCKED"} \/ plan.steps = << >>
                 THEN Report(plan.status)
                 ELSE /\ process' = [pc |-> "STEP", approved |-> receipts # {}, replay |-> FALSE]
                      /\ UNCHANGED state
  /\ UNCHANGED <<now, task, evidence, cancelled, flight, effect, crashes>>

(***************************************************************************)
(* The loop over the steps.                                                *)
(***************************************************************************)
Finish ==
  /\ process.pc = "STEP"
  /\ \A step \in Steps : Done(step)
  /\ Report(CASE ValidationStatus \in {"PASSED", "NOT_REQUIRED"} -> "COMPLETED"
              [] ValidationStatus = "FAILED" -> "FAILED"
              [] OTHER -> "MANUAL_REQUIRED")
  /\ UNCHANGED <<now, task, attempts, evidence, cancelled, flight, effect, crashes>>

StartStep ==
  /\ process.pc = "STEP"
  /\ \E step \in Steps : ~Done(step)
  /\ IF Current.name = "work" /\ plan.gate /\ ~process.approved
     THEN Report("MANUAL_REQUIRED") /\ UNCHANGED attempts
     ELSE IF Late
     THEN Report("BLOCKED") /\ UNCHANGED attempts
     ELSE IF Pending = {}
     THEN Goto("CANDIDATE") /\ UNCHANGED <<state, attempts>>
     ELSE IF ~EligibleNow(attempts[Latest].capability)
     THEN Goto("CANDIDATE") /\ Close(Latest, "FAILED") /\ UNCHANGED state
     ELSE IF ~FitsBudget(Descriptor(Latest))
     THEN Report("BLOCKED") /\ UNCHANGED attempts
     ELSE /\ process' = [process EXCEPT !.pc = "PREPARED", !.replay = TRUE]
          /\ UNCHANGED <<state, attempts>>
  /\ UNCHANGED <<now, task, evidence, cancelled, flight, effect, crashes>>

(***************************************************************************)
(* The loop over the candidates of a step. The attempt is saved before it  *)
(* is called.                                                              *)
(***************************************************************************)
NewAttempt(i) ==
  [step |-> Current.name, capability |-> i, status |-> "PREPARED", ambiguous |-> FALSE, used |-> Nothing]

Prepare ==
  /\ process.pc = "CANDIDATE"
  /\ IF Untried = {} \/ Len(attempts) >= MaxAttempts
     THEN Report("UNAVAILABLE") /\ UNCHANGED <<attempts, flight, effect>>
     ELSE LET i == Preferred(request, task.catalog, Untried)
          IN  IF ~FitsBudget(task.catalog[i])
              THEN Report("BLOCKED") /\ UNCHANGED <<attempts, flight, effect>>
              ELSE /\ attempts' = Append(attempts, NewAttempt(i))
                   /\ flight' = Append(flight, 0) /\ effect' = Append(effect, 0)
                   /\ Goto("PREPARED") /\ UNCHANGED state
  /\ UNCHANGED <<now, task, evidence, cancelled, crashes>>

\* Without a binding the attempt fails. After the deadline there is no call.
Invoke ==
  /\ process.pc = "PREPARED"
  /\ IF attempts[Latest].capability \notin Bound
     THEN Close(Latest, "FAILED") /\ Proceed("CANDIDATE") /\ UNCHANGED flight
     ELSE /\ Close(Latest, "IN_PROGRESS")
          /\ process' = [process EXCEPT !.pc = IF Late THEN "LATE" ELSE "CALL"]
          /\ flight' = IF Late THEN flight ELSE [flight EXCEPT ![Latest] = @ + 1]
          /\ UNCHANGED state
  /\ UNCHANGED <<now, task, evidence, cancelled, effect, crashes>>

(***************************************************************************)
(* The adapter answers. Evidence is taken one piece after the other; the   *)
(* first piece that is refused fails the attempt, and the pieces before it *)
(* stay in the checkpoint.                                                 *)
(***************************************************************************)
Worker == attempts[CHOOSE n \in Of("work") : attempts[n].status = "SUCCEEDED"].capability

\* Mutants: the scope of the evidence is not checked, or whether the worker checks itself.
RefusedInAnyScope(item) ==
  \/ ~item.sound
  \/ request.independent /\ (~item.independent \/ Worker = attempts[Latest].capability)
RefusedByFlag(item) ==
  \/ ~item.sound
  \/ item.scope \notin request.scopes
  \/ request.independent /\ ~item.independent

Refused(item) ==
  \/ ~item.sound
  \/ item.scope \notin request.scopes
  \/ request.independent /\ (~item.independent \/ Worker = attempts[Latest].capability)

Accepted(items) == {k \in DOMAIN items : \A m \in 1 .. k : ~Refused(items[m])}

Returned(c, extra) == [q \in Quantity |-> OrElse(Estimate(c, q), 0) + extra[q]]

CallSucceeds(extra, items) ==
  /\ process.pc = "CALL"
  /\ LET n == Latest
         validating == attempts[n].step = "validate"
         accepted == IF validating THEN Accepted(items) ELSE {}
         good == validating => items # << >> /\ accepted = DOMAIN items
         used == Returned(Descriptor(n), extra)
         over == \E q \in Quantity : Limit(q) # None /\ Projected(q, used[q]) > Limit(q)
     IN  /\ ~validating => items = << >>
         /\ attempts' = [attempts EXCEPT ![n].status = IF good THEN "SUCCEEDED" ELSE "FAILED", ![n].used = used]
         /\ evidence' = evidence \cup {[scope |-> items[k].scope, result |-> items[k].result,
                                        independent |-> items[k].independent, attempt |-> n] : k \in accepted}
         /\ flight' = [flight EXCEPT ![n] = @ - 1]
         /\ effect' = [effect EXCEPT ![n] = @ + 1]
         /\ IF ~good THEN Proceed("CANDIDATE")
            ELSE IF process.replay /\ cancelled THEN Report("CANCELLED")
            ELSE IF over THEN Report("BLOCKED")
            ELSE Goto("STEP") /\ UNCHANGED state
  /\ UNCHANGED <<now, task, cancelled, crashes>>

(***************************************************************************)
(* The call fails: a timeout, an error, an answer that is not well formed  *)
(* or that does not agree with the output. The adapter process is gone     *)
(* then, before or after its effect.                                       *)
(***************************************************************************)
CallNotMade ==
  /\ process.pc = "LATE"
  /\ Close(Latest, "FAILED")
  /\ Proceed("CANDIDATE")
  /\ UNCHANGED <<now, task, evidence, cancelled, flight, effect, crashes>>

CallFails(took) ==
  /\ process.pc = "CALL"
  /\ Close(Latest, "FAILED")
  /\ flight' = [flight EXCEPT ![Latest] = @ - 1]
  /\ effect' = IF took THEN [effect EXCEPT ![Latest] = @ + 1] ELSE effect
  /\ Proceed("CANDIDATE")
  /\ UNCHANGED <<now, task, evidence, cancelled, crashes>>

(***************************************************************************)
(* The environment: a marker is written at any time, the executor dies, an *)
(* adapter whose executor has died ends with or without its effect, time   *)
(* goes on.                                                                *)
(***************************************************************************)
RequestCancel ==
  /\ ~cancelled
  /\ cancelled' = TRUE
  /\ UNCHANGED <<now, task, checkpoint, process, flight, effect, crashes>>

Crash ==
  /\ process # NoProcess /\ crashes < MaxCrashes
  /\ process' = NoProcess
  /\ crashes' = crashes + 1
  /\ UNCHANGED <<now, task, checkpoint, cancelled, flight, effect>>

OrphanEnds(n, took) ==
  /\ flight[n] > IF process.pc = "CALL" /\ n \in Pending THEN 1 ELSE 0
  /\ flight' = [flight EXCEPT ![n] = @ - 1]
  /\ effect' = IF took THEN [effect EXCEPT ![n] = @ + 1] ELSE effect
  /\ UNCHANGED <<now, task, checkpoint, cancelled, process, crashes>>

Tick ==
  /\ now < MaxTime
  /\ now' = now + 1
  /\ UNCHANGED <<task, checkpoint, cancelled, process, flight, effect, crashes>>

Step ==
  \/ \E receipts \in {{}} \cup {{receipt} : receipt \in Receipts} : Execute(receipts)
  \/ Finish
  \/ StartStep
  \/ Prepare
  \/ Invoke
  \/ \E extra \in Extra, items \in Answers : CallSucceeds(extra, items)
  \/ CallNotMade
  \/ \E took \in BOOLEAN : CallFails(took)

Next ==
  \/ Step
  \/ RequestCancel
  \/ Crash
  \/ \E n \in DOMAIN attempts, took \in BOOLEAN : OrphanEnds(n, took)
  \/ Tick

Spec == Init /\ [][Next]_vars

(***************************************************************************)
(* Properties.                                                             *)
(***************************************************************************)

\* The checkpoint that is saved can be loaded again: at most one attempt in it is open
\* (validate_checkpoint refuses more, and the plan would be stuck).
CheckpointLoads == ValidCheckpoint

\* An operation with an external effect that a capability would not recognise as a repetition
\* takes effect at most once, whenever executors die and however often they are started.
NoBlindRepeat ==
  \A n \in DOMAIN attempts : External /\ ~Descriptor(n).idempotent => effect[n] + flight[n] <= 1

\* Work is reported as completed only with every step done and passing evidence for each scope,
\* none failed, and, where it has to be independent, none from the capability that did the work.
CompletedIsValidated ==
  state = "COMPLETED" =>
    /\ \A step \in Steps : Done(step)
    /\ \A scope \in request.scopes : \E e \in evidence : e.scope = scope /\ e.result = "PASSED"
    /\ \A e \in evidence : e.result # "FAILED"
    /\ request.independent => \A e \in evidence : e.independent /\ attempts[e.attempt].capability # Worker

\* A decided plan stays decided: after a terminal report or an ambiguous outcome no later start
\* of the executor changes the checkpoint or calls anything.
Untouched == UNCHANGED checkpoint /\ \A n \in DOMAIN flight : flight'[n] <= flight[n]

StaysDecided ==
  [][(state \in Terminal \/ \E n \in DOMAIN attempts : attempts[n].ambiguous) => Untouched]_vars
===============================================================================
