------------------------------ MODULE JobControl ------------------------------
(***************************************************************************)
(* The job control of foundation-orchestrator-control/v1                   *)
(* (orchestration_control.py). An event makes the controller read the last *)
(* snapshot the host wrote, and it may grant one action; the host carries  *)
(* grants out, loses them or fails with them, and acknowledges them in a   *)
(* later snapshot. Control state is one file under one lock, replaced      *)
(* atomically before the report is returned, so an event is one step.      *)
(* All jobs here share one budget.                                         *)
(*                                                                         *)
(* The host is external: it carries a grant out at most once, not after it *)
(* has expired or the owner has changed, and writes what is so, but late.  *)
(***************************************************************************)
EXTENDS FiniteSets, Integers, Sums

CONSTANTS
  Job, None,
  Setups,         \* control configurations: what is fixed when the jobs are registered
  Routable,       \* the times at which the evidence yields a route for a start
  MaxTime, MaxSequence, MaxCheckpoint  \* bounds of the model

ASSUME NoneAssumption == None \notin Nat \cup (Nat \X Nat)
ASSUME BoundsAssumption == MaxTime \in Nat /\ MaxSequence \in Nat /\ MaxCheckpoint \in Nat

Event == {"REGISTER", "STATUS", "HEARTBEAT", "EVENT", "PAUSE", "CANCEL", "RESUME", "ROTATE", "SOURCE_FAILED"}
Generation == 0 .. MaxSequence
Checkpoint == 0 .. MaxCheckpoint

(***************************************************************************)
(* A setup: the capabilities of the client of each job; the bound on       *)
(* dispatches and the budget, [soft, hard, next], of which there has to be *)
(* one; the session that is already there when a job is registered, or     *)
(* None; what hosts may say of sessions; which events somebody raises; and *)
(* two bounds of the model: on the actions of a job, and the checkpoint    *)
(* where its work is complete.                                             *)
(***************************************************************************)
ASSUME SetupsAssumption ==
  \A c \in Setups :
    /\ c.capability \in [Job -> SUBSET {"START_SESSION", "RESUME_SESSION", "SUCCESSOR_SESSION", "RESEARCH", "NOTIFY"}]
    /\ c.limit \in Nat \cup {None} /\ (c.limit = None => c.budget # None)
    /\ c.budget # None => c.budget.hard \in Nat /\ c.budget.next \in Nat /\ c.budget.soft \in Nat \cup {None}
    /\ c.events \subseteq Event /\ c.session \in [Job -> {None} \cup Generation]
    /\ c.actions \in [Job -> 0 .. MaxSequence] /\ c.last \in [Job -> Checkpoint]

VARIABLES
  now,
  setup,      \* the control configurations, which are frozen
  job,        \* control/state.json: a function on the jobs that are registered
  ledger,     \* control/state.json: the counter and the reservations of the budget
  snapshot,   \* the observation files
  entries,    \* the entries of the budget file
  grants,     \* every action ever returned
  host        \* of each job: the sessions that are alive, what they do, what was done with grants

control == <<job, ledger, grants>>
vars == <<now, setup, control, snapshot, entries, host>>

Stopped == {"PAUSED", "COMPLETED", "CANCELLED"}
States == {"READY", "RUNNING", "WAITING", "NEEDS_INPUT"} \cup Stopped
Spending == {"START_SESSION", "RESUME_SESSION", "RESEARCH"}
Kind == Spending \cup {"CHECK_STATUS", "PREPARE_HANDOFF", "CHECKPOINT", "NOTIFY"}
TypeOK ==
  /\ DOMAIN job \subseteq Job
  /\ \A j \in DOMAIN job :
       /\ job[j].state \in States
       /\ job[j].owner \in {None} \cup Generation /\ job[j].generation \in Generation
       /\ job[j].checkpoint \in {None} \cup Checkpoint
       /\ job[j].pending \subseteq grants
       /\ job[j].resumed \in {None} \cup Generation \X Checkpoint
       /\ job[j].quiescent \in BOOLEAN
  /\ \A a \in grants : a.job \in Job /\ a.number \in 1 .. MaxSequence /\ a.kind \in Kind /\ a.generation \in Generation
  /\ \A a, b \in grants : a.job = b.job /\ a.number = b.number => a = b
  /\ ledger.used \in Nat /\ DOMAIN ledger.settlement \subseteq grants

(***************************************************************************)
(* The budget of a wave (processing_efficiency.py): what was measured and  *)
(* what is reserved. Somebody has to measure before a hard limit can be    *)
(* relied on. A budget has one line for an action.                         *)
(***************************************************************************)
Amount(line) == line.reserved + (IF line.consumed = None THEN 0 ELSE line.consumed)
BudgetDecision(lines) ==
  LET projected == setup.budget.next + Total([a \in DOMAIN lines |-> Amount(lines[a])], DOMAIN lines)
  IN  IF projected >= setup.budget.hard THEN "STOP_NEW_WORK"
      ELSE IF \E a \in DOMAIN lines : lines[a].provenance # "MEASURED" THEN "BUDGET_UNVERIFIED"
      ELSE IF setup.budget.soft # None /\ projected >= setup.budget.soft THEN "CHECKPOINT"
      ELSE "ALLOW_NEW_WORK"

(***************************************************************************)
(* When a session should end (session_lifecycle of ai_work.py). Ratios are *)
(* percentages; a quantity that is not known is None.                      *)
(***************************************************************************)
SessionLifecycle(l) ==
  LET reached(percent) == l.tokens # None /\ l.window # None /\ 100 * l.tokens >= percent * l.window
      natural == l.boundary \in {"WORK_ITEM_COMPLETED", "MILESTONE_COMPLETED", "MAJOR_TOPIC_CHANGE"}
  IN  IF l.boundary = "USER_REQUESTED" \/ reached(l.hard) THEN "ROTATE_REQUIRED"
      ELSE IF reached(l.soft) /\ natural THEN "ROTATE_AT_BOUNDARY"
      ELSE IF reached(l.soft) \/ (l.since # None /\ l.since >= l.delta) THEN "CHECKPOINT"
      ELSE "CONTINUE"

(***************************************************************************)
(* An event works on what it has read: the job, the ledger, and the        *)
(* actions it is going to return.                                          *)
(***************************************************************************)
NewJob ==
  [state |-> "READY", owner |-> None, generation |-> 0, checkpoint |-> None, pending |-> {}, resumed |-> None,
   base |-> None, progress |-> None, sequence |-> 0, notified |-> {}, researched |-> FALSE,
   lifecycle |-> None, quiescent |-> FALSE]

\* Mutant: the sequence number is not kept.
EmitUnnumbered(k, j, kind, next) ==
  LET action == [job |-> j, number |-> k.job.sequence + 1, kind |-> kind, generation |-> k.job.generation,
                 owner |-> k.job.owner, next |-> next, checkpoint |-> k.job.checkpoint, until |-> now + 1]
  IN  [k EXCEPT !.job.pending = @ \cup {action}, !.actions = @ \cup {action}]

Emit(k, j, kind, next) ==
  LET action == [job |-> j, number |-> k.job.sequence + 1, kind |-> kind, generation |-> k.job.generation,
                 owner |-> k.job.owner, next |-> next, checkpoint |-> k.job.checkpoint, until |-> now + 1]
  IN  [k EXCEPT !.job.sequence = @ + 1, !.job.pending = @ \cup {action}, !.actions = @ \cup {action}]

\* Somebody is told once of a state, a reason and a checkpoint.
Notify(k, j, reason) ==
  LET key == <<k.job.state, reason, k.job.checkpoint>>
  IN  IF key \in k.job.notified \/ "NOTIFY" \notin setup.capability[j] THEN k
      ELSE [Emit(k, j, "NOTIFY", None) EXCEPT !.job.notified = @ \cup {key}]

Manual(k, j, reason) == Notify([k EXCEPT !.job.state = "NEEDS_INPUT"], j, reason)

\* A grant that spends: against the counter, and against the budget file, where a grant that has no
\* entry yet counts with what was reserved for it, or as unknown once it was acknowledged.
Unentered(acknowledged) ==
  [consumed |-> IF acknowledged THEN None ELSE 0, reserved |-> setup.budget.next,
   provenance |-> IF acknowledged THEN "UNKNOWN" ELSE "MEASURED"]

OpenForgotten(k) == [a \in {} |-> FALSE]  \* Mutant: grants without an entry are not counted.
Open(k) == [a \in DOMAIN k.ledger.settlement \ DOMAIN entries |-> k.ledger.settlement[a]]

Lines(k) ==
  [a \in DOMAIN entries \cup DOMAIN Open(k) |-> IF a \in DOMAIN entries THEN entries[a] ELSE Unentered(Open(k)[a])]

Reserve(k, j, kind, next) ==
  LET read == [k EXCEPT !.ledger.settlement = Open(k)]
      made == Emit(read, j, kind, next)
      action == CHOOSE a \in made.actions : a.kind = kind
  IN  IF setup.limit # None /\ k.ledger.used >= setup.limit THEN Manual(k, j, "DISPATCH_BOUND_REACHED")
      ELSE IF setup.budget = None THEN [made EXCEPT !.ledger.used = @ + 1]
      ELSE IF BudgetDecision(Lines(k)) # "ALLOW_NEW_WORK" THEN Manual(read, j, BudgetDecision(Lines(k)))
      ELSE [made EXCEPT !.ledger.used = @ + 1,
                        !.ledger.settlement = [a \in DOMAIN @ \cup {action} |-> IF a = action THEN FALSE ELSE @[a]]]

Granted(k, before) == k.ledger.used > before.ledger.used

(***************************************************************************)
(* Starting and resuming a session. Whether the evidence yields a route    *)
(* for the start is up to the planner.                                     *)
(***************************************************************************)
RouteStart(k, j, successor) ==
  IF "START_SESSION" \notin setup.capability[j] \/ (successor /\ "SUCCESSOR_SESSION" \notin setup.capability[j])
  THEN Manual(k, j, "START_MODEL_SELECTION_REQUIRED")
  ELSE IF now \notin Routable THEN Manual(k, j, "START_MODEL_EVIDENCE_REQUIRED")
  ELSE LET made == Reserve(k, j, "START_SESSION", k.job.generation + 1)
       IN  IF Granted(made, k) THEN [made EXCEPT !.job.state = "RUNNING"] ELSE made

\* A session is resumed once at a checkpoint, and again only with proof of progress since then.
Progressed(r, s) ==
  s.progress # None /\ s.progress.checkpoint = r.checkpoint /\ s.progress.previous = r.base /\ s.progress.ref # r.progress

\* Mutant: the checkpoint of the continuation is not kept.
ContinuedOnly(k, s) == [k EXCEPT !.job.state = "RUNNING"]
Continued(k, s) ==
  [k EXCEPT !.job.resumed = <<k.job.generation, k.job.checkpoint>>, !.job.base = k.job.checkpoint,
            !.job.progress = IF s.progress = None THEN None ELSE s.progress.ref, !.job.state = "RUNNING"]

ResumeOrStart(k, j, s) ==
  LET key == <<k.job.generation, k.job.checkpoint>>
      made == Reserve(k, j, "RESUME_SESSION", None)
  IN  IF k.job.owner = None THEN RouteStart(k, j, FALSE)
      ELSE IF "RESUME_SESSION" \notin setup.capability[j] THEN Manual(k, j, "MANUAL_CONTINUATION_REQUIRED")
      ELSE IF k.job.resumed = key THEN [k EXCEPT !.job.state = "READY"]
      ELSE IF k.job.resumed # None /\ ~Progressed(k.job, s) THEN Manual(k, j, "PROGRESS_EVIDENCE_REQUIRED")
      ELSE IF ~Granted(made, k) THEN made
      ELSE Continued(made, s)

(***************************************************************************)
(* An acknowledgment. Only a success, or the operator's word that nothing  *)
(* was started, takes the action off the list; anything else leaves it     *)
(* there for somebody to look at. "failed" is an error the code raises.    *)
(***************************************************************************)
Settled(k, a) == IF a \in DOMAIN k.ledger.settlement THEN [k EXCEPT !.ledger.settlement[a] = TRUE] ELSE k
Done(k, a) == [k EXCEPT !.job.pending = @ \ {a}]

QuiescentWhenIdle(s) == s.execution = "IDLE"  \* Mutant: an idle session passes for a retired one.
Quiescent(s) == s.retired /\ s.execution = "IDLE"

Acknowledge(k, j, s) ==
  IF s.ack = None \/ s.ack.action \notin k.job.pending THEN k
  ELSE LET a == s.ack.action
           settled == Settled(k, a)
       IN  CASE a.kind = "NOTIFY" -> Done(k, a)
             [] a.kind # "NOTIFY" /\ s.ack.outcome = "NOT_STARTED" /\ s.operator -> Done(settled, a)
             [] a.kind # "NOTIFY" /\ s.ack.outcome # "SUCCEEDED" /\ ~(s.ack.outcome = "NOT_STARTED" /\ s.operator) ->
                  Manual(settled, j, s.ack.outcome)
             [] a.kind = "START_SESSION" /\ s.ack.outcome = "SUCCEEDED" ->
                  IF s.generation # a.next
                  THEN Manual([settled EXCEPT !.failed = TRUE], j, "SUCCESSOR_ACK_MISMATCH")
                  ELSE [Done(settled, a) EXCEPT !.job.owner = s.owner, !.job.generation = a.next, !.job.quiescent = FALSE,
                                                !.job.resumed = <<a.next, s.checkpoint>>, !.job.base = s.checkpoint]
             [] a.kind = "PREPARE_HANDOFF" /\ s.ack.outcome = "SUCCEEDED" ->
                  IF ~Quiescent(s) THEN Manual(settled, j, "PREDECESSOR_NOT_QUIESCENT")
                  ELSE [Done(settled, a) EXCEPT !.job.checkpoint = s.checkpoint, !.job.quiescent = TRUE]
             [] OTHER -> Done(settled, a)

(***************************************************************************)
(* What an event does once its snapshot is accepted.                       *)
(***************************************************************************)
Active(r) == \E a \in r.pending : a.kind # "NOTIFY"
TimedOut(r) == \E a \in r.pending : a.kind # "NOTIFY" /\ a.until <= now

Rotate(k, j, s) ==
  IF k.job.quiescent THEN RouteStart(k, j, TRUE)
  ELSE IF s.lifecycle = None THEN Manual(k, j, "LIFECYCLE_METADATA_REQUIRED")
  ELSE IF s.owner # k.job.owner THEN Manual(k, j, "LIFECYCLE_OWNER_MISMATCH")
  ELSE CASE SessionLifecycle(s.lifecycle) \in {"ROTATE_REQUIRED", "ROTATE_AT_BOUNDARY"} ->
              IF "SUCCESSOR_SESSION" \notin setup.capability[j] THEN Manual(k, j, "MANUAL_SUCCESSOR_REQUIRED")
              ELSE [Emit(k, j, "PREPARE_HANDOFF", None) EXCEPT !.job.state = "RUNNING"]
         [] SessionLifecycle(s.lifecycle) = "CHECKPOINT" ->
              IF k.job.lifecycle = s.lifecycle THEN k
              ELSE [Emit(k, j, "CHECKPOINT", None) EXCEPT !.job.lifecycle = s.lifecycle]
         [] OTHER -> ResumeOrStart(k, j, s)

Research(k, j) ==
  IF k.job.researched THEN k
  ELSE IF "RESEARCH" \notin setup.capability[j] THEN Manual(k, j, "SOURCE_RESEARCH_UNAVAILABLE")
  ELSE LET made == Reserve(k, j, "RESEARCH", None)
       IN  IF Granted(made, k) THEN [made EXCEPT !.job.researched = TRUE] ELSE made

Continue(k, j, e, s) ==
  IF s.completed /\ s.execution = "IDLE" THEN Notify([k EXCEPT !.job.state = "COMPLETED"], j, "COMPLETED")
  ELSE IF k.job.state = "NEEDS_INPUT" /\ e # "SOURCE_FAILED" THEN k
  ELSE IF s.execution = "UNKNOWN" THEN Manual(k, j, "EXECUTION_UNKNOWN")
  ELSE IF s.execution \in {"RUNNING", "WAITING"} THEN [k EXCEPT !.job.state = s.execution]
  ELSE IF s.completed THEN Manual(k, j, "COMPLETION_OR_NEXT_STEP_REQUIRED")
  ELSE IF e = "SOURCE_FAILED" THEN Research(k, j)
  ELSE IF e = "ROTATE" \/ s.lifecycle # None \/ k.job.quiescent THEN Rotate(k, j, s)
  ELSE ResumeOrStart(k, j, s)

\* A snapshot of another owner, or of a generation that is neither present nor about to start, is stale.
Adopting(k, e) == e = "REGISTER" /\ k.job.owner = None /\ k.job.pending = {}
Expected(k) == {k.job.generation} \cup {a.next : a \in {b \in k.job.pending : b.kind = "START_SESSION"}}
Stale(k, e, s) ==
  /\ ~Adopting(k, e)
  /\ \/ s.generation \notin Expected(k)
     \/ s.generation = k.job.generation /\ k.job.owner # None /\ s.owner # k.job.owner

Adopt(k, e, s) ==
  IF k.job.state \in {"PAUSED", "NEEDS_INPUT"} THEN k
  ELSE LET owned == IF e = "REGISTER" /\ k.job.owner = None /\ s.owner # None
                    THEN [k EXCEPT !.job.owner = s.owner, !.job.generation = s.generation] ELSE k
       IN  [owned EXCEPT !.job.checkpoint = s.checkpoint]

Observed(k, j, e, s) ==
  LET acked == Acknowledge(k, j, s)
      seen == Adopt(acked, e, s)
      resumed == [seen EXCEPT !.job.state = IF e = "RESUME" THEN "READY" ELSE @,
                              !.job.checkpoint = IF e = "RESUME" THEN s.checkpoint ELSE @]
      late == IF TimedOut(resumed.job) THEN Manual(resumed, j, "ACTION_ACK_TIMEOUT") ELSE resumed
  IN  IF Stale(k, e, s) THEN k
      ELSE IF acked.failed THEN acked
      ELSE IF acked.job.quiescent /\ s.generation = acked.job.generation /\ s.execution # "IDLE"
      THEN Manual(acked, j, "PREDECESSOR_REACTIVATED")
      ELSE IF e = "RESUME" /\ (~s.operator \/ Active(seen.job))
      THEN Manual(seen, j, "OPERATOR_RECONCILIATION_REQUIRED")
      ELSE IF late.job.state = "PAUSED" \/ Active(resumed.job) THEN late
      ELSE Continue(late, j, e, s)

Readable(s) == s # None /\ now < s.until

\* A job whose actions nobody counts is registered only while its budget allows new work.
Exhausted(e) ==
  e = "REGISTER" /\ setup.limit = None /\ BudgetDecision(entries) # "ALLOW_NEW_WORK"

Handle(k, j, e) ==
  CASE e = "STATUS" ->
         IF k.job.pending = {} /\ k.job.state \notin Stopped THEN Emit(k, j, "CHECK_STATUS", None) ELSE k
    [] e = "PAUSE" -> [k EXCEPT !.job.state = "PAUSED"]
    [] e = "CANCEL" -> [k EXCEPT !.job.state = "CANCELLED"]
    [] e \notin {"STATUS", "PAUSE", "CANCEL"} ->
         IF \/ k.job.state \in {"COMPLETED", "CANCELLED"}
            \/ e = "HEARTBEAT" /\ k.job.state \in {"PAUSED", "NEEDS_INPUT"}
         THEN k
         ELSE IF Exhausted(e) THEN Manual(k, j, BudgetDecision(entries))
         ELSE IF ~Readable(snapshot[j]) THEN Manual(k, j, "CLIENT_CONTROL_UNAVAILABLE")
         ELSE Observed(k, j, e, snapshot[j])

Control(j, e) ==
  /\ j \notin DOMAIN job => e = "REGISTER"
  /\ LET r == IF j \in DOMAIN job THEN job[j] ELSE NewJob
         k == Handle([job |-> r, ledger |-> ledger, actions |-> {}, failed |-> FALSE], j, e)
     IN  /\ k.job.sequence <= setup.actions[j]
         /\ job' = [i \in DOMAIN job \cup {j} |-> IF i = j THEN k.job ELSE job[i]]
         /\ ledger' = k.ledger /\ grants' = grants \cup k.actions
  /\ UNCHANGED <<now, setup, snapshot, entries, host>>

(***************************************************************************)
(* The host: external.                                                     *)
(***************************************************************************)
\* A session is named by its generation.
Session(j) == IF host[j].generation = 0 /\ setup.session[j] = None THEN None ELSE host[j].generation
Alive(j) == host[j].generation \in host[j].live

Perform(a) ==
  LET h == host[a.job]
  IN  /\ a \in grants \ (h.performed \cup h.refused)
      /\ now < a.until
      /\ a.generation = h.generation
      /\ host' = [host EXCEPT ![a.job] =
           CASE a.kind = "START_SESSION" ->
                  [h EXCEPT !.live = @ \cup {a.next}, !.generation = a.next, !.execution = "RUNNING", !.base = h.checkpoint,
                            !.performed = @ \cup {a}]
             [] a.kind = "RESUME_SESSION" -> [h EXCEPT !.execution = "RUNNING", !.base = h.checkpoint, !.performed = @ \cup {a}]
             [] OTHER -> [h EXCEPT !.performed = @ \cup {a}]]
      /\ UNCHANGED <<now, setup, control, snapshot, entries>>

\* A session stops at a checkpoint, the same or the next one.
Stop(j) ==
  /\ host[j].execution = "RUNNING"
  /\ \E c \in {host[j].checkpoint, host[j].checkpoint + 1} \cap 0 .. setup.last[j] :
       host' = [host EXCEPT ![j].execution = "IDLE", ![j].checkpoint = c]
  /\ UNCHANGED <<now, setup, control, snapshot, entries>>

\* A session that has handed over goes away.
Retire(j) ==
  /\ host[j].execution = "IDLE" /\ Alive(j)
  /\ \E a \in host[j].performed : a.kind = "PREPARE_HANDOFF" /\ a.generation = host[j].generation
  /\ host' = [host EXCEPT ![j].live = @ \ {host[j].generation}]
  /\ UNCHANGED <<now, setup, control, snapshot, entries>>

\* The outcomes the host can state: what was carried out has succeeded or is unknown, what was not
\* will not be any more.
Outcome(a) == IF a \in host[a.job].performed THEN {"SUCCEEDED", "UNKNOWN"} ELSE {"NOT_STARTED", "UNKNOWN"}

Observe(j, ack, operator, lifecycle) ==
  /\ lifecycle # None => host[j].execution = "IDLE" /\ Alive(j)
  /\ ack # None => ack.action \in job[j].pending
  /\ snapshot' = [snapshot EXCEPT ![j] =
       [generation |-> host[j].generation, owner |-> Session(j), execution |-> host[j].execution,
        checkpoint |-> host[j].checkpoint, completed |-> host[j].checkpoint = setup.last[j],
        retired |-> ~Alive(j), ack |-> ack, operator |-> operator, lifecycle |-> lifecycle,
        progress |-> IF host[j].checkpoint = host[j].base THEN None
                     ELSE [checkpoint |-> host[j].checkpoint, previous |-> host[j].base, ref |-> host[j].checkpoint],
        until |-> now + 1]]
  /\ host' = IF ack = None \/ ack.action \in host[j].performed THEN host
             ELSE [host EXCEPT ![j].refused = @ \cup {ack.action}]
  /\ UNCHANGED <<now, setup, control, entries>>

\* The host enters what a grant has cost, once that is certain.
Enter(a) ==
  /\ setup.budget # None /\ a \in grants \ DOMAIN entries /\ a.kind \in Spending
  /\ a \in host[a.job].performed \cup host[a.job].refused
  /\ entries' = [b \in DOMAIN entries \cup {a} |->
                   IF b # a THEN entries[b]
                   ELSE [consumed |-> IF a \in host[a.job].performed THEN setup.budget.next ELSE 0,
                         reserved |-> 0, provenance |-> "MEASURED"]]
  /\ UNCHANGED <<now, setup, control, snapshot, host>>

Tick ==
  /\ now < MaxTime
  /\ now' = now + 1
  /\ UNCHANGED <<setup, control, snapshot, entries, host>>
Init ==
  /\ now = 0
  /\ setup \in Setups
  /\ job = [j \in {} |-> None]
  /\ ledger = [used |-> 0, settlement |-> [a \in {} |-> FALSE]]
  /\ snapshot = [j \in Job |-> None]
  /\ entries = [a \in {} |-> None]
  /\ grants = {}
  /\ host = [j \in Job |->
       [live |-> {setup.session[j]} \ {None}, generation |-> IF setup.session[j] = None THEN 0 ELSE setup.session[j],
        execution |-> "IDLE", checkpoint |-> 0, base |-> 0, performed |-> {}, refused |-> {}]]

\* The jobs that somebody has configured.
Configured == {j \in Job : setup.actions[j] > 0}

Next ==
  \/ \E j \in Configured, e \in setup.events : Control(j, e)
  \/ \E a \in grants : Perform(a)
  \/ \E j \in Job : Stop(j)
  \/ \E j \in Job : Retire(j)
  \/ \E j \in Configured, lifecycle \in {None} \cup setup.lifecycle, operator \in BOOLEAN : Observe(j, None, operator, lifecycle)
  \/ \E a \in grants : \E outcome \in Outcome(a) :
       Observe(a.job, [action |-> a, outcome |-> outcome], outcome = "NOT_STARTED", None)
  \/ \E a \in grants : Enter(a)
  \/ Tick

Spec == Init /\ [][Next]_vars

(***************************************************************************)
(* Properties.                                                             *)
(***************************************************************************)
\* At most one continuation is granted for a generation and a checkpoint, although answers are lost,
\* grants expire and the operator intervenes.
OneContinuation ==
  \A a, b \in grants :
    a.kind = "RESUME_SESSION" /\ b.kind = "RESUME_SESSION" /\ a.job = b.job /\ a.generation = b.generation
      /\ a.checkpoint = b.checkpoint => a = b

\* A job never has two sessions: a successor starts only after its predecessor has retired, and a
\* lost answer to a start is not followed by a second start. The session that was there before is one
\* of them, unless the job was given its first start before it had adopted that one.
OneSession ==
  \A j \in Job :
    /\ Cardinality(host[j].live \ {setup.session[j]}) <= 1
    /\ (\A a \in host[j].performed : a.kind = "START_SESSION" => a.owner # None) => Cardinality(host[j].live) <= 1

\* Over all jobs that share them, grants stay within the bound on dispatches, and what they may cost
\* stays below the hard limit, whenever it becomes known what they did cost.
Spent(actions) == {a \in actions : a.kind \in Spending}
Exposure(a) == IF a \in DOMAIN entries THEN entries[a].consumed ELSE setup.budget.next
Committed(actions) == Total([a \in actions |-> Exposure(a)], actions)
NoOverspending ==
  /\ setup.limit # None => Cardinality(Spent(grants)) <= setup.limit
  /\ setup.budget # None /\ Spent(grants) # {} => Committed(Spent(grants)) < setup.budget.hard
===============================================================================
