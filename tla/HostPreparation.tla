---------------------------- MODULE HostPreparation ----------------------------
(***************************************************************************)
(* The preparation of a host (host_preparation.py): diagnosis and          *)
(* inventory of the runtimes there are; artifacts that are downloaded and  *)
(* installed after a plan that somebody approved; and evidence of costs,   *)
(* which is fetched rarely. Checkpoints and evidence are files that are    *)
(* replaced atomically, under locks of the operating system: whoever dies  *)
(* releases them.                                                          *)
(*                                                                         *)
(* Sources, installers and other users of the host are external. An        *)
(* installer may do its work and still fail, or not return in time.        *)
(***************************************************************************)
EXTENDS FiniteSets, FiniteSetsExt, Integers, Sequences

CONSTANTS
  Process, None,
  Request,   \* requests for artifacts; each is planned at most once
  Source,    \* sources of the costs of resources
  Runtime,
  Target,    \* files that are provisioned
  Setups,    \* by name: what is requested, the recipes and definitions, and what happens around
  MaxTime, MaxStarts  \* bounds of the model

VARIABLES
  now, setup,
  executable, doctor, inventory,  \* the runtime programs, and the reports on them
  plan, approval,                 \* of each request
  checkpoint, target,             \* provisions/*.json of each plan, and the targets
  provisioning,                   \* what each process is doing, and so who holds the lock of a plan
  installs, held,                 \* history: how often a plan was installed; whether its target was as planned
  evidence,                       \* cost-evidence/*.json of each source
  refreshing, answers,            \* refreshes that run, and the last answers
  starts

diagnosis == <<executable, doctor, inventory>>
provisions == <<plan, approval, checkpoint, target, provisioning, installs, held>>
costs == <<evidence, refreshing, answers>>
vars == <<now, setup, diagnosis, provisions, costs, starts>>

World == Setups[setup]

(***************************************************************************)
(* Diagnosis and inventory. A version is what the file is; a runtime       *)
(* answers probes, or does not.                                            *)
(***************************************************************************)
Doctor ==
  LET record(r) ==
        IF executable[r] = None THEN [state |-> "UNAVAILABLE", sha256 |-> None]
        ELSE [state |-> IF executable[r].answers THEN "HEALTHY" ELSE "DEGRADED", sha256 |-> executable[r].version]
  IN  /\ World.runtimes # {}
      /\ doctor' = [runtimes |-> [r \in World.runtimes |-> record(r)], until |-> now + Min({World.health[r] : r \in World.runtimes})]
      /\ UNCHANGED <<now, setup, executable, inventory, provisions, costs, starts>>

Inventory ==
  LET record(r) ==
        IF \/ doctor.runtimes[r].state = "UNAVAILABLE" \/ executable[r] = None
        THEN [state |-> "UNAVAILABLE", artifacts |-> {}]
        ELSE IF executable[r].version # doctor.runtimes[r].sha256 \/ ~executable[r].answers
        THEN [state |-> "UNAVAILABLE", artifacts |-> {}]
        ELSE [state |-> "HEALTHY",
              artifacts |-> {<<a, IF a \in World.cloud THEN "REMOTE" ELSE "UNKNOWN">> : a \in World.artifacts[r]}]
  IN  /\ (IF doctor = None THEN FALSE ELSE now < doctor.until)
      /\ inventory' = [r \in World.runtimes |-> record(r)]
      /\ UNCHANGED <<now, setup, executable, doctor, provisions, costs, starts>>

Replace(r) ==  \* somebody installs, replaces or removes a runtime
  /\ r \in World.runtimes
  /\ \E e \in World.executables \ {executable[r]} : executable' = [executable EXCEPT ![r] = e]
  /\ UNCHANGED <<now, setup, doctor, inventory, provisions, costs, starts>>

(***************************************************************************)
(* Plans and approvals.                                                    *)
(***************************************************************************)
Resource == {"download", "disk", "memory", "cost"}
ValidRecipe(r) ==
  /\ r.https <=> r.destination # "NONE"
  /\ r.network = "DENY"
Matching(q) == {r \in World.recipes : ValidRecipe(r) /\ r.artifact = q.artifact /\ r.runtime = q.runtime}

Permitted(q, recipe) ==
  /\ \A x \in Resource : recipe.needs[x] <= q.limits[x]
  /\ recipe.https => q.network /\ recipe.destination \in q.destinations
  /\ recipe.environment \subseteq q.environment

PlanProvision(q) ==
  LET request == World.requests[q]
  IN  /\ q \in DOMAIN World.requests /\ plan[q] = None
      /\ Cardinality(Matching(request)) = 1
      /\ \E recipe \in Matching(request) :
           /\ Permitted(request, recipe)
           /\ plan' = [plan EXCEPT ![q] = [action |-> recipe, target |-> request.target, until |-> now + request.valid]]
      /\ UNCHANGED <<now, setup, diagnosis, approval, checkpoint, target, provisioning, installs, held, costs, starts>>

Approve(q) ==  \* somebody approves exactly this plan
  /\ plan[q] # None /\ approval[q] = None
  /\ \E until \in now + 1 .. plan[q].until : approval' = [approval EXCEPT ![q] = [at |-> now, until |-> until]]
  /\ UNCHANGED <<now, setup, diagnosis, plan, checkpoint, target, provisioning, installs, held, costs, starts>>

Approved(q) ==
  /\ plan[q] # None /\ approval[q] # None
  /\ now < plan[q].until /\ approval[q].at <= now /\ now < approval[q].until

(***************************************************************************)
(* Provisioning. A process that has begun holds the lock of the plan; each *)
(* step ends with a checkpoint, or with a change outside of it.            *)
(***************************************************************************)
Save(q, status, reason) == checkpoint' = [checkpoint EXCEPT ![q] = [status |-> status, reason |-> reason]]
At(c, q, step) == provisioning[c] # None /\ provisioning[c].request = q /\ provisioning[c].step = step
Goto(c, q, step) == provisioning' = [provisioning EXCEPT ![c] = [request |-> q, step |-> step]]
Leave(c) == provisioning' = [provisioning EXCEPT ![c] = None]
Unlocked(q) == q \notin {provisioning[d].request : d \in {e \in Process : provisioning[e] # None}}

Reason ==
  {"AMBIGUOUS_NON_IDEMPOTENT_INSTALL", "TARGET_ALREADY_VERIFIED", "PROVISION_SOURCE_UNAVAILABLE",
   "PROVISION_DOWNLOAD_LIMIT_EXCEEDED", "PROVISION_REDIRECT_REFUSED", "PROVISION_HASH_MISMATCH",
   "PROVISION_LOCAL_IO_FAILED", "PROVISION_INSTALL_FAILED", "COMMAND_TIMEOUT", "PROVISION_VERIFY_FAILED",
   "PROVISION_VERIFIED"}
Checkpoint ==
  [status : {"PREPARED", "IN_PROGRESS", "MANUAL_REQUIRED", "COMPLETED", "FAILED"}, reason : Reason \cup {None}]

Prepared == [status |-> "PREPARED", reason |-> None]
Status(q) == IF checkpoint[q] = None THEN "PREPARED" ELSE checkpoint[q].status

\* It is not known how far an installation got that must not be repeated.
AmbiguousInstall(q) == Status(q) = "IN_PROGRESS" /\ plan[q].action.install /\ ~plan[q].action.idempotent
AmbiguousNever(q) == FALSE  \* Mutant: every action can be resumed.
Ambiguous(q) == AmbiguousInstall(q)

IsPlanned(q) == target[plan[q].target] = plan[q].action.sha256

Provision(c, q) ==
  /\ provisioning[c] = None /\ starts < MaxStarts /\ Approved(q) /\ Unlocked(q)
  /\ starts' = starts + 1
  /\ IF Status(q) \in {"COMPLETED", "FAILED", "MANUAL_REQUIRED"}
     THEN UNCHANGED <<checkpoint, provisioning, held>>  \* reported as it is
     ELSE IF Ambiguous(q)
     THEN Save(q, "MANUAL_REQUIRED", "AMBIGUOUS_NON_IDEMPOTENT_INSTALL") /\ UNCHANGED <<provisioning, held>>
     ELSE IF IsPlanned(q)
     THEN Save(q, "COMPLETED", "TARGET_ALREADY_VERIFIED") /\ held' = [held EXCEPT ![q] = TRUE] /\ UNCHANGED provisioning
     ELSE IF target[plan[q].target] # None \/ World.free < plan[q].action.needs["disk"]
     THEN checkpoint' = [checkpoint EXCEPT ![q] = IF @ = None THEN Prepared ELSE @] /\ UNCHANGED <<provisioning, held>>
     ELSE Save(q, "IN_PROGRESS", None) /\ Goto(c, q, "download") /\ UNCHANGED held
  /\ UNCHANGED <<now, setup, diagnosis, plan, approval, target, installs, costs>>

Fail(c, q, reason) ==
  /\ Save(q, "FAILED", reason) /\ Leave(c)
  /\ UNCHANGED <<now, setup, diagnosis, plan, approval, target, installs, held, costs, starts>>

\* The source is gone, larger than planned, somewhere else, or not what was approved; or it is staged.
Download(c, q) ==
  /\ At(c, q, "download")
  /\ \/ \E reason \in {"PROVISION_SOURCE_UNAVAILABLE", "PROVISION_DOWNLOAD_LIMIT_EXCEEDED", "PROVISION_REDIRECT_REFUSED", "PROVISION_HASH_MISMATCH"} :
          Fail(c, q, reason)
     \/ /\ Goto(c, q, "install")
        /\ UNCHANGED <<now, setup, diagnosis, plan, approval, checkpoint, target, installs, held, costs, starts>>

Move(c, q) ==  \* no installer: the staged file replaces the target, whatever is there by now
  /\ At(c, q, "install") /\ ~plan[q].action.install
  /\ \/ Fail(c, q, "PROVISION_LOCAL_IO_FAILED")
     \/ /\ target' = [target EXCEPT ![plan[q].target] = plan[q].action.sha256] /\ Goto(c, q, "verify")
        /\ UNCHANGED <<now, setup, diagnosis, plan, approval, checkpoint, installs, held, costs, starts>>

BeginInstall(c, q) ==
  /\ At(c, q, "install") /\ plan[q].action.install
  /\ installs' = [installs EXCEPT ![q] = @ + 1] /\ Goto(c, q, "installing")
  /\ UNCHANGED <<now, setup, diagnosis, plan, approval, checkpoint, target, held, costs, starts>>

EndInstall(c, q) ==
  /\ At(c, q, "installing")
  /\ \E content \in {target[plan[q].target], plan[q].action.sha256} :
       /\ target' = [target EXCEPT ![plan[q].target] = content]
       /\ \/ Goto(c, q, "verify") /\ UNCHANGED checkpoint
          \/ \E reason \in {"PROVISION_INSTALL_FAILED", "COMMAND_TIMEOUT"} : Save(q, "FAILED", reason) /\ Leave(c)
  /\ UNCHANGED <<now, setup, diagnosis, plan, approval, installs, held, costs, starts>>

VerifiedUnread(q) == TRUE  \* Mutant: an installer that returned zero has done its work.
Verified(q) == IsPlanned(q)

VerifyTarget(c, q) ==
  /\ At(c, q, "verify")
  /\ IF plan[q].action.verify
     THEN \/ IsPlanned(q) /\ held' = [held EXCEPT ![q] = TRUE] /\ Goto(c, q, "complete") /\ UNCHANGED checkpoint
          \/ Save(q, "FAILED", "PROVISION_VERIFY_FAILED") /\ Leave(c) /\ UNCHANGED held
     ELSE IF Verified(q) THEN held' = [held EXCEPT ![q] = @ \/ IsPlanned(q)] /\ Goto(c, q, "complete") /\ UNCHANGED checkpoint
     ELSE Save(q, "FAILED", "PROVISION_VERIFY_FAILED") /\ Leave(c) /\ UNCHANGED held
  /\ UNCHANGED <<now, setup, diagnosis, plan, approval, target, installs, costs, starts>>

Complete(c, q) ==
  /\ At(c, q, "complete")
  /\ Save(q, "COMPLETED", "PROVISION_VERIFIED") /\ Leave(c)
  /\ UNCHANGED <<now, setup, diagnosis, plan, approval, target, installs, held, costs, starts>>

DieProvisioning(c) ==  \* an installer that was started goes on, or not
  /\ provisioning[c] # None /\ World.deaths
  /\ IF provisioning[c].step = "installing"
     THEN \E content \in {target[plan[provisioning[c].request].target], plan[provisioning[c].request].action.sha256} :
            target' = [target EXCEPT ![plan[provisioning[c].request].target] = content]
     ELSE UNCHANGED target
  /\ Leave(c)
  /\ UNCHANGED <<now, setup, diagnosis, plan, approval, checkpoint, installs, held, costs, starts>>

Touch(f) ==  \* somebody else writes or removes a target
  /\ \E content \in World.contents \ {target[f]} : target' = [target EXCEPT ![f] = content]
  /\ UNCHANGED <<now, setup, diagnosis, plan, approval, checkpoint, provisioning, installs, held, costs, starts>>

(***************************************************************************)
(* Evidence of costs: of each source, the amount and how long it is valid, *)
(* and when it may be asked again, also if it could not be read.           *)
(***************************************************************************)
ValidSource(s) == World.sources[s].valid > 0 /\ World.sources[s].refresh >= World.day

Usable(e, t) == IF e = None THEN FALSE ELSE IF e.amount = None THEN FALSE ELSE t < e.until
Cached(s, t, reason, other) ==
  [status |-> IF Usable(evidence[s], t) THEN "CACHED" ELSE other, reason |-> reason, at |-> t,
   amount |-> IF Usable(evidence[s], t) THEN evidence[s].amount ELSE None]
Answer(s, answer) == answers' = [answers EXCEPT ![s] = answer]

Due(s) == IF evidence[s] = None THEN TRUE ELSE evidence[s].next <= now

Refresh(c, s) ==  \* a process takes the lock of the source, and looks at what there is
  /\ s \in DOMAIN World.sources /\ ValidSource(s)
  /\ refreshing[c] = None /\ s \notin {refreshing[d].source : d \in {e \in Process : refreshing[e] # None}}
  /\ starts < MaxStarts /\ starts' = starts + 1
  /\ \E authorized \in BOOLEAN :
       IF World.sources[s].https /\ ~authorized
       THEN Answer(s, Cached(s, now, "NETWORK_NOT_AUTHORIZED", "BLOCKED")) /\ UNCHANGED refreshing
       ELSE IF ~Due(s)
       THEN Answer(s, Cached(s, now, "REFRESH_RATE_LIMIT", "DEFERRED")) /\ UNCHANGED refreshing
       ELSE refreshing' = [refreshing EXCEPT ![c] = [source |-> s, at |-> now, step |-> "fetch", amount |-> None]] /\ UNCHANGED answers
  /\ UNCHANGED <<now, setup, diagnosis, provisions, evidence>>

Fetch(c) ==  \* the source is asked, and answers or not
  /\ refreshing[c] # None /\ refreshing[c].step = "fetch"
  /\ \E amount \in World.amounts : refreshing' = [refreshing EXCEPT ![c].step = "write", ![c].amount = amount]
  /\ UNCHANGED <<now, setup, diagnosis, provisions, evidence, answers, starts>>

WriteEvidence(c) ==
  LET r == refreshing[c]
      next == r.at + World.sources[r.source].refresh
      old == evidence[r.source]
  IN  /\ r # None /\ r.step = "write"
      /\ IF r.amount # None
         THEN /\ evidence' = [evidence EXCEPT ![r.source] = [amount |-> r.amount, until |-> r.at + World.sources[r.source].valid, next |-> next]]
              /\ Answer(r.source, [status |-> "REFRESHED", reason |-> None, at |-> r.at, amount |-> r.amount])
         ELSE /\ evidence' = [evidence EXCEPT ![r.source] = IF Usable(old, r.at) THEN [old EXCEPT !.next = next] ELSE [amount |-> None, until |-> 0, next |-> next]]
              /\ Answer(r.source, Cached(r.source, r.at, "SOURCE_REFRESH_FAILED", "UNAVAILABLE"))
      /\ refreshing' = [refreshing EXCEPT ![c] = None]
      /\ UNCHANGED <<now, setup, diagnosis, provisions, starts>>

DieRefreshing(c) ==
  /\ refreshing[c] # None /\ World.deaths
  /\ refreshing' = [refreshing EXCEPT ![c] = None]
  /\ UNCHANGED <<now, setup, diagnosis, provisions, evidence, answers, starts>>

Tick ==
  /\ now < MaxTime /\ now' = now + 1
  /\ UNCHANGED <<setup, diagnosis, provisions, costs, starts>>

Init ==
  /\ now = 0 /\ setup \in DOMAIN Setups
  /\ executable = [r \in Runtime |-> None] /\ doctor = None /\ inventory = None
  /\ plan = [q \in Request |-> None] /\ approval = plan /\ checkpoint = plan
  /\ target = [f \in Target |-> None]
  /\ provisioning = [c \in Process |-> None] /\ refreshing = provisioning
  /\ installs = [q \in Request |-> 0] /\ held = [q \in Request |-> FALSE]
  /\ evidence = [s \in Source |-> None] /\ answers = evidence
  /\ starts = 0

Next ==
  \/ Doctor \/ Inventory \/ Tick
  \/ \E r \in Runtime : Replace(r)
  \/ \E f \in Target : Touch(f)
  \/ \E q \in Request :
       \/ PlanProvision(q) \/ Approve(q)
       \/ \E c \in Process :
            Provision(c, q) \/ Download(c, q) \/ Move(c, q) \/ BeginInstall(c, q) \/ EndInstall(c, q) \/ VerifyTarget(c, q) \/ Complete(c, q)
  \/ \E c \in Process :
       DieProvisioning(c) \/ DieRefreshing(c) \/ Fetch(c) \/ WriteEvidence(c) \/ \E s \in Source : Refresh(c, s)

Spec == Init /\ [][Next]_vars

-----------------------------------------------------------------------------

(***************************************************************************)
(* The installer of a plan that must not be repeated runs at most once,    *)
(* whoever provisions the plan again after a process died anywhere (the    *)
(* checkpoint before the first effect, 919-935).                           *)
(***************************************************************************)
InstalledOnce ==
  \A q \in Request : (installs[q] > 1) => plan[q].action.idempotent

(***************************************************************************)
(* A plan is reported as completed only if its target was, once, the       *)
(* artifact that was approved, however the installer ended (924-957).      *)
(***************************************************************************)
CompletedIsTrue ==
  \A q \in Request : Status(q) = "COMPLETED" => held[q]
=============================================================================
