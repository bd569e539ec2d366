---------------------------- MODULE ToolingProofs ----------------------------
EXTENDS Tooling, DataTheorems

-----------------------------------------------------------------------------
(***************************************************************************)
(* Host preparation. A plan's status follows the calls that carry it out,  *)
(* and whoever provisions is alone at it; an installer that must not be    *)
(* repeated has not run while its plan still says it may.                  *)
(***************************************************************************)
Once(q) == hostPlan[q].action.install /\ ~hostPlan[q].action.idempotent

HostKept ==
  /\ DOMAIN hostPlan = Request /\ DOMAIN provisioning = Process
  /\ checkpoint \in [Request -> {None} \cup Host!Checkpoint]
  /\ installs \in [Request -> Nat] /\ held \in [Request -> BOOLEAN]

\* Whoever provisions holds the lock of a plan that is in progress.
Working(c) ==
  LET q == provisioning[c].request
  IN  provisioning[c] # None =>
        /\ q \in Request /\ hostPlan[q] # None /\ Host!Status(q) = "IN_PROGRESS"
        /\ \A d \in Process : provisioning[d] # None /\ provisioning[d].request = q => d = c
        /\ provisioning[c].step \in {"download", "install"} /\ Once(q) => installs[q] = 0
        /\ provisioning[c].step = "complete" => held[q]

Installed(q) ==
  /\ installs[q] > 0 => hostPlan[q] # None /\ hostPlan[q].action.install
  /\ Once(q) => installs[q] <= 1 /\ (Host!Status(q) = "PREPARED" => installs[q] = 0)

HostIInv ==
  /\ HostKept
  /\ \A c \in Process : Working(c)
  /\ \A q \in Request : Installed(q) /\ (Host!Status(q) = "COMPLETED" => held[q])

LEMMA HostInitHolds == Host!Init => HostIInv
<1> SUFFICES ASSUME Host!Init PROVE HostIInv
  OBVIOUS
<1>1. /\ hostPlan = [q \in Request |-> None] /\ checkpoint = [q \in Request |-> None]
      /\ provisioning = [c \in Process |-> None]
      /\ installs = [q \in Request |-> 0] /\ held = [q \in Request |-> FALSE]
  BY DEF Host!Init
<1> QED
  BY <1>1 DEF HostIInv, HostKept, Working, Installed, Host!Status

\* What is provisioned now is looked at, and the rest is as it was.
LEMMA SavedStatus ==
  ASSUME HostIInv, NEW q \in Request, NEW status \in {"IN_PROGRESS", "MANUAL_REQUIRED", "COMPLETED", "FAILED"},
         NEW reason \in Host!Reason \cup {None}, Host!Save(q, status, reason)
  PROVE  /\ checkpoint' \in [Request -> {None} \cup Host!Checkpoint]
         /\ Host!Status(q)' = status
         /\ \A r \in Request \ {q} : Host!Status(r)' = Host!Status(r)
BY HostAssumption DEF HostIInv, HostKept, Host!Save, Host!Status, Host!Checkpoint

LEMMA HostPlanKeeps ==
  ASSUME HostIInv, NEW q \in Request, Host!PlanProvision(q)
  PROVE  HostIInv'
<1>1. /\ hostPlan[q] = None /\ DOMAIN hostPlan' = Request /\ \A r \in Request \ {q} : hostPlan'[r] = hostPlan[r]
      /\ UNCHANGED <<checkpoint, provisioning, installs, held>>
  BY DEF Host!PlanProvision, HostIInv, HostKept
<1>2. HostKept' /\ \A r \in Request : Host!Status(r)' = Host!Status(r)
  BY <1>1 DEF HostIInv, HostKept, Host!Status
<1>3. \A r \in Request : Installed(r)'
  BY <1>1, <1>2 DEF HostIInv, HostKept, Installed, Once
<1>4. \A c \in Process : Working(c)'
  BY <1>1, <1>2 DEF HostIInv, Working, Once
<1> QED
  BY <1>1, <1>2, <1>3, <1>4 DEF HostIInv

\* A step of a process that provisions q and stays, or leaves.
LEMMA StepKept ==
  ASSUME HostIInv, NEW q \in Request, NEW c \in Process,
         HostKept', UNCHANGED hostPlan, hostPlan[q] # None,
         \A d \in Process \ {c} : provisioning'[d] = provisioning[d]
           /\ (provisioning[d] # None => provisioning[d].request # q),
         provisioning'[c] # None => provisioning'[c].request = q,
         \A r \in Request \ {q} : Host!Status(r)' = Host!Status(r) /\ installs'[r] = installs[r]
           /\ held'[r] = held[r],
         Working(c)', Installed(q)', (Host!Status(q) = "COMPLETED" => held[q])'
  PROVE  HostIInv'
<1>1. \A r \in Request : Installed(r)' /\ (Host!Status(r) = "COMPLETED" => held[r])'
  BY DEF HostIInv, Installed, Once
<1>2. ASSUME NEW d \in Process \ {c} PROVE Working(d)'
  BY DEF HostIInv, Working, Once
<1> QED
  BY <1>1, <1>2 DEF HostIInv
\* A process that begins: nobody else works on the plan.
LEMMA ProvisionKeeps ==
  ASSUME HostIInv, NEW q \in Request, NEW c \in Process, Host!Provision(c, q)
  PROVE  HostIInv'
<1>1. /\ UNCHANGED <<hostPlan, installs>> /\ provisioning[c] = None /\ hostPlan[q] # None
      /\ \A d \in Process : provisioning[d] # None => provisioning[d].request # q
  BY DEF Host!Provision, Host!Approved, Host!Unlocked
<1>2. CASE Host!Status(q) \in {"COMPLETED", "FAILED", "MANUAL_REQUIRED"}
  <2>1. UNCHANGED <<checkpoint, provisioning, held>>
    BY <1>2 DEF Host!Provision
  <2> QED
    BY <1>1, <2>1 DEF HostIInv, HostKept, Working, Installed, Host!Status, Once
<1>3. CASE Host!Save(q, "MANUAL_REQUIRED", "AMBIGUOUS_NON_IDEMPOTENT_INSTALL") /\ UNCHANGED <<provisioning,
           held>>
  <2>1. HostKept' /\ Host!Status(q)' = "MANUAL_REQUIRED"
        /\ \A r \in Request \ {q} : Host!Status(r)' = Host!Status(r)
    BY <1>1, <1>3, SavedStatus DEF HostIInv, HostKept, Host!Reason
  <2>2. Working(c)' /\ Installed(q)'
    BY <1>1, <1>3, <2>1 DEF HostIInv, Working, Installed, Once
  <2> QED
    BY <1>1, <1>3, <2>1, <2>2, StepKept
<1>4. CASE Host!Save(q, "COMPLETED", "TARGET_ALREADY_VERIFIED") /\ held' = [held EXCEPT ![q] = TRUE]
           /\ UNCHANGED provisioning
  <2>1. HostKept' /\ Host!Status(q)' = "COMPLETED" /\ \A r \in Request \ {q} : Host!Status(r)' = Host!Status(r)
    BY <1>1, <1>4, SavedStatus DEF HostIInv, HostKept, Host!Reason
  <2>2. held'[q] /\ \A r \in Request \ {q} : held'[r] = held[r]
    BY <1>4 DEF HostIInv, HostKept
  <2>3. Working(c)' /\ Installed(q)'
    BY <1>1, <1>4, <2>1 DEF HostIInv, Working, Installed, Once
  <2> QED
    BY <1>1, <1>4, <2>1, <2>2, <2>3, StepKept
<1>5. CASE checkpoint' = [checkpoint EXCEPT ![q] = IF @ = None THEN Host!Prepared ELSE @]
           /\ UNCHANGED <<provisioning, held>>
  <2>1. HostKept' /\ \A r \in Request : Host!Status(r)' = Host!Status(r)
    BY <1>1, <1>5, HostAssumption DEF HostIInv, HostKept, Host!Status, Host!Prepared, Host!Checkpoint
  <2> QED
    BY <1>1, <1>5, <2>1 DEF HostIInv, Working, Installed, Once
<1>6. CASE /\ Host!Status(q) \notin {"COMPLETED", "FAILED", "MANUAL_REQUIRED"} /\ ~Host!Ambiguous(q)
           /\ Host!Save(q, "IN_PROGRESS", None) /\ Host!Goto(c, q, "download") /\ UNCHANGED held
  <2>1. HostKept' /\ Host!Status(q)' = "IN_PROGRESS"
        /\ \A r \in Request \ {q} : Host!Status(r)' = Host!Status(r)
    BY <1>1, <1>6, SavedStatus DEF HostIInv, HostKept, Host!Goto, Host!Reason
  <2>2. provisioning'[c] = [request |-> q, step |-> "download"]
        /\ \A d \in Process \ {c} : provisioning'[d] = provisioning[d]
    BY <1>6 DEF HostIInv, HostKept, Host!Goto
  <2>3. Once(q) => installs[q] = 0
    BY <1>6 DEF Host!Ambiguous, Host!AmbiguousInstall, HostIInv, Installed, Once, HostKept, Host!Status,
       Host!Checkpoint
  <2>4. Working(c)' /\ Installed(q)'
    BY <1>1, <2>1, <2>2, <2>3 DEF HostIInv, Working, Installed, Once
  <2> QED
    BY <1>1, <1>6, <2>1, <2>2, <2>4, StepKept DEF HostIInv
<1> QED
  BY <1>2, <1>3, <1>4, <1>5, <1>6 DEF Host!Provision

\* A process that stays goes from one step to the next; whoever leaves lets the lock go.
LEMMA GoesOn ==
  ASSUME HostIInv, NEW q \in Request, NEW c \in Process, NEW step, Host!At(c, q, step)
  PROVE  /\ hostPlan[q] # None /\ Host!Status(q) = "IN_PROGRESS" /\ provisioning[c].request = q
         /\ \A d \in Process \ {c} : provisioning[d] # None => provisioning[d].request # q
         /\ step \in {"download", "install"} /\ Once(q) => installs[q] = 0
         /\ step = "complete" => held[q]
BY DEF HostIInv, Working, Host!At

LEMMA LeaveKept ==
  ASSUME HostIInv, NEW q \in Request, NEW c \in Process, NEW step, Host!At(c, q, step),
         Host!Leave(c), UNCHANGED <<hostPlan, installs, held>>,
         NEW status \in {"FAILED", "COMPLETED"}, NEW reason \in Host!Reason \cup {None},
           Host!Save(q, status, reason), status = "COMPLETED" => step = "complete"
  PROVE  HostIInv'
<1>1. HostKept' /\ Host!Status(q)' = status /\ \A r \in Request \ {q} : Host!Status(r)' = Host!Status(r)
  BY SavedStatus DEF HostIInv, HostKept, Host!Leave, Host!Reason
<1>2. provisioning'[c] = None /\ \A d \in Process \ {c} : provisioning'[d] = provisioning[d]
  BY DEF Host!Leave, HostIInv, HostKept
<1>3. Working(c)' /\ Installed(q)' /\ (Host!Status(q) = "COMPLETED" => held[q])'
  BY <1>1, <1>2, GoesOn DEF HostIInv, Working, Installed, Once
<1> QED
  BY <1>1, <1>2, <1>3, GoesOn, StepKept

LEMMA GotoKept ==
  ASSUME HostIInv, NEW q \in Request, NEW c \in Process, NEW step, Host!At(c, q, step), NEW next,
         Host!Goto(c, q, next), UNCHANGED <<hostPlan, checkpoint>>, installs' \in [Request -> Nat],
           held' \in [Request -> BOOLEAN],
         \A r \in Request \ {q} : installs'[r] = installs[r] /\ held'[r] = held[r],
         \/ installs' = installs
         \/ step = "install" /\ hostPlan[q].action.install /\ installs'[q] = installs[q] + 1,
         next = "install" => step = "download" /\ installs' = installs, next # "download",
         next = "complete" => held'[q]
  PROVE  HostIInv'
<1>1. HostKept' /\ \A r \in Request : Host!Status(r)' = Host!Status(r)
  BY DEF HostIInv, HostKept, Host!Goto, Host!Status
<1>2. provisioning'[c] = [request |-> q, step |-> next]
      /\ \A d \in Process \ {c} : provisioning'[d] = provisioning[d]
  BY DEF Host!Goto, HostIInv, HostKept
<1>3. Working(c)'
  BY <1>1, <1>2, GoesOn DEF Working, Once
<1>4. Installed(q)'
  BY <1>1, GoesOn DEF HostIInv, HostKept, Installed, Once
<1> QED
  BY <1>1, <1>2, <1>3, <1>4, GoesOn, StepKept

LEMMA FailKeeps ==
  ASSUME HostIInv, NEW q \in Request, NEW c \in Process, NEW step, Host!At(c, q, step),
         NEW reason \in Host!Reason, Host!Fail(c, q, reason), step # "complete"
  PROVE  HostIInv'
BY LeaveKept DEF Host!Fail, Host!Reason

LEMMA ProvisioningKeeps ==
  ASSUME HostIInv, NEW q \in Request, NEW c \in Process,
         \/ Host!Download(c, q) \/ Host!Move(c, q) \/ Host!BeginInstall(c, q) \/ Host!EndInstall(c, q)
            \/ Host!VerifyTarget(c, q) \/ Host!Complete(c, q)
  PROVE  HostIInv'
<1>1. CASE Host!Download(c, q)
  <2>1. CASE Host!Goto(c, q, "install") /\ UNCHANGED <<hostPlan, checkpoint, installs, held>>
    BY <1>1, <2>1, GotoKept DEF Host!Download, HostIInv, HostKept
  <2> QED
    BY <1>1, <2>1, FailKeeps DEF Host!Download, Host!Reason
<1>2. CASE Host!Move(c, q)
  <2>1. CASE Host!Goto(c, q, "verify") /\ UNCHANGED <<hostPlan, checkpoint, installs, held>>
    BY <1>2, <2>1, GotoKept DEF Host!Move, HostIInv, HostKept
  <2> QED
    BY <1>2, <2>1, FailKeeps DEF Host!Move, Host!Reason
<1>3. CASE Host!BeginInstall(c, q)
  <2>1. /\ installs' \in [Request -> Nat] /\ installs'[q] = installs[q] + 1
        /\ \A r \in Request \ {q} : installs'[r] = installs[r]
    BY <1>3 DEF Host!BeginInstall, HostIInv, HostKept
  <2> QED
    BY <1>3, <2>1, GotoKept DEF Host!BeginInstall, HostIInv, HostKept
<1>4. CASE Host!EndInstall(c, q)
  <2>1. CASE Host!Goto(c, q, "verify") /\ UNCHANGED checkpoint
    BY <1>4, <2>1, GotoKept DEF Host!EndInstall, HostIInv, HostKept
  <2>2. CASE \E reason \in Host!Reason : Host!Save(q, "FAILED", reason) /\ Host!Leave(c)
    BY <1>4, <2>2, LeaveKept DEF Host!EndInstall, Host!Reason
  <2> QED
    BY <1>4, <2>1, <2>2 DEF Host!EndInstall, Host!Reason
<1>5. CASE Host!VerifyTarget(c, q)
  <2>1. CASE Host!Save(q, "FAILED", "PROVISION_VERIFY_FAILED") /\ Host!Leave(c) /\ UNCHANGED held
    BY <1>5, <2>1, LeaveKept DEF Host!VerifyTarget, Host!Reason
  <2>2. CASE Host!IsPlanned(q) /\ held' = [held EXCEPT ![q] = TRUE] /\ Host!Goto(c, q, "complete")
             /\ UNCHANGED checkpoint
    <3>1. held' \in [Request -> BOOLEAN] /\ held'[q] /\ \A r \in Request \ {q} : held'[r] = held[r]
      BY <2>2 DEF HostIInv, HostKept
    <3>2. Host!At(c, q, "verify") /\ UNCHANGED <<hostPlan, installs>> /\ installs \in [Request -> Nat]
      BY <1>5 DEF Host!VerifyTarget, HostIInv, HostKept
    <3>3. Host!Goto(c, q, "complete") /\ UNCHANGED checkpoint
      BY <2>2
    <3> QED
      BY <3>1, <3>2, <3>3, GotoKept
  <2>3. CASE Host!Verified(q) /\ held' = [held EXCEPT ![q] = @ \/ Host!IsPlanned(q)]
             /\ Host!Goto(c, q, "complete") /\ UNCHANGED checkpoint
    <3>1. held' = [held EXCEPT ![q] = TRUE]
      BY <2>3 DEF Host!Verified, HostIInv, HostKept
    <3>2. held' \in [Request -> BOOLEAN] /\ held'[q] /\ \A r \in Request \ {q} : held'[r] = held[r]
      BY <3>1 DEF HostIInv, HostKept
    <3> QED
      BY <1>5, <2>3, <3>2, GotoKept DEF Host!VerifyTarget, HostIInv, HostKept
  <2> QED
    BY <1>5, <2>1, <2>2, <2>3 DEF Host!VerifyTarget
<1>6. CASE Host!Complete(c, q)
  BY <1>6, LeaveKept DEF Host!Complete, Host!Reason
<1> QED
  BY <1>1, <1>2, <1>3, <1>4, <1>5, <1>6

LEMMA HostDieKeeps ==
  ASSUME HostIInv, NEW c \in Process, Host!DieProvisioning(c)
  PROVE  HostIInv'
<1>1. /\ UNCHANGED <<hostPlan, checkpoint, installs, held>> /\ Host!Leave(c)
  BY DEF Host!DieProvisioning
<1>2. DOMAIN provisioning' = Process /\ provisioning'[c] = None
      /\ \A d \in Process \ {c} : provisioning'[d] = provisioning[d]
  BY <1>1 DEF Host!Leave, HostIInv, HostKept
<1>3. HostKept' /\ \A r \in Request : Host!Status(r)' = Host!Status(r)
  BY <1>1, <1>2 DEF HostIInv, HostKept, Host!Status
<1>4. \A d \in Process : Working(d)'
  BY <1>1, <1>2, <1>3 DEF HostIInv, Working, Once
<1> QED
  BY <1>1, <1>3, <1>4 DEF HostIInv, Installed, Once

LEMMA StillKeeps ==
  ASSUME HostIInv, UNCHANGED <<hostPlan, checkpoint, provisioning, installs, held>>
  PROVE  HostIInv'
BY DEF HostIInv, HostKept, Working, Installed, Host!Status, Once

LEMMA HostStepKeeps == HostIInv /\ [Host!Next]_(Host!vars) => HostIInv'
<1> SUFFICES ASSUME HostIInv, [Host!Next]_(Host!vars) PROVE HostIInv'
  OBVIOUS
<1>1. CASE Host!Doctor \/ Host!Inventory \/ Host!Tick
  BY <1>1, StillKeeps DEF Host!Doctor, Host!Inventory, Host!Tick, Host!provisions
<1>2. CASE (\E r \in Runtime : Host!Replace(r)) \/ (\E f \in Target : Host!Touch(f))
  BY <1>2, StillKeeps DEF Host!Replace, Host!Touch, Host!provisions
<1>3. ASSUME NEW q \in Request, Host!PlanProvision(q) \/ Host!Approve(q) PROVE HostIInv'
  BY <1>3, HostPlanKeeps, StillKeeps DEF Host!Approve
<1>4. ASSUME NEW q \in Request, NEW c \in Process,
             \/ Host!Provision(c, q) \/ Host!Download(c, q) \/ Host!Move(c, q) \/ Host!BeginInstall(c, q)
                \/ Host!EndInstall(c, q)
             \/ Host!VerifyTarget(c, q) \/ Host!Complete(c, q)
      PROVE HostIInv'
  BY <1>4, ProvisionKeeps, ProvisioningKeeps
<1>5. ASSUME NEW c \in Process, Host!DieProvisioning(c) PROVE HostIInv'
  BY <1>5, HostDieKeeps
<1>6. ASSUME NEW c \in Process, Host!DieRefreshing(c) \/ Host!Fetch(c) \/ Host!WriteEvidence(c)
             \/ \E s \in Source : Host!Refresh(c, s) PROVE HostIInv'
  BY <1>6, StillKeeps DEF Host!DieRefreshing, Host!Fetch, Host!WriteEvidence, Host!Refresh, Host!provisions
<1>7. CASE UNCHANGED Host!vars
  BY <1>7, StillKeeps DEF Host!vars, Host!provisions
<1> QED
  BY <1>1, <1>2, <1>3, <1>4, <1>5, <1>6, <1>7 DEF Host!Next

-----------------------------------------------------------------------------
(***************************************************************************)
(* Client integration. Whoever applies a plan has its record, and whoever  *)
(* makes an adapter has what it copied so far; no two work on one plan.    *)
(***************************************************************************)
Before(q) == plan[q].before
After(q) == Client!Merged(Client!Document(plan[q].before), q)
BackedUp(q) == Before(q) = None \/ backup[q] = Before(q)

\* All calls that apply a plan replace the same by the same.
Applying(c) ==
  LET q == calls[c].plan
  IN  calls[c] # None /\ calls[c].step \in {"backup", "prepare", "write", "commit", "restore", "forget"} =>
        /\ q \in Integration /\ plan[q] # None
        /\ calls[c].body = Before(q) /\ calls[c].updated = After(q)
        /\ calls[c].step # "backup" => BackedUp(q)
        /\ calls[c].step \in {"write", "commit"} => q \in DOMAIN manifest

Recorded ==
  \A q \in Integration :
    /\ q \in DOMAIN manifest =>
         plan[q] # None /\ manifest[q].before = Before(q) /\ manifest[q].after = After(q) /\ BackedUp(q)
    /\ written[q] # None =>
         q \in DOMAIN manifest /\ written[q].read = Before(q) /\ written[q].after = After(q)

Copied(c) ==
  calls[c] # None =>
    /\ calls[c].step = "copy" =>
         /\ Client!Setting.trusted # None /\ calls[c].request.config # None
         /\ calls[c].copied \in 0 .. 2
         /\ \A i \in 1 .. 2 : i <= calls[c].copied => adapter.files[Client!Sources[i]] # None
    /\ calls[c].step \in {"report", "conform"} => \A n \in Client!Files : adapter.files[n] # None

Directory ==
  /\ adapter = [files |-> adapter.files, report |-> adapter.report]
  /\ DOMAIN adapter.files = Client!Files

ClientIInv ==
  /\ DOMAIN plan = Integration /\ DOMAIN backup = Integration /\ DOMAIN written = Integration
  /\ DOMAIN calls = Process /\ scene \in DOMAIN ClientSetups
  /\ Directory
  /\ \A c \in Process : Applying(c) /\ Copied(c)
  /\ Recorded
  /\ Client!ReportedIsComplete

LEMMA FilesAre == Client!Files = {"adapter_protocol.py", "reference_adapters.py", "config.json"}
<1>1. DOMAIN Client!Sources = {1, 2} /\ Client!Sources[1] = "adapter_protocol.py"
      /\ Client!Sources[2] = "reference_adapters.py"
  BY DEF Client!Sources
<1>2. Client!ToSet(Client!Sources) = {"adapter_protocol.py", "reference_adapters.py"}
  BY <1>1 DEF Client!ToSet
<1> QED
  BY <1>2 DEF Client!Files

LEMMA ClientInitHolds == Client!Init => ClientIInv
<1> SUFFICES ASSUME Client!Init PROVE ClientIInv
  OBVIOUS
<1>1. adapter.files = [n \in Client!Files |-> None] /\ adapter = [files |-> adapter.files, report |-> None]
  BY DEF Client!Init
<1>2. \A c \in Process : Applying(c) /\ Copied(c)
  BY DEF Client!Init, Applying, Copied
<1>3. Recorded
  BY DEF Client!Init, Recorded
<1>4. Client!ReportedIsComplete
  BY <1>1 DEF Client!ReportedIsComplete
<1> QED
  BY <1>1, <1>2, <1>3, <1>4 DEF Client!Init, ClientIInv, Directory

\* One caller moves, and what is there stays there.
LEMMA MoveKeeps ==
  ASSUME ClientIInv, NEW c \in Process, UNCHANGED <<scene, plan>>,
         DOMAIN calls' = Process, \A d \in Process \ {c} : calls'[d] = calls[d],
         DOMAIN backup' = Integration, DOMAIN written' = Integration,
         \A q \in Integration : (q \in DOMAIN manifest => q \in DOMAIN manifest')
           /\ (BackedUp(q) => BackedUp(q)'),
         Directory', \A n \in Client!Files : adapter.files[n] # None => adapter'.files[n] # None,
         Applying(c)', Copied(c)', Recorded', Client!ReportedIsComplete'
  PROVE  ClientIInv'
<1>1. \A q \in Integration : Before(q)' = Before(q) /\ After(q)' = After(q)
  BY DEF Before, After, Client!Merged, Client!Of, Client!Setting
<1>2. ASSUME NEW d \in Process \ {c} PROVE Applying(d)'
  BY <1>1, <1>2 DEF ClientIInv, Applying
<1>3. ASSUME NEW d \in Process \ {c} PROVE Copied(d)'
  <2>1. Client!Sources[1] \in Client!Files /\ Client!Sources[2] \in Client!Files
    BY FilesAre DEF Client!Sources
  <2>2. Copied(d) /\ calls'[d] = calls[d] /\ scene' = scene
    BY DEF ClientIInv
  <2> QED
    BY <2>1, <2>2 DEF Copied, Client!Setting
<1> QED
  BY <1>2, <1>3 DEF ClientIInv

\* The same, where only the caller's own record changes.
LEMMA CallKeeps ==
  ASSUME ClientIInv, NEW c \in Process, UNCHANGED <<scene, plan, manifest, backup, written, adapter>>,
         DOMAIN calls' = Process, \A d \in Process \ {c} : calls'[d] = calls[d],
         Applying(c)', Copied(c)'
  PROVE  ClientIInv'
<1>1. Recorded' /\ (\A q \in Integration : BackedUp(q)' = BackedUp(q)) /\ Directory'
      /\ Client!ReportedIsComplete'
  BY DEF ClientIInv, Recorded, BackedUp, Before, After, Client!Merged, Client!Of, Client!Setting, Directory,
     Client!ReportedIsComplete
<1> QED
  BY <1>1, MoveKeeps DEF ClientIInv

LEMMA ClientPlanKeeps ==
  ASSUME ClientIInv, NEW q \in Integration, Client!PlanIntegration(q)
  PROVE  ClientIInv'
<1>1. /\ plan[q] = None /\ DOMAIN plan' = Integration /\ \A r \in Integration \ {q} : plan'[r] = plan[r]
      /\ UNCHANGED <<scene, manifest, backup, written, calls, adapter>>
  BY DEF Client!PlanIntegration, ClientIInv
<1>2. \A r \in Integration \ {q} : Before(r)' = Before(r) /\ After(r)' = After(r) /\ BackedUp(r)' = BackedUp(r)
  BY <1>1 DEF Before, After, Client!Merged, Client!Of, Client!Setting, BackedUp
<1>3. ASSUME NEW c \in Process PROVE Applying(c)' /\ Copied(c)'
  BY <1>1, <1>2 DEF ClientIInv, Applying, Copied, Client!Setting
<1>4. Recorded'
  BY <1>1, <1>2 DEF ClientIInv, Recorded
<1>5. Directory' /\ Client!ReportedIsComplete'
  BY <1>1 DEF ClientIInv, Directory, Client!ReportedIsComplete
<1> QED
  BY <1>1, <1>3, <1>4, <1>5 DEF ClientIInv

LEMMA ApplyKeeps ==
  ASSUME ClientIInv, NEW c \in Process, NEW q \in Integration, Client!Apply(c, q)
  PROVE  ClientIInv'
<1>1. /\ plan[q] # None /\ Client!Body(q) = plan[q].before
      /\ calls' = [calls EXCEPT ![c] =
            [step |-> "backup", plan |-> q, body |-> Client!Body(q),
              updated |-> Client!Merged(Client!Document(Client!Body(q)), q)]]
      /\ UNCHANGED <<scene, plan, manifest, backup, written, adapter>>
  BY DEF Client!Apply, Client!CanMerge, Client!Begin, Client!configuration
<1>2. Applying(c)' /\ Copied(c)'
  BY <1>1 DEF ClientIInv, Applying, Copied, Before, After, Client!Merged, Client!Of, Client!Setting
<1> QED
  BY <1>1, <1>2, CallKeeps DEF ClientIInv

LEMMA RollbackKeeps ==
  ASSUME ClientIInv, NEW c \in Process, NEW q \in Integration, Client!Rollback(c, q)
  PROVE  ClientIInv'
<1>1. /\ plan[q] # None /\ q \in DOMAIN manifest
      /\ calls' = [calls EXCEPT ![c] =
            [step |-> "restore", plan |-> q, body |-> manifest[q].before, updated |-> manifest[q].after]]
      /\ UNCHANGED <<scene, plan, manifest, backup, written, adapter>>
  BY DEF Client!Rollback, Client!Begin, Client!configuration
<1>2. Before(q)' = Before(q) /\ After(q)' = After(q) /\ BackedUp(q)' = BackedUp(q)
  BY <1>1 DEF Before, After, Client!Merged, Client!Of, Client!Setting, BackedUp
<1>3. Applying(c)' /\ Copied(c)'
  BY <1>1, <1>2 DEF ClientIInv, Applying, Copied, Recorded
<1> QED
  BY <1>1, <1>3, CallKeeps DEF ClientIInv

LEMMA BackupKeeps ==
  ASSUME ClientIInv, NEW c \in Process, Client!Backup(c)
  PROVE  ClientIInv'
<1> DEFINE q == calls[c].plan
<1>1. /\ calls[c] # None /\ calls[c].step = "backup" /\ calls' = [calls EXCEPT ![c].step = "prepare"]
      /\ UNCHANGED <<scene, plan, manifest, written, adapter>>
      /\ backup' = IF calls[c].body = None THEN backup ELSE [backup EXCEPT ![q] = calls[c].body]
  BY DEF Client!Backup, Client!At
<1>2. q \in Integration /\ plan[q] # None /\ calls[c].body = Before(q) /\ calls[c].updated = After(q)
  BY <1>1 DEF ClientIInv, Applying
<1>3. /\ DOMAIN backup' = Integration /\ BackedUp(q)'
      /\ \A r \in Integration \ {q} : backup'[r] = backup[r]
  BY <1>1, <1>2 DEF ClientIInv, BackedUp, Before
<1>4. \A r \in Integration : Before(r)' = Before(r) /\ After(r)' = After(r) /\ (BackedUp(r) => BackedUp(r)')
  BY <1>1, <1>3 DEF Before, After, Client!Merged, Client!Of, Client!Setting, BackedUp
<1>5. DOMAIN calls' = Process /\ calls'[c].step = "prepare" /\ calls'[c].plan = q
      /\ calls'[c].body = calls[c].body /\ calls'[c].updated = calls[c].updated
      /\ \A d \in Process \ {c} : calls'[d] = calls[d]
  BY <1>1 DEF ClientIInv
<1>6. Applying(c)' /\ Copied(c)'
  BY <1>1, <1>2, <1>3, <1>4, <1>5 DEF Applying, Copied
<1>7. Recorded' /\ Directory' /\ Client!ReportedIsComplete'
  BY <1>1, <1>4 DEF ClientIInv, Recorded, Directory, Client!ReportedIsComplete
<1> QED
  BY <1>1, <1>3, <1>4, <1>5, <1>6, <1>7, MoveKeeps DEF ClientIInv

\* A manifest says of its plan what every manifest of the plan says.
LEMMA ManifestKeeps ==
  ASSUME ClientIInv, NEW c \in Process, NEW status, Client!Manifest(c, status),
         calls[c] # None, calls[c].step \in {"prepare", "write", "commit", "restore", "forget"},
         UNCHANGED <<scene, plan, backup, written, adapter>>,
         DOMAIN calls' = Process, \A d \in Process \ {c} : calls'[d] = calls[d],
         Copied(c)',
         \/ calls'[c] = None
         \/ /\ calls'[c] # None /\ calls'[c].step = "write" /\ calls'[c].plan = calls[c].plan
            /\ calls'[c].body = calls[c].body /\ calls'[c].updated = calls[c].updated
  PROVE  ClientIInv'
<1> DEFINE q == calls[c].plan
<1>1. /\ q \in Integration /\ plan[q] # None /\ calls[c].body = Before(q) /\ calls[c].updated = After(q)
      /\ BackedUp(q)
  BY DEF ClientIInv, Applying
<1>2. /\ DOMAIN manifest' = DOMAIN manifest \cup {q}
      /\ manifest'[q].before = Before(q) /\ manifest'[q].after = After(q)
      /\ \A r \in DOMAIN manifest \ {q} : manifest'[r] = manifest[r]
  BY <1>1 DEF Client!Manifest
<1>3. \A r \in Integration : Before(r)' = Before(r) /\ After(r)' = After(r) /\ BackedUp(r)' = BackedUp(r)
  BY DEF Before, After, Client!Merged, Client!Of, Client!Setting, BackedUp
<1>4. Recorded'
  BY <1>1, <1>2, <1>3 DEF ClientIInv, Recorded
<1>5. Applying(c)'
  BY <1>1, <1>2, <1>3 DEF Applying
<1>6. Directory' /\ Client!ReportedIsComplete'
  BY DEF ClientIInv, Directory, Client!ReportedIsComplete
<1> QED
  BY <1>1, <1>2, <1>3, <1>4, <1>5, <1>6, MoveKeeps DEF ClientIInv

LEMMA PrepareKeeps ==
  ASSUME ClientIInv, NEW c \in Process, Client!Prepare(c)
  PROVE  ClientIInv'
<1>1. /\ calls[c] # None /\ calls[c].step = "prepare" /\ calls' = [calls EXCEPT ![c].step = "write"]
      /\ Client!Manifest(c, "PREPARED") /\ UNCHANGED <<scene, plan, backup, written, adapter>>
  BY DEF Client!Prepare, Client!At
<1>2. /\ DOMAIN calls' = Process /\ calls'[c].step = "write" /\ calls'[c].plan = calls[c].plan
      /\ calls'[c].body = calls[c].body /\ calls'[c].updated = calls[c].updated
      /\ \A d \in Process \ {c} : calls'[d] = calls[d]
  BY <1>1 DEF ClientIInv
<1>3. calls'[c] # None \/ calls'[c] = None
  OBVIOUS
<1>4. Copied(c)'
  BY <1>2 DEF Copied
<1> QED
  BY <1>1, <1>2, <1>3, <1>4, ManifestKeeps

LEMMA ClientCommitKeeps ==
  ASSUME ClientIInv, NEW c \in Process, Client!Commit(c) \/ Client!Forget(c)
  PROVE  ClientIInv'
<1>1. PICK status : Client!Manifest(c, status)
  BY DEF Client!Commit, Client!Forget
<1>2. /\ calls[c] # None /\ calls[c].step \in {"commit", "forget"} /\ calls' = [calls EXCEPT ![c] = None]
      /\ UNCHANGED <<scene, plan, backup, written, adapter>>
  BY DEF Client!Commit, Client!Forget, Client!At, Client!Return
<1>3. DOMAIN calls' = Process /\ calls'[c] = None /\ \A d \in Process \ {c} : calls'[d] = calls[d]
  BY <1>2 DEF ClientIInv
<1>4. Copied(c)'
  BY <1>3 DEF Copied
<1> QED
  BY <1>1, <1>2, <1>3, <1>4, ManifestKeeps

LEMMA WriteKeeps ==
  ASSUME ClientIInv, NEW c \in Process, Client!Write(c)
  PROVE  ClientIInv'
<1> DEFINE q == calls[c].plan
<1>1. /\ calls[c] # None /\ calls[c].step = "write" /\ calls' = [calls EXCEPT ![c].step = "commit"]
      /\ written' = [written EXCEPT ![q] = [read |-> calls[c].body, after |-> calls[c].updated]]
      /\ UNCHANGED <<scene, plan, manifest, backup, adapter>>
  BY DEF Client!Write, Client!At
<1>2. /\ q \in Integration /\ plan[q] # None /\ calls[c].body = Before(q) /\ calls[c].updated = After(q)
      /\ BackedUp(q) /\ q \in DOMAIN manifest
  BY <1>1 DEF ClientIInv, Applying
<1>3. \A r \in Integration : Before(r)' = Before(r) /\ After(r)' = After(r) /\ BackedUp(r)' = BackedUp(r)
  BY <1>1 DEF Before, After, Client!Merged, Client!Of, Client!Setting, BackedUp
<1>4. /\ DOMAIN written' = Integration /\ written'[q].read = Before(q) /\ written'[q].after = After(q)
      /\ \A r \in Integration \ {q} : written'[r] = written[r]
  BY <1>1, <1>2 DEF ClientIInv
<1>5. Recorded'
  BY <1>1, <1>2, <1>3, <1>4 DEF ClientIInv, Recorded
<1>6. /\ DOMAIN calls' = Process /\ calls'[c].step = "commit" /\ calls'[c].plan = q
      /\ calls'[c].body = calls[c].body /\ calls'[c].updated = calls[c].updated
      /\ \A d \in Process \ {c} : calls'[d] = calls[d]
  BY <1>1 DEF ClientIInv
<1>7. Applying(c)' /\ Copied(c)'
  BY <1>1, <1>2, <1>3, <1>6 DEF Applying, Copied
<1>8. Directory' /\ Client!ReportedIsComplete' /\ DOMAIN backup' = Integration
  BY <1>1 DEF ClientIInv, Directory, Client!ReportedIsComplete
<1> QED
  BY <1>1, <1>3, <1>4, <1>5, <1>6, <1>7, <1>8, MoveKeeps

LEMMA RestoreKeeps ==
  ASSUME ClientIInv, NEW c \in Process, Client!Restore(c)
  PROVE  ClientIInv'
<1> DEFINE q == calls[c].plan
<1>1. /\ calls[c] # None /\ calls[c].step = "restore"
      /\ UNCHANGED <<scene, plan, manifest, backup, written, adapter>>
  BY DEF Client!Restore, Client!At
<1>2. /\ q \in Integration /\ plan[q] # None /\ calls[c].body = Before(q) /\ calls[c].updated = After(q)
      /\ BackedUp(q)
  BY <1>1 DEF ClientIInv, Applying
<1>3. \A r \in Integration : Before(r)' = Before(r) /\ After(r)' = After(r) /\ BackedUp(r)' = BackedUp(r)
  BY <1>1 DEF Before, After, Client!Merged, Client!Of, Client!Setting, BackedUp
<1>4. CASE calls' = [calls EXCEPT ![c].step = "forget"]
  <2>1. /\ DOMAIN calls' = Process /\ calls'[c].step = "forget" /\ calls'[c].plan = q
        /\ calls'[c].body = calls[c].body /\ calls'[c].updated = calls[c].updated
        /\ \A d \in Process \ {c} : calls'[d] = calls[d]
    BY <1>1, <1>4 DEF ClientIInv
  <2>2. Applying(c)' /\ Copied(c)'
    BY <1>1, <1>2, <1>3, <2>1 DEF Applying, Copied
  <2> QED
    BY <1>1, <2>1, <2>2, CallKeeps
<1>5. CASE calls' = [calls EXCEPT ![c] = None]
  <2>1. DOMAIN calls' = Process /\ calls'[c] = None /\ \A d \in Process \ {c} : calls'[d] = calls[d]
    BY <1>5 DEF ClientIInv
  <2>2. Applying(c)' /\ Copied(c)'
    BY <2>1 DEF Applying, Copied
  <2> QED
    BY <1>1, <2>1, <2>2, CallKeeps
<1> QED
  BY <1>4, <1>5 DEF Client!Restore, Client!Return

LEMMA SynthesizeKeeps ==
  ASSUME ClientIInv, NEW c \in Process, Client!Synthesize(c)
  PROVE  ClientIInv'
<1>1. PICK request \in Client!Setting.syntheses : Client!Begin(c, [step |-> "copy", copied |-> 0,
           request |-> request])
  BY DEF Client!Synthesize
<1>2. /\ Client!Setting.trusted # None /\ UNCHANGED <<scene, plan, manifest, backup, written, adapter>>
  BY DEF Client!Synthesize, Client!configuration
<1>3. request.config # None
  BY ClientAssumption DEF ClientIInv, Client!Setting
<1>4. /\ DOMAIN calls' = Process /\ calls'[c] = [step |-> "copy", copied |-> 0, request |-> request]
      /\ \A d \in Process \ {c} : calls'[d] = calls[d]
  BY <1>1 DEF Client!Begin, ClientIInv
<1>5. Applying(c)' /\ Copied(c)'
  BY <1>2, <1>3, <1>4 DEF Applying, Copied, Client!Setting
<1> QED
  BY <1>2, <1>4, <1>5, CallKeeps

LEMMA CopyKeeps ==
  ASSUME ClientIInv, NEW c \in Process, Client!Copy(c)
  PROVE  ClientIInv'
<1>1. /\ calls[c] # None /\ calls[c].step = "copy" /\ Client!Setting.trusted # None
         /\ calls[c].request.config # None
      /\ calls[c].copied \in 0 .. 2 /\ \A i \in 1 .. 2 : i <= calls[c].copied =>
         adapter.files[Client!Sources[i]] # None
      /\ UNCHANGED <<scene, plan, manifest, backup, written>>
  BY DEF Client!Copy, Client!At, ClientIInv, Copied, Client!configuration
<1>2. Len(Client!Sources) = 2 /\ Client!Sources[1] = "adapter_protocol.py"
      /\ Client!Sources[2] = "reference_adapters.py"
  BY DEF Client!Sources
<1>3. Recorded' /\ \A q \in Integration : BackedUp(q)' = BackedUp(q)
  BY <1>1 DEF ClientIInv, Recorded, Before, After, Client!Merged, Client!Of, Client!Setting, BackedUp
<1>4. CASE calls[c].copied < 2
  <2> DEFINE name == Client!Sources[calls[c].copied + 1]
  <2>1. /\ adapter' = [adapter EXCEPT !.files[name] = Client!Setting.trusted]
        /\ calls' = [calls EXCEPT ![c].copied = calls[c].copied + 1]
    BY <1>1, <1>2, <1>4 DEF Client!Copy
  <2>2. name \in Client!Files
    BY <1>1, <1>2, <1>4, FilesAre
  <2>3. adapter' = [files |-> [adapter.files EXCEPT ![name] = Client!Setting.trusted],
        report |-> adapter.report]
    BY <2>1, Zenon DEF ClientIInv, Directory
  <2>4. /\ Directory' /\ adapter'.report = adapter.report /\ adapter'.files[name] # None
        /\ \A n \in Client!Files : adapter.files[n] # None => adapter'.files[n] # None
    BY <1>1, <2>2, <2>3 DEF ClientIInv, Directory
  <2>5. Client!ReportedIsComplete'
    BY <2>4 DEF ClientIInv, Client!ReportedIsComplete
  <2>6. /\ DOMAIN calls' = Process /\ calls'[c].step = "copy" /\ calls'[c].request = calls[c].request
        /\ calls'[c].copied = calls[c].copied + 1 /\ \A d \in Process \ {c} : calls'[d] = calls[d]
    BY <1>1, <2>1 DEF ClientIInv
  <2>7. Client!Sources[1] \in Client!Files /\ Client!Sources[2] \in Client!Files
    BY <1>2, FilesAre
  <2>8. \A i \in 1 .. 2 : i <= calls'[c].copied => adapter'.files[Client!Sources[i]] # None
    BY <1>1, <1>4, <2>4, <2>6, <2>7
  <2>9. Applying(c)' /\ Copied(c)'
    BY <1>1, <1>4, <2>6, <2>8 DEF Applying, Copied, Client!Setting
  <2> QED
    BY <1>1, <1>3, <2>4, <2>5, <2>6, <2>9, MoveKeeps DEF ClientIInv
<1>5. CASE calls[c].copied = 2
  <2>1. /\ adapter' = [adapter EXCEPT !.files["config.json"] = calls[c].request.config]
        /\ calls' = [calls EXCEPT ![c].step = "report"]
    BY <1>1, <1>2, <1>5 DEF Client!Copy
  <2>2. adapter' = [files |-> [adapter.files EXCEPT !["config.json"] = calls[c].request.config],
        report |-> adapter.report]
    BY <2>1, Zenon DEF ClientIInv, Directory
  <2>3. /\ Directory' /\ adapter'.report = adapter.report /\ adapter'.files["config.json"] # None
        /\ \A n \in Client!Files : adapter.files[n] # None => adapter'.files[n] # None
    BY <1>1, <2>2, FilesAre DEF ClientIInv, Directory
  <2>4. adapter.files[Client!Sources[1]] # None /\ adapter.files[Client!Sources[2]] # None
    BY <1>1, <1>5
  <2>5. \A n \in Client!Files : adapter'.files[n] # None
    BY <1>2, <2>3, <2>4, FilesAre
  <2>6. Client!ReportedIsComplete'
    BY <2>5 DEF Client!ReportedIsComplete
  <2>7. /\ DOMAIN calls' = Process /\ calls'[c].step = "report" /\ \A d \in Process \ {c} : calls'[d] = calls[d]
    BY <1>1, <2>1 DEF ClientIInv
  <2>8. Applying(c)' /\ Copied(c)'
    BY <2>5, <2>7 DEF Applying, Copied
  <2> QED
    BY <1>1, <1>3, <2>3, <2>6, <2>7, <2>8, MoveKeeps DEF ClientIInv
<1> QED
  BY <1>1, <1>4, <1>5

\* The report is written where the directory is complete.
LEMMA ReportKeeps ==
  ASSUME ClientIInv, NEW c \in Process, Client!Report(c) \/ Client!Judge(c)
  PROVE  ClientIInv'
<1>1. /\ calls[c] # None /\ calls[c].step \in {"report", "conform"} /\ calls' = [calls EXCEPT ![c] = None]
      /\ UNCHANGED <<scene, plan, manifest, backup, written>>
      /\ adapter' = adapter \/ \E report : adapter' = [adapter EXCEPT !.report = report]
  BY DEF Client!Report, Client!Judge, Client!At, Client!Return, Client!configuration
<1>2. \A n \in Client!Files : adapter.files[n] # None
  BY <1>1 DEF ClientIInv, Copied
<1>3. PICK report : adapter' = [files |-> adapter.files, report |-> report]
  BY <1>1 DEF ClientIInv, Directory
<1>4. Directory' /\ adapter'.files = adapter.files /\ Client!ReportedIsComplete'
  BY <1>2, <1>3 DEF ClientIInv, Directory, Client!ReportedIsComplete
<1>5. Recorded' /\ \A q \in Integration : BackedUp(q)' = BackedUp(q)
  BY <1>1 DEF ClientIInv, Recorded, Before, After, Client!Merged, Client!Of, Client!Setting, BackedUp
<1>6. DOMAIN calls' = Process /\ calls'[c] = None /\ \A d \in Process \ {c} : calls'[d] = calls[d]
  BY <1>1 DEF ClientIInv
<1>7. Applying(c)' /\ Copied(c)'
  BY <1>6 DEF Applying, Copied
<1> QED
  BY <1>1, <1>4, <1>5, <1>6, <1>7, MoveKeeps DEF ClientIInv

LEMMA ConformKeeps ==
  ASSUME ClientIInv, NEW c \in Process, Client!Conform(c)
  PROVE  ClientIInv'
<1>1. /\ adapter.report # None /\ calls' = [calls EXCEPT ![c] = [step |-> "conform", report |-> adapter.report]]
      /\ UNCHANGED <<scene, plan, manifest, backup, written, adapter>>
  BY DEF Client!Conform, Client!Begin, Client!configuration
<1>2. /\ DOMAIN calls' = Process /\ calls'[c].step = "conform" /\ \A d \in Process \ {c} : calls'[d] = calls[d]
  BY <1>1 DEF ClientIInv
<1>3. Applying(c)' /\ Copied(c)'
  BY <1>1, <1>2 DEF ClientIInv, Applying, Copied, Client!ReportedIsComplete
<1> QED
  BY <1>1, <1>2, <1>3, CallKeeps

LEMMA ClientDieKeeps ==
  ASSUME ClientIInv, NEW c \in Process, Client!Die(c)
  PROVE  ClientIInv'
<1>1. calls' = [calls EXCEPT ![c] = None] /\ UNCHANGED <<scene, plan, manifest, backup, written, adapter>>
  BY DEF Client!Die, Client!Return, Client!configuration
<1>2. DOMAIN calls' = Process /\ calls'[c] = None /\ \A d \in Process \ {c} : calls'[d] = calls[d]
  BY <1>1 DEF ClientIInv
<1>3. Applying(c)' /\ Copied(c)'
  BY <1>2 DEF Applying, Copied
<1> QED
  BY <1>1, <1>2, <1>3, CallKeeps

\* What the plans, the manifests and the directory do not depend on.
LEMMA OthersKeep ==
  ASSUME ClientIInv, UNCHANGED <<scene, plan, manifest, backup, written, calls, adapter>>
  PROVE  ClientIInv'
<1>1. \A q \in Integration : Before(q)' = Before(q) /\ After(q)' = After(q) /\ BackedUp(q)' = BackedUp(q)
  BY DEF Before, After, Client!Merged, Client!Of, Client!Setting, BackedUp
<1>2. \A c \in Process : Applying(c)' /\ Copied(c)'
  BY <1>1 DEF ClientIInv, Applying, Copied, Client!Setting
<1> QED
  BY <1>1, <1>2 DEF ClientIInv, Recorded, Directory, Client!ReportedIsComplete

LEMMA ClientStepKeeps ==
  ASSUME ClientIInv, [Client!Next]_(Client!vars)
  PROVE  ClientIInv'
<1>1. CASE Client!HandOver \/ Client!VerifyDispatch \/ Client!RouteModels \/ Client!Upgrade \/ Client!Tick
  BY <1>1, OthersKeep DEF Client!HandOver, Client!VerifyDispatch, Client!RouteModels, Client!Upgrade,
     Client!Tick, Client!configuration
<1>2. ASSUME NEW f \in ConfigFile, Client!Edit(f) PROVE ClientIInv'
  BY <1>2, OthersKeep DEF Client!Edit
<1>3. ASSUME NEW q \in Integration, Client!Detect(q) PROVE ClientIInv'
  BY <1>3, OthersKeep DEF Client!Detect
<1>4. ASSUME NEW q \in Integration, Client!PlanIntegration(q) PROVE ClientIInv'
  BY <1>4, ClientPlanKeeps
<1>5. ASSUME NEW q \in Integration, NEW c \in Process, Client!Apply(c, q)
             \/ Client!Rollback(c, q) PROVE ClientIInv'
  BY <1>5, ApplyKeeps, RollbackKeeps
<1>6. ASSUME NEW c \in Process,
             \/ Client!Backup(c) \/ Client!Prepare(c) \/ Client!Write(c) \/ Client!Commit(c)
                \/ Client!Restore(c) \/ Client!Forget(c)
             \/ Client!Synthesize(c) \/ Client!Copy(c) \/ Client!Report(c) \/ Client!Conform(c)
                \/ Client!Judge(c) \/ Client!Die(c)
      PROVE  ClientIInv'
  BY <1>6, BackupKeeps, PrepareKeeps, WriteKeeps, ClientCommitKeeps, RestoreKeeps, SynthesizeKeeps, CopyKeeps,
     ReportKeeps, ConformKeeps, ClientDieKeeps
<1>7. CASE UNCHANGED Client!vars
  BY <1>7, OthersKeep DEF Client!vars, Client!configuration
<1> QED
  BY <1>1, <1>2, <1>3, <1>4, <1>5, <1>6, <1>7 DEF Client!Next

-----------------------------------------------------------------------------
(***************************************************************************)
(* The registry of artifacts. The lock file keeps the calls between reading*)
(* and writing the registry apart, although dead processes leave it behind;*)
(* what a call is about to write, or has yet to put into an artifact, is   *)
(* carried along by an invariant of each call.                             *)
(***************************************************************************)
Artifacts == [uid : Uid, kind : Kind, ref : Registry!Ref \cup {None}]

Critical == {"reading", "writing", "releasing", "refused"}
Calls ==
  [pc : Critical \cup {"idle", "checking", "locking", "filing"},
   op : {"init", "new", "defer", "register", None},
   artifact : Artifacts \cup {None}, file : ArtifactFile \cup {None},
   expected : Nat \cup {None}, copy : Registry!Registries \cup {None}]

Injective(allocations) == \A x, y \in allocations : x.ref = y.ref <=> x.uid = y.uid

EntryOf(a) == [ref |-> a.ref, uid |-> a.uid]
Held(r, x) == r # None /\ x \in r.allocations

RegistryTypes ==
  /\ lock \in Process \cup {None}
  /\ registry \in Registry!Registries \cup {None}
  /\ artifact \in [ArtifactFile -> Artifacts \cup {None}]
  /\ call \in [Process -> Calls]

\* What a call carries: a registry that only adds to the one on disk, or an
\* artifact whose reference is in the registry on disk.
Carries(r, c) ==
  /\ c.pc # "idle" /\ c.op # "init" => c.artifact \in Artifacts
  /\ c.pc \in {"filing", "releasing"} => c.op # "init"
  /\ c.pc = "checking" => c.op # "init" /\ c.artifact.ref = None
  /\ c.pc = "writing" =>
       /\ c.copy \in Registry!Registries
       /\ Injective(c.copy.allocations)
       /\ r # None => r.allocations \subseteq c.copy.allocations
       /\ c.op # "init" => EntryOf(c.artifact) \in c.copy.allocations
  /\ c.pc \in {"filing", "releasing"} /\ c.artifact.ref # None => Held(r, EntryOf(c.artifact))

RegistryIInv ==
  /\ RegistryTypes
  /\ \A p \in Process : call[p].pc \in Critical => lock = p
  /\ \A p \in Process : Carries(registry, call[p])
  /\ registry # None => Injective(registry.allocations)
  /\ \A x \in known : Held(registry, x)

LEMMA RegistryInitHolds == Registry!Init => RegistryIInv
BY RegistryAssumption DEF Registry!Init, RegistryIInv, RegistryTypes, Calls, Registry!NoCall, Critical, Carries

LEMMA HeldIsOne == RegistryIInv => Registry!OneReference
BY DEF RegistryIInv, Registry!OneReference, Held, Injective

-----------------------------------------------------------------------------
(***************************************************************************)
(* A step that leaves the registry alone and changes one call.             *)
(***************************************************************************)
LEMMA CallStep ==
  ASSUME RegistryIInv, NEW p \in Process, NEW c \in Calls,
         call' = [call EXCEPT ![p] = c], registry' = registry,
         lock' \in Process \cup {None},
         artifact' \in [ArtifactFile -> Artifacts \cup {None}],
         \A x \in known' : Held(registry, x),
         Carries(registry, c),
         c.pc \in Critical => lock' = p,
         \A q \in Process \ {p} : call[q].pc \in Critical => lock' = q
  PROVE  RegistryIInv'
<1>1. RegistryTypes'
  BY DEF RegistryIInv, RegistryTypes
<1>2. \A q \in Process : call'[q] = IF q = p THEN c ELSE call[q]
  BY DEF RegistryIInv, RegistryTypes
<1>3. \A q \in Process : call'[q].pc \in Critical => lock' = q
  BY <1>2
<1>4. \A q \in Process : Carries(registry, call'[q])
  BY <1>2 DEF RegistryIInv
<1>5. \A q \in Process : Carries(registry, call[q])'
  BY <1>4 DEF Carries, Held
<1> QED
  BY <1>1, <1>3, <1>5 DEF RegistryIInv, Held

LEMMA BeginKeeps ==
  ASSUME RegistryIInv, NEW p \in Process, NEW op \in {"init", "new", "defer", "register"},
         NEW a \in Artifacts \cup {None}, NEW f \in ArtifactFile \cup {None},
         NEW expected \in Nat \cup {None},
         op # "init" => a \in Artifacts, op = "defer" => a.ref = None,
         Registry!Begin(p, op, a, f, expected)
  PROVE  RegistryIInv'
<1> DEFINE c == [Registry!NoCall EXCEPT !.pc = IF op = "defer" THEN "checking" ELSE "locking",
                               !.op = op, !.artifact = a, !.file = f, !.expected = expected]
<1>1. c \in Calls /\ Carries(registry, c) /\ c.pc \notin Critical
  BY DEF Calls, Registry!NoCall, Critical, Carries
<1>2. call' = [call EXCEPT ![p] = c] /\ UNCHANGED <<lock, registry, artifact, known>>
  BY DEF Registry!Begin
<1>3. \A x \in known' : Held(registry, x)
  BY <1>2 DEF RegistryIInv
<1> HIDE DEF c
<1> QED
  BY <1>1, <1>2, <1>3, CallStep DEF RegistryIInv, RegistryTypes

LEMMA BeginNewKeeps ==
  ASSUME RegistryIInv, NEW p \in Process, NEW uid \in Uid, NEW k \in Kind,
         NEW f \in ArtifactFile \cup {None}, NEW deferred \in BOOLEAN,
         Registry!BeginNew(p, uid, k, f, deferred)
  PROVE  RegistryIInv'
<1> DEFINE op == IF deferred THEN "defer" ELSE "new"
<1>1. PICK e \in Registry!Expectable : Registry!Begin(p, op, Registry!Artifact(uid, k, None), f, e)
  BY DEF Registry!BeginNew
<1>2. e \in Nat \cup {None}
  BY DEF Registry!Expectable, RegistryIInv, RegistryTypes, Registry!Registries
<1>3. Registry!Artifact(uid, k, None) \in Artifacts /\ Registry!Artifact(uid, k, None).ref = None
  BY DEF Registry!Artifact, Artifacts
<1>4. op \in {"init", "new", "defer", "register"}
  OBVIOUS
<1> HIDE DEF op
<1> QED
  BY <1>1, <1>2, <1>3, <1>4, BeginKeeps

LEMMA BeginRegisterKeeps ==
  ASSUME RegistryIInv, NEW p \in Process, NEW f \in ArtifactFile, Registry!BeginRegister(p, f)
  PROVE  RegistryIInv'
<1>1. PICK e \in Registry!Expectable : Registry!Begin(p, "register", artifact[f], f, e)
  BY DEF Registry!BeginRegister
<1>2. e \in Nat \cup {None}
  BY DEF Registry!Expectable, RegistryIInv, RegistryTypes, Registry!Registries
<1>3. artifact[f] \in Artifacts
  BY DEF Registry!BeginRegister, RegistryIInv, RegistryTypes
<1> QED
  BY <1>1, <1>2, <1>3, BeginKeeps

\* A call that ends carries nothing.
LEMMA IdleCarries == Registry!NoCall \in Calls /\ Carries(registry, Registry!NoCall)
  /\ Registry!NoCall.pc \notin Critical
BY DEF Registry!NoCall, Calls, Carries, Critical

LEMMA LeaveKeeps ==
  ASSUME RegistryIInv, NEW p \in Process, Registry!Leave(p), UNCHANGED <<lock, registry, artifact, known>>
  PROVE  RegistryIInv'
BY IdleCarries, CallStep DEF Registry!Leave, RegistryIInv, RegistryTypes

LEMMA GotoIsCall ==
  ASSUME RegistryIInv, NEW p \in Process,
         NEW pc \in Critical \cup {"idle", "checking", "locking", "filing"}, Registry!Goto(p, pc)
  PROVE  /\ call' = [call EXCEPT ![p] = [call[p] EXCEPT !.pc = pc]]
         /\ [call[p] EXCEPT !.pc = pc] \in Calls
         /\ [call[p] EXCEPT !.pc = pc].pc = pc
BY DEF Registry!Goto, RegistryIInv, RegistryTypes, Calls

LEMMA DeferKeeps == ASSUME RegistryIInv, NEW p \in Process, Registry!Defer(p) PROVE RegistryIInv'
<1>1. CASE registry = None
  BY <1>1, LeaveKeeps DEF Registry!Defer
<1>2. CASE registry # None
  <2> DEFINE c == [call[p] EXCEPT !.pc = "filing"]
  <2>1. Registry!Goto(p, "filing") /\ UNCHANGED <<lock, registry, artifact, known>> /\ call[p].pc = "checking"
    BY <1>2 DEF Registry!Defer
  <2>2. call' = [call EXCEPT ![p] = c] /\ c \in Calls /\ c.pc = "filing"
    BY <2>1, GotoIsCall
  <2>3. Carries(registry, c)
    BY <2>1 DEF RegistryIInv, RegistryTypes, Calls, Carries
  <2>4. c.pc \notin Critical
    BY <2>2 DEF Critical
  <2> HIDE DEF c
  <2> QED
    BY <2>1, <2>2, <2>3, <2>4, CallStep DEF RegistryIInv, RegistryTypes
<1> QED
  BY <1>1, <1>2

LEMMA AcquireKeeps == ASSUME RegistryIInv, NEW p \in Process, Registry!Acquire(p) PROVE RegistryIInv'
<1> DEFINE c == [call[p] EXCEPT !.pc = "reading"]
<1>1. /\ Registry!Goto(p, "reading") /\ lock = None /\ lock' = p /\ call[p].pc = "locking"
      /\ UNCHANGED <<registry, artifact, known>>
  BY DEF Registry!Acquire, Registry!Free
<1>2. call' = [call EXCEPT ![p] = c] /\ c \in Calls /\ c.pc = "reading"
  BY <1>1, GotoIsCall DEF Critical
<1>3. Carries(registry, c)
  BY <1>1 DEF RegistryIInv, RegistryTypes, Calls, Carries
<1>4. \A q \in Process : call[q].pc \notin Critical
  BY <1>1, RegistryAssumption DEF RegistryIInv
<1> HIDE DEF c
<1> QED
  BY <1>1, <1>2, <1>3, <1>4, CallStep DEF RegistryIInv, RegistryTypes

-----------------------------------------------------------------------------
\* What reading makes of a call that goes on, component by component.
Found(k, ref) ==
  [k EXCEPT !.pc = "releasing", !.artifact.ref = ref]

LEMMA FoundIsCall ==
  ASSUME NEW k \in Calls, k.artifact \in Artifacts, NEW ref \in Registry!Ref
  PROVE  LET c == Found(k, ref) IN
         /\ c \in Calls /\ c.pc = "releasing" /\ c.op = k.op
         /\ c.artifact = [k.artifact EXCEPT !.ref = ref] /\ c.artifact \in Artifacts
<1> DEFINE c == Found(k, ref)
<1>1. [k.artifact EXCEPT !.ref = ref] \in Artifacts
  BY DEF Artifacts
<1>2. /\ c.artifact = [k.artifact EXCEPT !.ref = ref] /\ c.pc = "releasing" /\ c.op = k.op
  BY DEF Calls, Found
<1>3. c \in Calls
  BY <1>1 DEF Calls, Critical, Found
<1> QED
  BY <1>1, <1>2, <1>3

Renewed(k, copy, ref) ==
  [k EXCEPT !.pc = "writing", !.copy = copy, !.artifact.ref = ref]

LEMMA AllocatedIsCall ==
  ASSUME NEW k \in Calls, k.artifact \in Artifacts, NEW ref \in Registry!Ref, NEW copy \in Registry!Registries
  PROVE  LET c == Renewed(k, copy, ref) IN
         /\ c \in Calls /\ c.pc = "writing" /\ c.op = k.op /\ c.copy = copy
         /\ c.artifact = [k.artifact EXCEPT !.ref = ref] /\ c.artifact \in Artifacts
<1> DEFINE c == Renewed(k, copy, ref)
<1>1. [k.artifact EXCEPT !.ref = ref] \in Artifacts
  BY DEF Artifacts
<1>2. /\ c.artifact = [k.artifact EXCEPT !.ref = ref] /\ c.pc = "writing" /\ c.op = k.op /\ c.copy = copy
  BY DEF Calls, Renewed
<1>3. c \in Calls
  BY <1>1 DEF Calls, Critical, Renewed
<1> QED
  BY <1>1, <1>2, <1>3

-----------------------------------------------------------------------------
(***************************************************************************)
(* Reading the registry: a new reference is one no allocation has, given   *)
(* to a UID that has none; a reference found again is in the registry.     *)
(***************************************************************************)
LEMMA AllocationIsSound ==
  ASSUME NEW r \in Registry!Registries, Injective(r.allocations),
         NEW a \in Artifacts, Registry!Allocatable(r, a)
  PROVE  /\ Registry!Allocated(r, a) \in Registry!Registries
         /\ Registry!NextRef(r, a.kind) \in Registry!Ref
         /\ r.allocations \subseteq Registry!Allocated(r, a).allocations
         /\ [ref |-> Registry!NextRef(r, a.kind), uid |-> a.uid] \in Registry!Allocated(r, a).allocations
         /\ Injective(Registry!Allocated(r, a).allocations)
<1> DEFINE new == [ref |-> Registry!NextRef(r, a.kind), uid |-> a.uid]
<1>1. a.uid \in Uid /\ a.kind \in Kind /\ r.next \in [Kind -> Nat] /\ r.revision \in Nat
      /\ r.allocations \in SUBSET Registry!Allocation
  BY DEF Artifacts, Registry!Registries
<1>2. Registry!NextRef(r, a.kind) \in Registry!Ref
  BY <1>1 DEF Registry!NextRef, Registry!Ref
<1>3. new \in Registry!Allocation
  BY <1>1, <1>2 DEF Registry!Allocation
<1>4. Registry!Allocated(r, a).allocations = r.allocations \cup {new}
  BY DEF Registry!Allocated
<1>5. Registry!Allocated(r, a) \in Registry!Registries
  <2>1. [r.next EXCEPT ![a.kind] = @ + 1] \in [Kind -> Nat]
    BY <1>1
  <2> QED
    BY <1>1, <1>3, <2>1 DEF Registry!Allocated, Registry!Registries
<1>6. \A x \in r.allocations : x.ref # new.ref /\ x.uid # new.uid
  BY DEF Registry!Allocatable, Registry!RefsOf
<1>7. Injective(Registry!Allocated(r, a).allocations)
  BY <1>4, <1>6 DEF Injective
<1> QED
  BY <1>2, <1>4, <1>5, <1>7

LEMMA ReadKeeps == ASSUME RegistryIInv, NEW p \in Process, Registry!Read(p) PROVE RegistryIInv'
<1> DEFINE c == Registry!Decided(call[p], registry)
           a == call[p].artifact
<1>1. /\ call' = [call EXCEPT ![p] = c] /\ call[p].pc = "reading"
      /\ UNCHANGED <<lock, registry, artifact, known>>
  BY DEF Registry!Read, RegistryIInv, RegistryTypes
<1>2. call[p] \in Calls /\ Carries(registry, call[p]) /\ lock = p
  BY <1>1 DEF RegistryIInv, RegistryTypes, Critical
<1>3. c \in Calls /\ Carries(registry, c)
  <2>1. CASE c = [call[p] EXCEPT !.pc = "refused"]
    BY <1>1, <1>2, <2>1 DEF Calls, Critical, Carries
  <2>2. CASE call[p].op = "init" /\ registry = None
    <3>1. c = [call[p] EXCEPT !.pc = "writing", !.copy = Registry!Initial]
      BY <2>2 DEF Registry!Decided
    <3>2. Registry!Initial \in Registry!Registries /\ Injective(Registry!Initial.allocations)
      BY DEF Registry!Initial, Registry!Registries, Injective
    <3>3. /\ c \in Calls /\ c.pc = "writing" /\ c.copy = Registry!Initial /\ c.op = "init"
      BY <1>2, <2>2, <3>1, <3>2 DEF Calls, Critical
    <3> HIDE DEF c
    <3> QED
      BY <2>2, <3>2, <3>3 DEF Carries
  <2>3. CASE call[p].op # "init" /\ Registry!Usable(registry, call[p].expected) /\ a.ref = None
    <3>1. registry \in Registry!Registries /\ Injective(registry.allocations) /\ a \in Artifacts
      BY <1>1, <1>2, <2>3 DEF Registry!Usable, RegistryIInv, RegistryTypes, Carries
    <3>2. CASE call[p].op = "register" /\ Registry!RefsOf(registry, a.uid) # {}
      <4> DEFINE ref == CHOOSE x \in Registry!RefsOf(registry, a.uid) : TRUE
      <4>1. c = Found(call[p], ref)
        BY <2>3, <3>2 DEF Registry!Decided, Found
      <4>2. ref \in Registry!RefsOf(registry, a.uid)
        BY <3>2
      <4> HIDE DEF ref
      <4>3. PICK y \in registry.allocations : y.uid = a.uid /\ y.ref = ref
        BY <4>2 DEF Registry!RefsOf
      <4>4. y \in Registry!Allocation
        BY <3>1, <4>3 DEF Registry!Registries
      <4>5. ref \in Registry!Ref /\ y = [ref |-> ref, uid |-> a.uid]
        BY <4>3, <4>4 DEF Registry!Allocation
      <4> HIDE DEF c
      <4>6. /\ c \in Calls /\ c.pc = "releasing" /\ c.op = "register"
            /\ c.artifact = [a EXCEPT !.ref = ref] /\ c.artifact \in Artifacts
        BY <1>2, <3>1, <3>2, <4>1, <4>5, FoundIsCall
      <4>7. EntryOf(c.artifact) = y
        BY <3>1, <4>5, <4>6 DEF EntryOf, Artifacts
      <4>8. registry # None
        BY <2>3 DEF Registry!Usable
      <4> QED
        BY <4>3, <4>6, <4>7, <4>8 DEF Carries, Held
    <3>3. CASE ~(call[p].op = "register" /\ Registry!RefsOf(registry, a.uid) # {})
               /\ Registry!Allocatable(registry, a)
      <4>1. c = Renewed(call[p], Registry!Allocated(registry, a), Registry!NextRef(registry, a.kind))
        BY <2>3, <3>3 DEF Registry!Decided, Renewed
      <4>2. /\ Registry!Allocated(registry, a) \in Registry!Registries
            /\ Registry!NextRef(registry, a.kind) \in Registry!Ref
            /\ registry.allocations \subseteq Registry!Allocated(registry, a).allocations
            /\ [ref |-> Registry!NextRef(registry, a.kind), uid |-> a.uid] \in Registry!Allocated(registry,
               a).allocations
            /\ Injective(Registry!Allocated(registry, a).allocations)
        BY <3>1, <3>3, AllocationIsSound
      <4> HIDE DEF c
      <4>3. /\ c \in Calls /\ c.pc = "writing" /\ c.op # "init"
            /\ c.copy = Registry!Allocated(registry, a)
            /\ c.artifact = [a EXCEPT !.ref = Registry!NextRef(registry, a.kind)] /\ c.artifact \in Artifacts
        BY <1>2, <2>3, <3>1, <4>1, <4>2, AllocatedIsCall
      <4>4. EntryOf(c.artifact) = [ref |-> Registry!NextRef(registry, a.kind), uid |-> a.uid]
        BY <3>1, <4>3 DEF EntryOf, Artifacts
      <4> QED
        BY <4>2, <4>3, <4>4 DEF Carries
    <3>4. CASE ~(call[p].op = "register" /\ Registry!RefsOf(registry, a.uid) # {})
               /\ ~Registry!Allocatable(registry, a)
      BY <2>1, <2>3, <3>4 DEF Registry!Decided
    <3> QED
      BY <3>2, <3>3, <3>4
  <2> QED
    BY <2>1, <2>2, <2>3 DEF Registry!Decided
<1> HIDE DEF c
<1> QED
  BY <1>1, <1>2, <1>3, CallStep DEF RegistryIInv, RegistryTypes

-----------------------------------------------------------------------------
LEMMA WriteRegistryKeeps == ASSUME RegistryIInv, NEW p \in Process,
  Registry!WriteRegistry(p) PROVE RegistryIInv'
<1> DEFINE copy == call[p].copy
           c == [call[p] EXCEPT !.pc = IF call[p].op = "init" THEN "refused" ELSE "releasing"]
<1>1. /\ registry' = copy /\ known' = known \cup copy.allocations
      /\ call[p].pc = "writing" /\ UNCHANGED <<lock, artifact>>
      /\ Registry!Goto(p, IF call[p].op = "init" THEN "refused" ELSE "releasing")
  BY DEF Registry!WriteRegistry
<1>2. lock = p /\ Carries(registry, call[p]) /\ call[p] \in Calls
  BY <1>1 DEF RegistryIInv, RegistryTypes, Critical
<1>3. /\ c \in Calls /\ call' = [call EXCEPT ![p] = c]
      /\ c.pc = IF call[p].op = "init" THEN "refused" ELSE "releasing"
      /\ c.op = call[p].op /\ c.artifact = call[p].artifact
  <2>1. CASE call[p].op = "init"
    <3>1. Registry!Goto(p, "refused") /\ c = [call[p] EXCEPT !.pc = "refused"]
      BY <1>1, <2>1
    <3> HIDE DEF c
    <3>2. c \in Calls /\ call' = [call EXCEPT ![p] = c] /\ c.pc = "refused"
      BY <3>1, GotoIsCall DEF Critical
    <3>3. c.op = call[p].op /\ c.artifact = call[p].artifact
      BY <1>2, <3>1 DEF Calls
    <3> QED
      BY <2>1, <3>2, <3>3
  <2>2. CASE call[p].op # "init"
    <3>1. Registry!Goto(p, "releasing") /\ c = [call[p] EXCEPT !.pc = "releasing"]
      BY <1>1, <2>2
    <3> HIDE DEF c
    <3>2. c \in Calls /\ call' = [call EXCEPT ![p] = c] /\ c.pc = "releasing"
      BY <3>1, GotoIsCall DEF Critical
    <3>3. c.op = call[p].op /\ c.artifact = call[p].artifact
      BY <1>2, <3>1 DEF Calls
    <3> QED
      BY <2>2, <3>2, <3>3
  <2> QED
    BY <2>1, <2>2
<1>4. /\ copy \in Registry!Registries /\ Injective(copy.allocations)
      /\ registry # None => registry.allocations \subseteq copy.allocations
      /\ call[p].op # "init" => EntryOf(call[p].artifact) \in copy.allocations
      /\ call[p].op # "init" => call[p].artifact \in Artifacts
  BY <1>1, <1>2 DEF Carries
<1>5. copy # None
  BY <1>4, RegistryAssumption DEF RegistryIInv
<1> HIDE DEF c, copy
<1>6. \A x : Held(registry, x) => Held(copy, x)
  BY <1>4, <1>5 DEF Held
<1>7. \A q \in Process : call'[q] = IF q = p THEN c ELSE call[q]
  BY <1>3 DEF RegistryIInv, RegistryTypes
<1>8. RegistryTypes'
  BY <1>1, <1>3, <1>4 DEF RegistryIInv, RegistryTypes
<1>9. \A q \in Process : call'[q].pc \in Critical => lock' = q
  BY <1>1, <1>2, <1>7 DEF RegistryIInv
<1>10. Carries(copy, c)
  <2>1. CASE call[p].op = "init"
    BY <1>3, <2>1 DEF Carries
  <2>2. CASE call[p].op # "init"
    <3>1. Held(copy, EntryOf(c.artifact))
      BY <1>3, <1>4, <1>5, <2>2 DEF Held
    <3> QED
      BY <1>3, <1>4, <2>2, <3>1 DEF Carries
  <2> QED
    BY <2>1, <2>2
<1>11. ASSUME NEW q \in Process, q # p PROVE Carries(copy, call[q])
  <2>1. Carries(registry, call[q]) /\ call[q].pc # "writing"
    BY <1>2, <1>11 DEF RegistryIInv, Critical
  <2> QED
    BY <1>6, <2>1 DEF Carries
<1>12. \A q \in Process : Carries(registry', call'[q])
  BY <1>1, <1>7, <1>10, <1>11
<1>13. \A x \in known' : Held(registry', x)
  BY <1>1, <1>5, <1>6 DEF RegistryIInv, Held
<1> QED
  BY <1>1, <1>4, <1>8, <1>9, <1>12, <1>13, RegistryAssumption DEF RegistryIInv

LEMMA ReleaseKeeps == ASSUME RegistryIInv, NEW p \in Process, Registry!Release(p) PROVE RegistryIInv'
<1>1. /\ call[p].pc \in {"releasing", "refused"} /\ lock' = None
      /\ UNCHANGED <<registry, artifact, known>>
  BY DEF Registry!Release
<1>2. lock = p /\ Carries(registry, call[p]) /\ call[p] \in Calls
  BY <1>1 DEF RegistryIInv, RegistryTypes, Critical
<1>3. \A q \in Process \ {p} : call[q].pc \notin Critical
  BY <1>2 DEF RegistryIInv
<1>4. CASE call[p].pc = "releasing" /\ call[p].file # None
  <2> DEFINE c == [call[p] EXCEPT !.pc = "filing"]
  <2>1. Registry!Goto(p, "filing")
    BY <1>4 DEF Registry!Release
  <2>2. call' = [call EXCEPT ![p] = c] /\ c \in Calls /\ c.pc = "filing"
    BY <2>1, GotoIsCall
  <2>3. Carries(registry, c) /\ c.pc \notin Critical
    BY <1>2, <1>4 DEF Calls, Carries, Critical
  <2> HIDE DEF c
  <2> QED
    BY <1>1, <1>3, <2>2, <2>3, CallStep DEF RegistryIInv, RegistryTypes
<1>5. CASE ~(call[p].pc = "releasing" /\ call[p].file # None)
  <2>1. Registry!Leave(p)
    BY <1>5 DEF Registry!Release
  <2> QED
    BY <1>1, <1>3, <2>1, IdleCarries, CallStep DEF Registry!Leave, RegistryIInv, RegistryTypes
<1> QED
  BY <1>4, <1>5

LEMMA WriteArtifactKeeps == ASSUME RegistryIInv, NEW p \in Process,
  Registry!WriteArtifact(p) PROVE RegistryIInv'
<1> DEFINE a == call[p].artifact
<1>1. /\ call[p].pc = "filing" /\ Registry!Leave(p) /\ UNCHANGED <<lock, registry>>
      /\ artifact' = [artifact EXCEPT ![call[p].file] = a]
      /\ known' = IF a.ref = None THEN known ELSE known \cup {EntryOf(a)}
  BY DEF Registry!WriteArtifact, EntryOf
<1>2. Carries(registry, call[p])
  BY DEF RegistryIInv
<1>3. a \in Artifacts
  BY <1>1, <1>2 DEF Carries
<1>4. artifact' \in [ArtifactFile -> Artifacts \cup {None}]
  BY <1>1, <1>3 DEF RegistryIInv, RegistryTypes
<1>5. \A x \in known' : Held(registry, x)
  BY <1>1, <1>2 DEF RegistryIInv, Carries
<1> QED
  BY <1>1, <1>4, <1>5, IdleCarries, CallStep DEF Registry!Leave, RegistryIInv, RegistryTypes

LEMMA RegistryStepKeeps == RegistryIInv /\ [Registry!Next]_(Registry!vars) => RegistryIInv'
<1> SUFFICES ASSUME RegistryIInv, [Registry!Next]_(Registry!vars) PROVE RegistryIInv'
  OBVIOUS
<1>1. CASE \E p \in Process : Registry!BeginInit(p)
  BY <1>1, BeginKeeps DEF Registry!BeginInit
<1>2. CASE \E p \in Process, uid \in Uid, k \in Kind, f \in ArtifactFile \cup {None}, deferred \in BOOLEAN :
             Registry!BeginNew(p, uid, k, f, deferred)
  BY <1>2, BeginNewKeeps
<1>3. CASE \E p \in Process, f \in ArtifactFile : Registry!BeginRegister(p, f)
  BY <1>3, BeginRegisterKeeps
<1>4. CASE \E p \in Process : Registry!Defer(p) \/ Registry!Acquire(p) \/ Registry!Read(p)
           \/ Registry!WriteRegistry(p)
  BY <1>4, DeferKeeps, AcquireKeeps, ReadKeeps, WriteRegistryKeeps
<1>5. CASE \E p \in Process : Registry!Refused(p) \/ Registry!Die(p)
  BY <1>5, LeaveKeeps DEF Registry!Refused, Registry!Die
<1>6. CASE \E p \in Process : Registry!Release(p) \/ Registry!WriteArtifact(p)
  BY <1>6, ReleaseKeeps, WriteArtifactKeeps
<1>7. CASE Registry!RemoveLock
  <2>1. \A p \in Process : call[p].pc \notin Critical
    <3>1. lock \in Process /\ call[lock] = Registry!NoCall
      BY <1>7 DEF Registry!RemoveLock, RegistryIInv, RegistryTypes
    <3> QED
      BY <3>1, IdleCarries DEF RegistryIInv
  <2>2. lock' = None /\ UNCHANGED <<registry, artifact, call, known>>
    BY <1>7 DEF Registry!RemoveLock
  <2> QED
    BY <2>1, <2>2 DEF RegistryIInv, RegistryTypes, Carries, Held
<1>8. CASE UNCHANGED Registry!vars
  BY <1>8 DEF Registry!vars, RegistryIInv, RegistryTypes, Carries, Held
<1> QED
  BY <1>1, <1>2, <1>3, <1>4, <1>5, <1>6, <1>7, <1>8 DEF Registry!Next

-----------------------------------------------------------------------------
(***************************************************************************)
(* A served adapter. The breaker counts the failures in a row, and is open *)
(* for a cooldown from the one that reaches the threshold.                 *)
(***************************************************************************)
\* The types that the argument needs.
ServerTypes ==
  /\ time \in Nat
  /\ breaker \in [failures : Nat, until : Nat]
  /\ failed \in Seq(Nat)
  /\ serving # None => serving.begun \in Nat

\* The breaker counts at least the failures, its time never runs ahead of a
\* cooldown, and once it counts enough of them it covers the last one.
BreakerCovers ==
  /\ Len(failed) <= breaker.failures
  /\ breaker.until <= time + Cooldown
  /\ Len(failed) >= Threshold => failed[Len(failed)] + Cooldown <= breaker.until

ServerIInv == ServerTypes /\ BreakerCovers /\ Server!AdapterIsSpared

LEMMA ServerInitHolds == Server!Init => ServerIInv
<1> SUFFICES ASSUME Server!Init PROVE ServerIInv
  OBVIOUS
<1>1. failed = <<>> /\ Len(failed) = 0
  BY DEF Server!Init
<1>2. ServerTypes
  BY <1>1 DEF Server!Init, ServerTypes, Server!Closed
<1>3. BreakerCovers
  BY <1>1, ServerAssumption DEF Server!Init, BreakerCovers, Server!Closed
<1>4. Server!AdapterIsSpared
  BY DEF Server!Init, Server!AdapterIsSpared
<1> QED
  BY <1>2, <1>3, <1>4 DEF ServerIInv

\* One more failure keeps the breaker covering, whether it is one of the
\* adapter or a request that the open circuit refuses.
LEMMA FailureCovers ==
  ASSUME ServerIInv
  PROVE  /\ Server!Failed(breaker) \in [failures : Nat, until : Nat]
         /\ Server!Failed(breaker).failures = breaker.failures + 1
         /\ breaker.until <= Server!Failed(breaker).until
         /\ Server!Failed(breaker).until <= time + Cooldown
         /\ breaker.failures + 1 >= Threshold => Server!Failed(breaker).until = time + Cooldown
BY ServerAssumption DEF ServerIInv, ServerTypes, BreakerCovers, Server!Failed

LEMMA ReceiveKeeps ==
  ASSUME ServerIInv, NEW op \in Server!Operation, Server!Receive(op)
  PROVE  ServerIInv'
<1>1. UNCHANGED <<time, failed>>
  BY DEF Server!Receive
<1>2. CASE Server!Guarded(op) /\ time < breaker.until
  <2>1. breaker' = Server!Failed(breaker) /\ serving' = serving
    BY <1>2 DEF Server!Receive
  <2>2. ServerTypes'
    BY <1>1, <2>1, FailureCovers DEF ServerIInv, ServerTypes
  <2>3. BreakerCovers'
    BY <1>1, <2>1, FailureCovers, ServerAssumption DEF ServerIInv, ServerTypes, BreakerCovers
  <2>4. Server!AdapterIsSpared'
    BY <1>1, <2>1 DEF ServerIInv, Server!AdapterIsSpared
  <2> QED
    BY <2>2, <2>3, <2>4, ServerAssumption DEF ServerIInv
<1>3. CASE ~(Server!Guarded(op) /\ time < breaker.until)
  <2>1. serving' = [op |-> op, begun |-> time] /\ breaker' = breaker
    BY <1>3 DEF Server!Receive
  <2>2. ServerTypes' /\ BreakerCovers'
    BY <1>1, <2>1 DEF ServerIInv, ServerTypes, BreakerCovers
  <2>3. Server!AdapterIsSpared'
    <3> SUFFICES ASSUME Server!Guarded(op), Len(failed) >= Threshold
                 PROVE  time >= failed[Len(failed)] + Cooldown
      BY <1>1, <2>1 DEF Server!AdapterIsSpared
    <3>1. ~(time < breaker.until) /\ failed[Len(failed)] + Cooldown <= breaker.until
      BY <1>3 DEF ServerIInv, BreakerCovers
    <3>2. Len(failed) \in 1 .. Len(failed)
      BY ServerAssumption DEF ServerIInv, ServerTypes
    <3>3. failed[Len(failed)] \in Nat
      BY <3>2 DEF ServerIInv, ServerTypes
    <3> QED
      BY <3>1, <3>3, ServerAssumption DEF ServerIInv, ServerTypes
  <2> QED
    BY <2>2, <2>3, ServerAssumption DEF ServerIInv
<1> QED
  BY <1>2, <1>3

LEMMA FinishKeeps ==
  ASSUME ServerIInv, NEW end, Server!Finish(end)
  PROVE  ServerIInv'
<1>1. time' = time /\ serving' = None
  BY DEF Server!Finish
<1>2. Server!AdapterIsSpared'
  BY <1>1 DEF Server!AdapterIsSpared
<1>3. CASE Server!Closes(serving.op, end)
  <2>1. breaker' = Server!Closed /\ failed' = <<>>
    BY <1>3 DEF Server!Finish, Server!Closes
  <2>2. Len(failed') = 0
    BY <2>1
  <2>3. ServerTypes' /\ BreakerCovers'
    BY <1>1, <2>1, <2>2, ServerAssumption DEF ServerIInv, ServerTypes, BreakerCovers, Server!Closed
  <2> QED
    BY <1>2, <2>3, ServerAssumption DEF ServerIInv
<1>4. CASE ~Server!Closes(serving.op, end) /\ Server!Counts(serving.op, end)
  <2>1. breaker' = Server!Failed(breaker) /\ failed' = Append(failed, time)
    BY <1>4 DEF Server!Finish, Server!Closes
  <2>2. /\ failed' \in Seq(Nat) /\ Len(failed') = Len(failed) + 1
        /\ failed'[Len(failed')] = time
    BY <2>1 DEF ServerIInv, ServerTypes
  <2>3. ServerTypes'
    BY <1>1, <2>1, <2>2, FailureCovers DEF ServerIInv, ServerTypes
  <2>4. BreakerCovers'
    <3>1. Len(failed') <= breaker'.failures
      BY <2>1, <2>2, FailureCovers DEF ServerIInv, ServerTypes, BreakerCovers
    <3>2. Len(failed') >= Threshold => breaker'.until = time + Cooldown
      BY <2>1, <2>2, FailureCovers, ServerAssumption DEF ServerIInv, ServerTypes, BreakerCovers
    <3> QED
      BY <1>1, <2>1, <2>2, <3>1, <3>2, FailureCovers, ServerAssumption
         DEF ServerIInv, ServerTypes, BreakerCovers
  <2> QED
    BY <1>2, <2>3, <2>4, ServerAssumption DEF ServerIInv
<1>5. CASE ~Server!Closes(serving.op, end) /\ ~Server!Counts(serving.op, end)
  <2>1. breaker' = breaker /\ failed' = failed
    BY <1>5 DEF Server!Finish, Server!Closes
  <2>2. ServerTypes' /\ BreakerCovers'
    BY <1>1, <2>1 DEF ServerIInv, ServerTypes, BreakerCovers
  <2> QED
    BY <1>2, <2>2, ServerAssumption DEF ServerIInv
<1> QED
  BY <1>3, <1>4, <1>5

LEMMA ServerStepKeeps == ServerIInv /\ [Server!Next]_(Server!vars) => ServerIInv'
<1> SUFFICES ASSUME ServerIInv, [Server!Next]_(Server!vars) PROVE ServerIInv'
  OBVIOUS
<1>1. CASE \E op \in Server!Operation : Server!Receive(op)
  BY <1>1, ReceiveKeeps
<1>2. CASE serving # None /\ \E end \in Server!EndsOf(serving.op) : Server!Finish(end)
  BY <1>2, FinishKeeps
<1>3. CASE Server!Tick
  <2>1. time' = time + 1 /\ UNCHANGED <<breaker, serving, failed>>
    BY <1>3 DEF Server!Tick
  <2> QED
    BY <2>1, ServerAssumption DEF ServerIInv, ServerTypes, BreakerCovers, Server!AdapterIsSpared
<1>4. CASE UNCHANGED Server!vars
  BY <1>4, ServerAssumption DEF Server!vars, ServerIInv, ServerTypes, BreakerCovers, Server!AdapterIsSpared
<1> QED
  BY <1>1, <1>2, <1>3, <1>4 DEF Server!Next

-----------------------------------------------------------------------------
(***************************************************************************)
(* A release. First the channels, which no file or commit bears on; then   *)
(* what the files of a checkout, the commits and a package say of each other.*)
(***************************************************************************)
(***************************************************************************)
(* The channels: the passes end at the largest set of validated modules    *)
(* that need only each other, and that is what is validated with           *)
(* everything it needs.                                                    *)
(***************************************************************************)
ReleaseKept(modules, s) == {m \in s : modules[m].needs \subseteq s}
Passes(F, modules, stable) ==
  F = [n \in Nat |-> IF n = 0 THEN stable ELSE {m \in F[n - 1] : modules[m].needs \subseteq F[n - 1]}]

LEMMA PassesExist ==
  ASSUME NEW modules, NEW stable
  PROVE  \E F : Passes(F, modules, stable)
<1> DEFINE T == SUBSET stable
           step == [s \in T |-> ReleaseKept(modules, s)]
<1>1. step \in [T -> T] /\ stable \in T
  BY DEF ReleaseKept
<1>2. PICK F \in [Nat -> T] : Iteration(F, step, stable)
  <2> HIDE DEF step, T
  <2> QED
    BY <1>1, IterationExists
<1>3. ASSUME NEW n \in Nat, n # 0 PROVE F[n] = {m \in F[n - 1] : modules[m].needs \subseteq F[n - 1]}
  <2>1. n - 1 \in Nat /\ (n - 1) + 1 = n
    BY <1>3
  <2>2. F[(n - 1) + 1] = step[F[n - 1]] /\ F[n - 1] \in SUBSET stable
    BY <1>2, <2>1 DEF Iteration
  <2> QED
    BY <2>1, <2>2 DEF ReleaseKept
<1>4. F = [n \in Nat |-> IF n = 0 THEN stable ELSE {m \in F[n - 1] : modules[m].needs \subseteq F[n - 1]}]
  BY <1>2, <1>3 DEF Iteration
<1> QED
  BY <1>4 DEF Passes

LEMMA DemotedIsPass ==
  ASSUME NEW modules, NEW stable
  PROVE  \E F : Passes(F, modules, stable) /\ Release!Demoted(modules, stable) = F[Cardinality(stable)]
<1> DEFINE F == CHOOSE G : Passes(G, modules, stable)
<1>1. Passes(F, modules, stable)
  BY PassesExist
<1>2. Release!Demoted(modules, stable) = F[Cardinality(stable)]
  BY DEF Release!Demoted, Release!Cardinality, Cardinality, Passes
<1> QED
  BY <1>1, <1>2

LEMMA DemotedIsLargest ==
  ASSUME NEW modules, NEW stable, IsFiniteSet(stable)
  PROVE  /\ Release!Demoted(modules, stable) \subseteq stable
         /\ \A m \in Release!Demoted(modules, stable) : modules[m].needs \subseteq Release!Demoted(modules,
            stable)
         /\ \A U \in SUBSET stable :
              (\A m \in U : modules[m].needs \subseteq U) => U \subseteq Release!Demoted(modules, stable)
<1> DEFINE C == Cardinality(stable)
<1>1. PICK F : Passes(F, modules, stable) /\ Release!Demoted(modules, stable) = F[C]
  BY DemotedIsPass
<1>2. F[0] = stable /\ \A n \in Nat : F[n + 1] = {m \in F[n] : modules[m].needs \subseteq F[n]}
  BY <1>1 DEF Passes
<1>3. \A n \in Nat : F[n + 1] \subseteq F[n]
  BY <1>2
<1>4. \A n \in Nat : F[n + 1] = F[n] => F[n + 2] = F[n + 1]
  <2> TAKE n \in Nat
  <2>1. n + 1 \in Nat /\ (n + 1) + 1 = n + 2
    OBVIOUS
  <2>2. F[(n + 1) + 1] = {m \in F[n + 1] : modules[m].needs \subseteq F[n + 1]}
    BY <1>2, <2>1
  <2>3. F[n + 1] = {m \in F[n] : modules[m].needs \subseteq F[n]}
    BY <1>2
  <2> QED
    BY <2>1, <2>2, <2>3
<1>5. C \in Nat
  BY FS_CardinalityType
<1>6. F[C + 1] = F[C]
  BY <1>2, <1>3, <1>4, DescentRests
<1>7. F[C] \subseteq stable
  BY <1>2, <1>3, <1>5, Descends
<1>8. \A m \in F[C] : modules[m].needs \subseteq F[C]
  BY <1>2, <1>5, <1>6
<1>9. ASSUME NEW U \in SUBSET stable, \A m \in U : modules[m].needs \subseteq U
      PROVE  U \subseteq F[C]
  <2> DEFINE Bad == {n \in Nat : ~(U \subseteq F[n])}
  <2> SUFFICES ASSUME Bad # {} PROVE FALSE
    BY <1>5
  <2>1. PICK n \in Bad : \A k \in Bad : n <= k
    BY LeastNumber
  <2>2. n # 0 /\ n \in Nat /\ ~(U \subseteq F[n])
    BY <1>2, <2>1
  <2>3. n - 1 \in Nat /\ n - 1 \notin Bad /\ (n - 1) + 1 = n
    BY <2>1, <2>2
  <2>4. U \subseteq F[n - 1]
    BY <2>3
  <2>5. F[(n - 1) + 1] = {m \in F[n - 1] : modules[m].needs \subseteq F[n - 1]}
    BY <1>2, <2>3
  <2> QED
    BY <1>9, <2>2, <2>3, <2>4, <2>5
<1> QED
  BY <1>1, <1>7, <1>8, <1>9

Sound(modules) == {m \in DOMAIN modules : \A d \in Release!Closure(modules, m) : modules[d].validated}

LEMMA ChannelsAreSound ==
  ASSUME NEW modules, IsFiniteSet(DOMAIN modules), Release!Resolved(modules)
  PROVE  Release!Channels(modules) = Sound(modules)
<1> DEFINE validated == {m \in DOMAIN modules : modules[m].validated}
           K == Release!Channels(modules)
           S == Sound(modules)
           Within(m) == {s \in SUBSET DOMAIN modules : m \in s /\ \A x \in s : modules[x].needs \subseteq s}
<1>1. IsFiniteSet(validated)
  BY FS_Subset
<1>2. /\ K \subseteq validated
      /\ \A m \in K : modules[m].needs \subseteq K
      /\ \A U \in SUBSET validated : (\A m \in U : modules[m].needs \subseteq U) => U \subseteq K
  <2>1. K = Release!Demoted(modules, validated)
    BY DEF Release!Channels
  <2> HIDE DEF K, validated
  <2> QED
    BY <1>1, <2>1, DemotedIsLargest
<1>3. \A m : Release!Closure(modules, m) = {x \in DOMAIN modules : \A s \in Within(m) : x \in s}
  BY DEF Release!Closure
<1> HIDE DEF K
<1>4. K \subseteq S
  <2> SUFFICES ASSUME NEW m \in K PROVE m \in S
    OBVIOUS
  <2>1. K \in Within(m)
    BY <1>2
  <2>2. Release!Closure(modules, m) \subseteq K
    BY <1>3, <2>1
  <2> QED
    BY <1>2, <2>2 DEF Sound
<1>5. \A m \in DOMAIN modules : m \in Release!Closure(modules, m)
  BY <1>3
<1>6. ASSUME NEW m \in S, NEW n \in modules[m].needs PROVE n \in S
  <2>1. n \in DOMAIN modules
    BY DEF Sound, Release!Resolved
  <2>2. Within(m) \subseteq Within(n)
    OBVIOUS
  <2>3. Release!Closure(modules, n) \subseteq Release!Closure(modules, m)
    BY <1>3, <2>2
  <2> QED
    BY <2>1, <2>3 DEF Sound
<1>7. S \subseteq validated
  BY <1>5 DEF Sound
<1>8. S \subseteq K
  BY <1>2, <1>6, <1>7
<1> QED
  BY <1>4, <1>8 DEF K

-----------------------------------------------------------------------------
(***************************************************************************)
(* Commits never go away, and what files say of commits is of some there   *)
(* are. So what held of a package when it was built keeps holding.         *)
(***************************************************************************)
Here(c) == c \in DOMAIN commits
SourceHere(source) == source # None => Here(source.product)
PlanHere(made) == made # None => Here(made.product) /\ SourceHere(made.source)
FilesHere(files) ==
  /\ PlanHere(files.plan) /\ SourceHere(files.source)
  /\ files.evidence # None => Here(files.evidence.product)
Grown == \A c : Here(c) => Here(c)' /\ commits'[c] = commits[c]

Good(p) ==
  /\ p.files.plan # None /\ FilesHere(p.files)
  /\ Release!ValidPlan(p.files, p.files.plan, commits[p.files.plan.product])
  /\ Release!ValidQualification(p.files, p.files.plan, p.exports)
  /\ p.exports = Release!ExportStable(p.files, p.files.plan)
  /\ p.product = p.files.plan.product /\ p.bundle.files = p.files

Shaped(files) ==
  files = [modules |-> files.modules, plan |-> files.plan, matrix |-> files.matrix,
           scope |-> files.scope, source |-> files.source, evidence |-> files.evidence]

\* Of the two files the second is only ever the first.
Written ==
  /\ checksum # None => checksum = zip
  /\ zip # None => Good(zip)
Making(b) ==
  building[b] # None =>
    /\ Good(building[b].package)
    /\ building[b].step # "zip" /\ building[b].package # None => zip = building[b].package

ReleaseIInv ==
  /\ stage \in DOMAIN ReleaseScenes
  /\ \E S : commits \in Seq(S)
  /\ DOMAIN building = Process
  /\ Shaped(checkout) /\ FilesHere(checkout)
  /\ \A c \in DOMAIN commits : Shaped(commits[c].files) /\ FilesHere(commits[c].files)
  /\ Written /\ \A b \in Process : Making(b)

LEMMA StaysHere == Grown => \A f : FilesHere(f) => FilesHere(f)'
BY DEF Grown, FilesHere, PlanHere, SourceHere

LEMMA MakePlanSays ==
  ASSUME NEW files, NEW product, Release!MakePlan(files, product) # None
  PROVE  /\ Release!MakePlan(files, product).product = product
         /\ Release!MakePlan(files, product).source = files.source
         /\ Release!MakePlan(files, product).stable = Release!Channels(files.modules)
         /\ DOMAIN files.modules = Module /\ Release!Resolved(files.modules)
BY DEF Release!MakePlan

LEMMA StaysGood == Grown => \A p : Good(p) => Good(p)'
<1> SUFFICES ASSUME Grown, NEW p, Good(p) PROVE Good(p)'
  OBVIOUS
<1> DEFINE f == p.files
<1>1. FilesHere(f) /\ FilesHere(f)' /\ f.plan # None
  BY StaysHere DEF Good
<1>2. Here(f.plan.product) /\ commits'[f.plan.product] = commits[f.plan.product]
  BY <1>1 DEF FilesHere, PlanHere, Grown
<1>3. f.plan.source # None => commits'[f.plan.source.product] = commits[f.plan.source.product]
  BY <1>1 DEF FilesHere, PlanHere, SourceHere, Grown
<1>4. f.evidence # None => commits'[f.evidence.product] = commits[f.evidence.product]
  BY <1>1 DEF FilesHere, Grown
<1>5. ASSUME NEW e, Release!ValidQualification(f, f.plan, e) PROVE Release!ValidQualification(f, f.plan, e)'
  BY <1>2, <1>4, <1>5 DEF Release!ValidQualification
<1>6. Release!ValidPlan(f, f.plan, commits[f.plan.product])'
  BY <1>2, <1>3, <1>5 DEF Good, Release!ValidPlan
<1>7. Release!ValidQualification(f, f.plan, p.exports)'
  BY <1>5 DEF Good
<1> QED
  BY <1>1, <1>6, <1>7 DEF Good

LEMMA GoodIsSound ==
  ASSUME zip # None, checksum # None, ReleaseIInv
  PROVE  Release!PackageIsSound
<1> DEFINE f == zip.files
           product == commits[zip.product].files.modules
<1>1. Good(zip) /\ checksum = zip
  BY DEF ReleaseIInv, Written
<1>2. Release!Verified
  BY <1>1 DEF Good, Release!Verified
<1>3. f.plan # None /\ f.plan = Release!MakePlan(f, f.plan.product) /\ f.modules = product
  BY <1>1 DEF Good, Release!ValidPlan
<1>4. DOMAIN product = Module /\ Release!Resolved(product) /\ f.plan.stable = Release!Channels(product)
  BY <1>3, MakePlanSays
<1>5. Release!Channels(product) = Sound(product)
  BY <1>4, ReleaseAssumption, ChannelsAreSound
<1>6. zip.exports = Release!Restrict(product, Sound(product))
  BY <1>1, <1>3, <1>4, <1>5 DEF Good, Release!ExportStable
<1>7. Sound(product) = {m \in Module : \A d \in Release!Closure(product, m) : product[d].validated}
  BY <1>4 DEF Sound
<1> QED
  BY <1>2, <1>6, <1>7 DEF Release!PackageIsSound

LEMMA ReleaseInitHolds == Release!Init => ReleaseIInv
<1> SUFFICES ASSUME Release!Init PROVE ReleaseIInv
  OBVIOUS
<1>1. commits \in Seq({[files |-> checkout, ancestors |-> {}]}) /\ DOMAIN commits = {1}
      /\ commits[1].files = checkout
  BY DEF Release!Init
<1>2. Shaped(checkout) /\ checkout.plan = None /\ checkout.source = None /\ checkout.evidence = None
  BY DEF Release!Init, Shaped
<1>3. FilesHere(checkout)
  BY <1>2 DEF FilesHere, PlanHere, SourceHere
<1>4. Written /\ \A b \in Process : Making(b)
  BY DEF Release!Init, Written, Making
<1> QED
  BY <1>1, <1>2, <1>3, <1>4 DEF Release!Init, ReleaseIInv

-----------------------------------------------------------------------------
\* Something is edited, and nothing committed.
LEMMA EditKeeps ==
  ASSUME ReleaseIInv, UNCHANGED <<stage, commits, building, zip, checksum>>, Shaped(checkout'),
         FilesHere(checkout')
  PROVE  ReleaseIInv'
<1>1. Grown
  BY DEF Grown, Here
<1>2. /\ FilesHere(checkout)'
      /\ \A f : FilesHere(f) => FilesHere(f)'
      /\ \A p : Good(p) => Good(p)'
  BY <1>1, StaysHere, StaysGood DEF FilesHere, PlanHere, SourceHere, Here
<1>3. \A c \in DOMAIN commits' : Shaped(commits[c].files)' /\ FilesHere(commits[c].files)'
  BY <1>2 DEF ReleaseIInv, Shaped
<1>4. Shaped(checkout)'
  BY DEF Shaped
<1> QED
  BY <1>2, <1>3, <1>4 DEF ReleaseIInv, Written, Making

LEMMA EditingKeeps ==
  ASSUME ReleaseIInv, Release!EditModules \/ Release!Approve \/ Release!Qualify
  PROVE  ReleaseIInv'
<1>1. CASE Release!EditModules
  <2>1. PICK p : Release!Edit([checkout EXCEPT !.modules = p])
    BY <1>1 DEF Release!EditModules
  <2>2. /\ Shaped(checkout') /\ checkout'.plan = checkout.plan /\ checkout'.source = checkout.source
        /\ checkout'.evidence = checkout.evidence
    BY <2>1 DEF Release!Edit, ReleaseIInv, Shaped
  <2> QED
    BY <2>1, <2>2, EditKeeps DEF Release!Edit, ReleaseIInv, FilesHere
<1>2. CASE Release!Approve
  <2>1. PICK n : Release!Edit([checkout EXCEPT !.scope = n])
    BY <1>2 DEF Release!Approve
  <2>2. /\ Shaped(checkout') /\ checkout'.plan = checkout.plan /\ checkout'.source = checkout.source
        /\ checkout'.evidence = checkout.evidence
    BY <2>1 DEF Release!Edit, ReleaseIInv, Shaped
  <2> QED
    BY <2>1, <2>2, EditKeeps DEF Release!Edit, ReleaseIInv, FilesHere
<1>3. CASE Release!Qualify
  <2>1. PICK c \in DOMAIN commits :
          \E exports : Release!Edit([checkout EXCEPT !.evidence = [product |-> c, exports |-> exports]])
    BY <1>3 DEF Release!Qualify
  <2>2. /\ Shaped(checkout') /\ checkout'.plan = checkout.plan /\ checkout'.source = checkout.source
        /\ checkout'.evidence.product = c
    BY <2>1 DEF Release!Edit, ReleaseIInv, Shaped
  <2>3. FilesHere(checkout')
    BY <2>2 DEF ReleaseIInv, FilesHere, Here
  <2> QED
    BY <2>1, <2>2, <2>3, EditKeeps DEF Release!Edit
<1> QED
  BY <1>1, <1>2, <1>3

LEMMA RefreshKeeps ==
  ASSUME ReleaseIInv, NEW product \in DOMAIN commits, NEW preparation \in DOMAIN commits,
         Release!Refresh(product, preparation)
  PROVE  ReleaseIInv'
<1> DEFINE old == commits[product].files
           new == commits[preparation].files
           files == [old EXCEPT !.scope = Release!Or(new.scope, @), !.source = Release!Or(new.source, @)]
           made == Release!MakePlan(files, product)
<1>1. made # None /\ checkout' = [checkout EXCEPT !.plan = made] /\ UNCHANGED <<stage, commits, building,
      zip, checksum>>
  BY DEF Release!Refresh
<1>2. files.source = Release!Or(new.source, old.source)
  BY DEF ReleaseIInv, Shaped
<1>3. SourceHere(new.source) /\ SourceHere(old.source)
  BY DEF ReleaseIInv, FilesHere
<1>4. SourceHere(files.source)
  BY <1>2, <1>3 DEF Release!Or
<1> HIDE DEF files
<1>5. made.product = product /\ made.source = files.source
  BY <1>1, MakePlanSays
<1> HIDE DEF made
<1>6. PlanHere(made)
  BY <1>4, <1>5 DEF PlanHere, Here
<1>7. /\ Shaped(checkout') /\ checkout'.plan = made /\ checkout'.source = checkout.source
      /\ checkout'.evidence = checkout.evidence
  BY <1>1 DEF ReleaseIInv, Shaped
<1>8. FilesHere(checkout')
  BY <1>6, <1>7 DEF ReleaseIInv, FilesHere
<1> QED
  BY <1>1, <1>7, <1>8, EditKeeps

LEMMA WriteMatrixKeeps ==
  ASSUME ReleaseIInv, Release!WriteMatrix
  PROVE  ReleaseIInv'
<1>1. checkout' = [checkout EXCEPT !.matrix = generated] /\ UNCHANGED <<stage, commits, building, zip,
      checksum>>
  BY DEF Release!WriteMatrix
<1>2. /\ Shaped(checkout') /\ checkout'.plan = checkout.plan /\ checkout'.source = checkout.source
      /\ checkout'.evidence = checkout.evidence
  BY <1>1 DEF ReleaseIInv, Shaped
<1> QED
  BY <1>1, <1>2, EditKeeps DEF ReleaseIInv, FilesHere

-----------------------------------------------------------------------------
LEMMA CommitGrows ==
  ASSUME ReleaseIInv, NEW record, commits' = Append(commits, record)
  PROVE  /\ Grown /\ \E S : commits' \in Seq(S)
         /\ Len(commits) + 1 \in DOMAIN commits' /\ commits'[Len(commits) + 1] = record
         /\ \A c \in DOMAIN commits' : c # Len(commits) + 1 => c \in DOMAIN commits
<1>1. PICK S : commits \in Seq(S)
  BY DEF ReleaseIInv
<1>2. commits \in Seq(S \cup {record})
  BY <1>1
<1>3. /\ commits' \in Seq(S \cup {record}) /\ DOMAIN commits' = 1 .. Len(commits) + 1 /\ Len(commits) \in Nat
      /\ commits'[Len(commits) + 1] = record
      /\ DOMAIN commits = 1 .. Len(commits) /\ \A c \in DOMAIN commits : commits'[c] = commits[c]
  BY <1>2
<1>4. Grown
  BY <1>3 DEF Grown, Here
<1> QED
  BY <1>3, <1>4

\* Something is committed.
LEMMA CommittedKeeps ==
  ASSUME ReleaseIInv, NEW record, commits' = Append(commits, record), Shaped(record.files),
         FilesHere(record.files),
         UNCHANGED <<stage, building, zip, checksum>>, Shaped(checkout)', FilesHere(checkout)'
  PROVE  ReleaseIInv'
<1>1. /\ Grown /\ \E S : commits' \in Seq(S)
      /\ commits'[Len(commits) + 1] = record
      /\ \A c \in DOMAIN commits' : c # Len(commits) + 1 => c \in DOMAIN commits
  BY CommitGrows
<1>2. \A f : FilesHere(f) => FilesHere(f)'
  BY <1>1, StaysHere
<1>3. \A p : Good(p) => Good(p)'
  BY <1>1, StaysGood
<1>4. ASSUME NEW c \in DOMAIN commits' PROVE Shaped(commits'[c].files) /\ FilesHere(commits[c].files)'
  <2>1. CASE c = Len(commits) + 1
    <3>1. commits'[c] = record /\ FilesHere(record.files)'
      BY <1>1, <1>2, <2>1
    <3> QED
      BY <3>1 DEF FilesHere, PlanHere, SourceHere, Here
  <2>2. CASE c \in DOMAIN commits
    <3>1. commits'[c] = commits[c]
      BY <1>1, <2>2 DEF Grown, Here
    <3>2. FilesHere(commits[c].files) /\ Shaped(commits[c].files)
      BY <2>2 DEF ReleaseIInv
    <3> QED
      BY <1>2, <3>1, <3>2 DEF FilesHere, PlanHere, SourceHere, Here
  <2> QED
    BY <1>1, <2>1, <2>2
<1>5. Written' /\ \A b \in Process : Making(b)'
  BY <1>3 DEF ReleaseIInv, Written, Making
<1>6. \A c \in DOMAIN commits' : Shaped(commits[c].files)'
  BY <1>4 DEF Shaped
<1> QED
  BY <1>1, <1>4, <1>5, <1>6 DEF ReleaseIInv

LEMMA ReleaseCommitKeeps ==
  ASSUME ReleaseIInv, Release!Commit
  PROVE  ReleaseIInv'
<1> DEFINE record == [files |-> checkout, ancestors |-> DOMAIN commits]
<1>1. commits' = Append(commits, record) /\ record.files = checkout /\ UNCHANGED <<stage, checkout, building,
      zip, checksum>>
  BY DEF Release!Commit
<1> HIDE DEF record
<1>2. Grown
  BY <1>1, CommitGrows
<1>3. Shaped(checkout)' /\ FilesHere(checkout)'
  <2>1. Shaped(checkout) /\ FilesHere(checkout)
    BY DEF ReleaseIInv
  <2> QED
    BY <1>1, <1>2, <2>1 DEF Shaped, FilesHere, PlanHere, SourceHere, Grown
<1> QED
  BY <1>1, <1>3, CommittedKeeps DEF ReleaseIInv

LEMMA FreezeKeeps ==
  ASSUME ReleaseIInv, NEW source \in DOMAIN commits, NEW base \in DOMAIN commits,
         Release!FreezeProduct(source, base)
  PROVE  ReleaseIInv'
<1> DEFINE record == [files |-> commits[source].files, ancestors |-> commits[base].ancestors \cup {base}]
<1>1. /\ commits' = Append(commits, record) /\ record.files = commits[source].files
      /\ checkout' = [checkout EXCEPT !.source = [source |-> source, product |-> Len(commits) + 1,
         base |-> base]]
      /\ UNCHANGED <<stage, building, zip, checksum>>
  BY DEF Release!FreezeProduct
<1> HIDE DEF record
<1>2. Grown /\ Len(commits) + 1 \in DOMAIN commits'
  BY <1>1, CommitGrows
<1>3. /\ Shaped(checkout') /\ checkout'.plan = checkout.plan /\ checkout'.evidence = checkout.evidence
      /\ checkout'.source.product = Len(commits) + 1
  BY <1>1 DEF ReleaseIInv, Shaped
<1>4. FilesHere(checkout)'
  <2>1. FilesHere(checkout)
    BY DEF ReleaseIInv
  <2> QED
    BY <1>2, <1>3, <2>1 DEF FilesHere, PlanHere, SourceHere, Grown, Here
<1>5. Shaped(checkout)'
  BY <1>3 DEF Shaped
<1> QED
  BY <1>1, <1>4, <1>5, CommittedKeeps DEF ReleaseIInv

-----------------------------------------------------------------------------
\* Something happens to the package.
LEMMA PackageKeeps ==
  ASSUME ReleaseIInv, UNCHANGED <<stage, commits, checkout>>, DOMAIN building' = Process, Written',
         \A b \in Process : Making(b)'
  PROVE  ReleaseIInv'
<1>1. Grown
  BY DEF Grown, Here
<1>2. \A f : FilesHere(f) => FilesHere(f)'
  BY <1>1, StaysHere
<1> QED
  BY <1>2 DEF ReleaseIInv, Shaped

LEMMA GoodAsBefore == UNCHANGED commits => \A p : Good(p) => Good(p)'
BY StaysGood DEF Grown, Here

LEMMA BuildKeeps ==
  ASSUME ReleaseIInv, NEW b \in Process, NEW c \in DOMAIN commits, Release!Build(b, c)
  PROVE  ReleaseIInv'
<1> DEFINE files == commits[c].files
           exports == Release!ExportStable(files, files.plan)
           package == [files |-> files, exports |-> exports, product |-> files.plan.product,
                       bundle |-> Release!PreparationBundle(files, files.plan.product)]
<1>1. /\ files.plan # None /\ Release!ValidPlan(files, files.plan, commits[files.plan.product])
      /\ Release!ValidQualification(files, files.plan, exports)
      /\ building' = [building EXCEPT ![b] = [step |-> "zip", package |-> package]]
      /\ UNCHANGED <<stage, checkout, commits, zip, checksum>>
  BY DEF Release!Build
<1>2. FilesHere(files)
  BY DEF ReleaseIInv
<1>3. Good(package)
  BY <1>1, <1>2 DEF Good, Release!PreparationBundle
<1> HIDE DEF package
<1>4. \A p : Good(p) => Good(p)'
  BY <1>1, GoodAsBefore
<1>5. /\ DOMAIN building' = Process /\ building'[b] = [step |-> "zip", package |-> package]
      /\ \A d \in Process \ {b} : building'[d] = building[d]
  BY <1>1 DEF ReleaseIInv
<1>7. Making(b)'
  <2>1. building'[b].package = package /\ building'[b].step = "zip"
    BY <1>5
  <2> QED
    BY <1>3, <1>4, <2>1 DEF Making
<1>8. \A d \in Process : Making(d)'
  BY <1>1, <1>4, <1>5, <1>7 DEF ReleaseIInv, Making
<1>9. Written'
  BY <1>1, <1>4 DEF ReleaseIInv, Written
<1> QED
  BY <1>1, <1>5, <1>8, <1>9, PackageKeeps

LEMMA WriteZipKeeps ==
  ASSUME ReleaseIInv, NEW b \in Process, Release!WriteZip(b)
  PROVE  ReleaseIInv'
<1>1. /\ building[b] # None /\ Good(building[b].package) /\ UNCHANGED <<stage, checkout, commits, checksum>>
  BY DEF ReleaseIInv, Making, Release!WriteZip
<1>2. \A p : Good(p) => Good(p)'
  BY <1>1, GoodAsBefore
<1>3. CASE zip = None
  <2>1. zip' = building[b].package /\ building' = [building EXCEPT ![b].step = "checksum"]
    BY <1>3 DEF Release!WriteZip
  <2>2. /\ DOMAIN building' = Process /\ building'[b].package = building[b].package
        /\ \A d \in Process \ {b} : building'[d] = building[d]
    BY <2>1 DEF ReleaseIInv
  <2>3. Written'
    BY <1>1, <1>2, <1>3, <2>1 DEF ReleaseIInv, Written
  <2>4. Making(b)'
    BY <1>1, <1>2, <2>1, <2>2 DEF Making
  <2>5. \A d \in Process \ {b} : Making(d)'
    BY <1>2, <1>3, <2>2 DEF ReleaseIInv, Making
  <2> QED
    BY <1>1, <2>2, <2>3, <2>4, <2>5, PackageKeeps
<1>4. CASE zip # None
  <2>1. building' = [building EXCEPT ![b] = None] /\ zip' = zip
    BY <1>4 DEF Release!WriteZip
  <2>2. DOMAIN building' = Process /\ building'[b] = None /\ \A d \in Process \ {b} : building'[d] = building[d]
    BY <2>1 DEF ReleaseIInv
  <2> QED
    BY <1>1, <1>2, <2>1, <2>2, PackageKeeps DEF ReleaseIInv, Written, Making
<1> QED
  BY <1>3, <1>4

LEMMA WriteChecksumKeeps ==
  ASSUME ReleaseIInv, NEW b \in Process, Release!WriteChecksum(b)
  PROVE  ReleaseIInv'
<1>1. /\ building[b] # None /\ building[b].step = "checksum" /\ UNCHANGED <<stage, checkout, commits, zip>>
      /\ building' = [building EXCEPT ![b] = None]
      /\ checksum' \in {checksum, building[b].package}
  BY DEF Release!WriteChecksum
<1>2. building[b].package # None => zip = building[b].package
  BY <1>1 DEF ReleaseIInv, Making
<1>3. \A p : Good(p) => Good(p)'
  BY <1>1, GoodAsBefore
<1>4. DOMAIN building' = Process /\ building'[b] = None /\ \A d \in Process \ {b} : building'[d] = building[d]
  BY <1>1 DEF ReleaseIInv
<1>5. Written'
  BY <1>1, <1>2, <1>3 DEF ReleaseIInv, Written
<1>6. \A d \in Process : Making(d)'
  BY <1>1, <1>3, <1>4 DEF ReleaseIInv, Making
<1> QED
  BY <1>1, <1>4, <1>5, <1>6, PackageKeeps

LEMMA KilledKeeps ==
  ASSUME ReleaseIInv, Release!Killed \/ Release!Clear
  PROVE  ReleaseIInv'
<1>1. /\ UNCHANGED <<stage, checkout, commits>> /\ DOMAIN building' = Process
      /\ \A d \in Process : building'[d] \in {None, building[d]}
  BY DEF Release!Killed, Release!Clear, ReleaseIInv
<1>2. \A p : Good(p) => Good(p)'
  BY <1>1, GoodAsBefore
<1>3. CASE Release!Killed
  BY <1>1, <1>2, <1>3, PackageKeeps DEF Release!Killed, ReleaseIInv, Written, Making
<1>4. CASE Release!Clear
  BY <1>1, <1>4, PackageKeeps DEF Release!Clear, Written, Making
<1> QED
  BY <1>3, <1>4

LEMMA ReleaseStepKeeps ==
  ASSUME ReleaseIInv, [Release!Next]_(Release!vars)
  PROVE  ReleaseIInv'
<1>1. CASE Release!EditModules \/ Release!Approve \/ Release!Qualify \/ Release!Commit
  BY <1>1, EditingKeeps, ReleaseCommitKeeps
<1>2. ASSUME NEW c \in DOMAIN commits, NEW d \in DOMAIN commits, Release!FreezeProduct(c, d)
             \/ Release!Refresh(c, d) PROVE ReleaseIInv'
  BY <1>2, FreezeKeeps, RefreshKeeps
<1>3. CASE Release!WriteMatrix
  BY <1>3, WriteMatrixKeeps
<1>4. ASSUME NEW b \in Release!Scene.builders, Release!WriteZip(b) \/ Release!WriteChecksum(b)
             \/ \E c \in DOMAIN commits : Release!Build(b, c)
      PROVE  ReleaseIInv'
  <2>1. b \in Process
    BY ReleaseAssumption DEF ReleaseIInv, Release!Scene
  <2> QED
    BY <1>4, <2>1, BuildKeeps, WriteZipKeeps, WriteChecksumKeeps
<1>5. CASE Release!Killed \/ Release!Clear
  BY <1>5, KilledKeeps
<1>6. CASE UNCHANGED Release!vars
  BY <1>6, EditKeeps DEF Release!vars, ReleaseIInv
<1> QED
  BY <1>1, <1>2, <1>3, <1>4, <1>5, <1>6 DEF Release!Next
-----------------------------------------------------------------------------
(***************************************************************************)
(* The tools together: a behaviour of one of them keeps its invariant, and *)
(* says nothing of the others.                                             *)
(***************************************************************************)
IInv ==
  /\ part = "host" => HostIInv
  /\ part = "client" => ClientIInv
  /\ part = "registry" => RegistryIInv
  /\ part = "server" => ServerIInv
  /\ part = "release" => ReleaseIInv

LEMMA InitHolds == Init => IInv
BY HostInitHolds, ClientInitHolds, RegistryInitHolds, ServerInitHolds, ReleaseInitHolds DEF Init, IInv

LEMMA StepKeeps ==
  ASSUME IInv, [Next]_<<part, hostVars, clientVars, registryVars, serverVars, releaseVars>>
  PROVE  IInv'
<1>1. part' = part
  BY DEF Next
<1>2. part = "host" => [Host!Next]_(Host!vars)
  BY DEF Next, hostVars, Host!vars, Host!diagnosis, Host!provisions, Host!costs
<1>3. part = "client" => [Client!Next]_(Client!vars)
  BY DEF Next, clientVars, Client!vars, Client!configuration, Client!dispatching
<1>4. part = "registry" => [Registry!Next]_(Registry!vars)
  BY DEF Next, registryVars, Registry!vars
<1>5. part = "server" => [Server!Next]_(Server!vars)
  BY DEF Next, serverVars, Server!vars
<1>6. part = "release" => [Release!Next]_(Release!vars)
  BY DEF Next, releaseVars, Release!vars
<1> QED
  BY <1>1, <1>2, <1>3, <1>4, <1>5, <1>6, HostStepKeeps, ClientStepKeeps, RegistryStepKeeps, ServerStepKeeps,
     ReleaseStepKeeps
  DEF IInv

LEMMA InvHolds == Spec => []IInv
BY InitHolds, StepKeeps, PTL DEF Spec

\* An installer that must not be repeated runs at most once for a plan, however
\* many processes call provision and wherever they die (execute_provision,
\* AMBIGUOUS_NON_IDEMPOTENT_INSTALL).
THEOREM InstallsAreOnce == Spec => []InstalledOnce
<1>1. IInv => InstalledOnce
  BY DEF IInv, HostIInv, HostKept, Installed, Once, InstalledOnce, Host!InstalledOnce
<1> QED
  BY <1>1, InvHolds, PTL

\* A checkpoint says "completed" only of a plan whose target once held what
\* had been approved (execute_provision).
THEOREM CompletionsAreTrue == Spec => []CompletedIsTrue
<1>1. IInv => CompletedIsTrue
  BY DEF IInv, HostIInv, CompletedIsTrue, Host!CompletedIsTrue
<1> QED
  BY <1>1, InvHolds, PTL

\* No configuration is written without a manifest and a backup that rollback can
\* take it back with (apply_integration).
THEOREM WritesAreRecorded == Spec => []WrittenIsRecorded
<1>1. IInv => WrittenIsRecorded
  BY DEF IInv, ClientIInv, Recorded, WrittenIsRecorded, Client!WrittenIsRecorded, BackedUp
<1> QED
  BY <1>1, InvHolds, PTL

\* A directory with a conformance report holds every file of the adapter,
\* whatever became of the processes that made it (synthesize_adapter).
THEOREM ReportsAreComplete == Spec => []ReportedIsComplete
<1>1. IInv => ReportedIsComplete
  BY DEF IInv, ClientIInv, ReportedIsComplete
<1> QED
  BY <1>1, InvHolds, PTL

\* Whatever the processes do, and wherever they die, a reference that was
\* allocated or written into an artifact names its UID for good, and no UID has
\* two (artifact_refs.py).
THEOREM ReferencesAreOne == Spec => []OneReference
<1>1. IInv => OneReference
  BY HeldIsOne DEF IInv, OneReference
<1> QED
  BY <1>1, InvHolds, PTL

\* For every positive threshold and every cooldown an adapter that has failed
\* that often in a row is not called again before a cooldown after its last
\* failure (CircuitBreaker).
THEOREM FailingAdapterIsSpared == Spec => []AdapterIsSpared
<1>1. IInv => AdapterIsSpared
  BY DEF IInv, ServerIInv, AdapterIsSpared
<1> QED
  BY <1>1, InvHolds, PTL

\* A package with its checksum verifies, and offers as stable exactly the
\* modules that are validated with everything they need (prepare_release.py).
THEOREM PackagesAreSound == Spec => []PackageIsSound
<1>1. IInv => PackageIsSound
  <2> SUFFICES ASSUME IInv, part = "release" PROVE Release!PackageIsSound
    BY DEF PackageIsSound
  <2>1. CASE zip # None /\ checksum # None
    BY <2>1, GoodIsSound DEF IInv
  <2>2. CASE ~(zip # None /\ checksum # None)
    BY <2>2 DEF Release!PackageIsSound
  <2> QED
    BY <2>1, <2>2
<1> QED
  BY <1>1, InvHolds, PTL
=============================================================================
