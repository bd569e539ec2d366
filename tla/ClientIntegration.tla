--------------------------- MODULE ClientIntegration ---------------------------
(***************************************************************************)
(* The integration of clients (client_integration.py): an entry for the    *)
(* router is merged into the configuration of a client and rolled back     *)
(* again; prompts are handed over to somebody who chooses a model; an      *)
(* adapter is copied, quarantined and verified; the roles of a client are  *)
(* bound to models.                                                        *)
(*                                                                         *)
(* There are no locks. A call reads, checks and writes in steps, and other *)
(* calls and the users of the client move between them. A process may die  *)
(* between two steps. A digest is represented by what it is of.            *)
(***************************************************************************)
EXTENDS Functions, Integers, Sequences, SequencesExt

CONSTANTS
  Caller, None,
  Integration,   \* requests; each is planned once
  File, Entry,   \* configuration files, and entries in them
  Setups,        \* by name: requests, and what happens around
  MaxClock, MaxCalls  \* bounds of the model

VARIABLES
  clock, scene,
  router, file,                    \* the program of the router, and the configuration files
  detection, plan,                 \* of each request
  manifest, backup,                \* integrations/*.json and backups/*.bin of each plan
  calls, begun,                    \* what each caller is doing, and how many calls have begun
  written,                         \* history: what an application replaced, and by what
  handoff, dispatch,               \* the manual handoff, and what its receipt says
  adapter,                         \* the directory of a synthesized adapter
  routing                          \* models of the roles of VS Code

configuration == <<router, file, detection, plan, manifest, backup, written>>
dispatching == <<handoff, dispatch>>
vars == <<clock, scene, configuration, calls, begun, dispatching, adapter, routing>>

Setting == Setups[scene]
Of(q) == Setting.requests[q]
Begin(c, call) ==
  /\ calls[c] = None /\ begun < MaxCalls /\ begun' = begun + 1
  /\ calls' = [calls EXCEPT ![c] = call]
Return(c) == calls' = [calls EXCEPT ![c] = None]
At(c, step) == calls[c] # None /\ calls[c].step = step

(***************************************************************************)
(* Detection: what client, router and configuration are like now.          *)
(***************************************************************************)
HasShape(q) == Of(q).kind \in {"VISUAL_STUDIO", "GITHUB_COPILOT"}  \* its configuration has entries for servers
Native(kind) ==
  CASE kind \in {"VISUAL_STUDIO", "GITHUB_COPILOT"} -> {"MCP", "MANUAL"}
    [] kind = "CODEX" -> {"CLI", "LAUNCHER", "SNAPSHOT", "POLICY", "MANUAL"}
    [] OTHER -> {"MCP", "CLI", "LAUNCHER", "SNAPSHOT", "POLICY", "MANUAL"}

ValidRequest(q) ==
  /\ Of(q).kind \in {"CODEX", "VISUAL_STUDIO", "GITHUB_COPILOT", "GENERIC"}
  /\ ~Of(q).credentials /\ Of(q).preferred # <<>> /\ Of(q).supported # {} /\ Of(q).valid > 0

Empty == [object |-> TRUE, entries |-> [e \in Entry |-> None], rest |-> None, form |-> "written"]
Document(body) == IF body = None THEN Empty ELSE body
Unaffected(doc, e) == <<[doc.entries EXCEPT ![e] = None], doc.rest>>
Body(q) == file[Of(q).path]

ConfigState(q) ==
  CASE ~HasShape(q) -> "NOT_REQUIRED"
    [] HasShape(q) /\ (Of(q).path = None \/ ~Of(q).read) -> "UNAVAILABLE"
    [] OTHER -> IF Body(q) = None THEN "ABSENT" ELSE IF Body(q).object THEN "READABLE" ELSE "INVALID_SHAPE"
EntryState(q) ==
  LET current == Document(Body(q)).entries[Of(q).entry]
  IN  IF ConfigState(q) \notin {"READABLE", "ABSENT"} \/ current = None THEN "ABSENT"
      ELSE IF current = Of(q).argv THEN "EQUIVALENT" ELSE "CONFLICT"

Detect(q) ==
  /\ q \in DOMAIN Setting.requests /\ ValidRequest(q) /\ plan[q] = None
  /\ detection' = [detection EXCEPT ![q] =
       [state |-> ConfigState(q), entry |-> EntryState(q), router |-> router, until |-> clock + 1,
        before |-> IF ConfigState(q) \in {"READABLE", "INVALID_SHAPE"} THEN Body(q) ELSE None,
        unaffected |-> IF ConfigState(q) \in {"READABLE", "ABSENT"} THEN Unaffected(Document(Body(q)), Of(q).entry) ELSE <<>>,
        available |-> {"MANUAL"} \cup IF router = None THEN {} ELSE Of(q).supported \cap Native(Of(q).kind)]]
  /\ UNCHANGED <<begun, clock, scene, router, file, plan, manifest, backup, written, calls, dispatching, adapter, routing>>

(***************************************************************************)
(* Plans.                                                                  *)
(***************************************************************************)
Transport(q) ==
  LET possible == SelectSeq(Of(q).preferred, LAMBDA t : t \in detection[q].available)
  IN  IF possible = <<>> THEN "MANUAL" ELSE Head(possible)

MayWrite(q) == Of(q).write /\ (Of(q).path \in Setting.repositories => Of(q).repositories)

Change(q) ==
  LET d == detection[q]
  IN  IF Transport(q) = "MANUAL" THEN "MANUAL_GUIDANCE"
      ELSE IF Transport(q) # "MCP" THEN "NO_CONFIG_REQUIRED"
      ELSE IF \/ d.state \in {"UNAVAILABLE", "INVALID_SHAPE"} \/ d.entry = "CONFLICT"
              \/ d.entry = "ABSENT" /\ ~MayWrite(q)
      THEN "MANUAL_GUIDANCE"
      ELSE IF d.entry = "EQUIVALENT" THEN "NO_CHANGE" ELSE "MERGE_ENTRY"

PlanIntegration(q) ==
  /\ detection[q] # None /\ plan[q] = None /\ clock < detection[q].until
  /\ plan' = [plan EXCEPT ![q] =
       [change |-> Change(q), mutation |-> HasShape(q), router |-> detection[q].router, before |-> detection[q].before,
        unaffected |-> detection[q].unaffected, until |-> clock + Of(q).valid]]
  /\ UNCHANGED <<begun, clock, scene, router, file, detection, manifest, backup, written, calls, dispatching, adapter, routing>>

(***************************************************************************)
(* Application: checks, backup, manifest, configuration, manifest.         *)
(***************************************************************************)
CanMerge(q) ==
  /\ plan[q].change = "MERGE_ENTRY" /\ plan[q].mutation
  /\ Of(q).read /\ MayWrite(q)
  /\ Body(q) = plan[q].before /\ Document(Body(q)).object
  /\ Document(Body(q)).entries[Of(q).entry] \in {None, Of(q).argv}
  /\ Unaffected(Document(Body(q)), Of(q).entry) = plan[q].unaffected

Merged(doc, q) == [doc EXCEPT !.entries[Of(q).entry] = Of(q).argv, !.form = "written"]

Apply(c, q) ==  \* plans that change nothing are only reported
  /\ plan[q] # None
  /\ clock < plan[q].until /\ router # None /\ router = plan[q].router
  /\ CanMerge(q)
  /\ Begin(c, [step |-> "backup", plan |-> q, body |-> Body(q), updated |-> Merged(Document(Body(q)), q)])
  /\ UNCHANGED <<clock, scene, configuration, dispatching, adapter, routing>>

Backup(c) ==
  /\ At(c, "backup")
  /\ backup' = IF calls[c].body = None THEN backup ELSE [backup EXCEPT ![calls[c].plan] = calls[c].body]
  /\ calls' = [calls EXCEPT ![c].step = "prepare"]
  /\ UNCHANGED <<begun, clock, scene, router, file, detection, plan, manifest, written, dispatching, adapter, routing>>

Manifest(c, status) ==
  manifest' = [q \in DOMAIN manifest \cup {calls[c].plan} |->
    IF q = calls[c].plan THEN [before |-> calls[c].body, after |-> calls[c].updated, status |-> status] ELSE manifest[q]]

PrepareLater(c) ==  \* Mutant: the manifest is written when the configuration is.
  /\ At(c, "prepare")
  /\ calls' = [calls EXCEPT ![c].step = "write"]
  /\ UNCHANGED <<begun, clock, scene, configuration, dispatching, adapter, routing>>
Prepare(c) ==
  /\ At(c, "prepare")
  /\ Manifest(c, "PREPARED") /\ calls' = [calls EXCEPT ![c].step = "write"]
  /\ UNCHANGED <<begun, clock, scene, router, file, detection, plan, backup, written, dispatching, adapter, routing>>

Write(c) ==
  /\ At(c, "write")
  /\ file' = [file EXCEPT ![Of(calls[c].plan).path] = calls[c].updated]
  /\ written' = [written EXCEPT ![calls[c].plan] = [read |-> calls[c].body, after |-> calls[c].updated]]
  /\ calls' = [calls EXCEPT ![c].step = "commit"]
  /\ UNCHANGED <<begun, clock, scene, router, detection, plan, manifest, backup, dispatching, adapter, routing>>

Commit(c) ==
  /\ At(c, "commit")
  /\ Manifest(c, "APPLIED") /\ Return(c)
  /\ UNCHANGED <<begun, clock, scene, router, file, detection, plan, backup, written, dispatching, adapter, routing>>

(***************************************************************************)
(* Rollback: only what was applied and did not change.                     *)
(***************************************************************************)
Rollback(c, q) ==
  /\ plan[q] # None
  /\ plan[q].change \notin {"NO_CONFIG_REQUIRED", "NO_CHANGE"} /\ MayWrite(q)
  /\ q \in DOMAIN manifest /\ manifest[q].status = "APPLIED"
  /\ Body(q) = manifest[q].after
  /\ Begin(c, [step |-> "restore", plan |-> q, body |-> manifest[q].before, updated |-> manifest[q].after])
  /\ UNCHANGED <<clock, scene, configuration, dispatching, adapter, routing>>

Restore(c) ==  \* a backup that does not have the bytes of the manifest is refused
  /\ At(c, "restore")
  /\ IF calls[c].body \in {None, backup[calls[c].plan]}
     THEN file' = [file EXCEPT ![Of(calls[c].plan).path] = calls[c].body] /\ calls' = [calls EXCEPT ![c].step = "forget"]
     ELSE Return(c) /\ UNCHANGED file
  /\ UNCHANGED <<begun, clock, scene, router, detection, plan, manifest, backup, written, dispatching, adapter, routing>>

Forget(c) ==
  /\ At(c, "forget")
  /\ Manifest(c, "ROLLED_BACK") /\ Return(c)
  /\ UNCHANGED <<begun, clock, scene, router, file, detection, plan, backup, written, dispatching, adapter, routing>>

Edit(f) ==  \* a user of the client
  /\ f \in {Of(q).path : q \in DOMAIN Setting.requests}
  /\ \E body \in Setting.contents \ {file[f]} : file' = [file EXCEPT ![f] = body]
  /\ UNCHANGED <<begun, clock, scene, router, detection, plan, manifest, backup, written, calls, dispatching, adapter, routing>>

Upgrade ==
  /\ \E program \in Setting.routers \ {router} : router' = program
  /\ UNCHANGED <<begun, clock, scene, file, detection, plan, manifest, backup, written, calls, dispatching, adapter, routing>>

(***************************************************************************)
(* Manual dispatch. The model that is recommended is evidence of what is   *)
(* available, and the receipt says which model was used.                   *)
(***************************************************************************)
Fresh(model) == model.observed <= clock /\ clock < model.expires
Local(request, model) == model.boundary = "HOST" \/ request.public \/ request.remote

Recommended(request) ==
  IF request.model = None THEN None
  ELSE IF Fresh(request.model) /\ Local(request, request.model) THEN request.model ELSE None

\* A prompt of other contents is not overwritten.
HandOver ==
  LET request == Setting.manual
  IN  /\ request # None /\ ~(request.supported /\ request.attested)
      /\ request.attested => request.supported
      /\ request.tier = "LOCAL" => request.model = None
      /\ handoff.prompt \in {None, <<Recommended(request), request.prompt>>}
      /\ handoff' = [prompt |-> <<Recommended(request), request.prompt>>, created |-> clock, until |-> clock + request.valid,
                     model |-> Recommended(request), request |-> request]
      /\ UNCHANGED <<begun, clock, scene, configuration, calls, dispatch, adapter, routing>>

ValidHandoff ==
  /\ handoff.prompt # None /\ handoff.created <= clock /\ clock < handoff.until
  /\ handoff.model # None => /\ handoff.model.observed <= handoff.created /\ clock < handoff.model.expires
                            /\ Local(handoff.request, handoff.model)

Attested(r) ==
  /\ r.status = "ATTESTED" /\ r.evidence \in {"HOST_EXECUTION", "HOST_RESPONSE_METADATA"}
  /\ r.issuer \in Setting.issuers /\ r.requested # None /\ r.actual = r.requested

VerifyDispatch ==
  /\ ValidHandoff
  /\ \E r \in Setting.receipts :
       /\ handoff.created <= r.observed /\ r.observed <= clock
       /\ dispatch' = [actual |-> r.actual,
                       differs |-> handoff.model # None /\ r.requested # handoff.model.name,
                       status |-> IF Attested(r) THEN "ATTESTED" ELSE IF r.status = "FAILED" THEN "FAILED" ELSE "REQUESTED_NOT_ATTESTED"]
  /\ UNCHANGED <<begun, clock, scene, configuration, calls, handoff, adapter, routing>>

(***************************************************************************)
(* Synthesis: sources and configuration are copied into an empty           *)
(* directory, and the report is written last. The adapter is quarantined   *)
(* until all operations of the protocol succeed.                           *)
(***************************************************************************)
Sources == <<"adapter_protocol.py", "reference_adapters.py">>
Files == ToSet(Sources) \cup {"config.json"}
ValidSynthesis(request) ==
  /\ request.allowed /\ request.network = "DENY" /\ ~request.repository_write /\ request.credentials = {}
  /\ request.boundary \in {"PROCESS", "HOST"} /\ request.environment = {} /\ "PUBLIC" \in request.classes

Synthesize(c) ==
  /\ adapter.report = None /\ adapter.files = [n \in Files |-> None]
  /\ Setting.trusted # None  \* the reference adapters are where they are looked for
  /\ \E request \in Setting.syntheses : ValidSynthesis(request) /\ Begin(c, [step |-> "copy", copied |-> 0, request |-> request])
  /\ UNCHANGED <<clock, scene, configuration, dispatching, adapter, routing>>

Copy(c) ==
  /\ At(c, "copy")
  /\ IF calls[c].copied < Len(Sources)
     THEN /\ adapter' = [adapter EXCEPT !.files[Sources[calls[c].copied + 1]] = Setting.trusted]
          /\ calls' = [calls EXCEPT ![c].copied = @ + 1]
     ELSE /\ adapter' = [adapter EXCEPT !.files["config.json"] = calls[c].request.config]
          /\ calls' = [calls EXCEPT ![c].step = "report"]
  /\ UNCHANGED <<begun, clock, scene, configuration, dispatching, routing>>

ReportBeforeCopies(c) ==  \* Mutant: the report is written as soon as the sources are copied.
  /\ At(c, "copy") /\ calls[c].copied = Len(Sources)
  /\ adapter' = [adapter EXCEPT !.report = [status |-> "QUARANTINED", config |-> calls[c].request.config]]
  /\ Return(c)
  /\ UNCHANGED <<begun, clock, scene, configuration, dispatching, routing>>

Report(c) ==
  /\ At(c, "report")
  /\ adapter' = [adapter EXCEPT !.report = [status |-> "QUARANTINED", config |-> calls[c].request.config]]
  /\ Return(c)
  /\ UNCHANGED <<begun, clock, scene, configuration, dispatching, routing>>

Conform(c) ==  \* the fixture is given to the adapter, if the directory is as it was reported
  /\ adapter.report # None
  /\ \A i \in DOMAIN Sources : adapter.files[Sources[i]] # None /\ adapter.files[Sources[i]] = Setting.trusted
  /\ adapter.files["config.json"] = adapter.report.config
  /\ Begin(c, [step |-> "conform", report |-> adapter.report])
  /\ UNCHANGED <<clock, scene, configuration, dispatching, adapter, routing>>

Judge(c) ==  \* all four operations succeed, one does not, or the adapter does not end
  /\ At(c, "conform") /\ Return(c)
  /\ \/ \E status \in {"VERIFIED", "QUARANTINED"} : adapter' = [adapter EXCEPT !.report = [calls[c].report EXCEPT !.status = status]]
     \/ UNCHANGED adapter
  /\ UNCHANGED <<begun, clock, scene, configuration, dispatching, routing>>

(***************************************************************************)
(* The roles of VS Code. They are taken in the order of their names; a     *)
(* later role on the same setting replaces an earlier one.                 *)
(***************************************************************************)
RoleSettings == [PLAN_SETTING |-> "chat.planAgent.defaultModel", IMPLEMENT_SETTING |-> "github.copilot.chat.implementAgent.model",
                 UTILITY_SETTING |-> "chat.utilityModel", UTILITY_SMALL_SETTING |-> "chat.utilitySmallModel"]

ValidCapability(c) ==
  /\ c.kind = "VISUAL_STUDIO_CODE" /\ c.observed <= clock /\ clock < c.expires
  /\ c.sources # {} /\ (\A at \in c.sources : at <= c.observed) /\ c.surfaces # <<>>

Eligible(r) == SelectSeq(r.models, LAMBDA m : m \in Setting.inventory.models)
Bound(r, capability) ==  \* the client offers this surface for this class of tasks, and one of the models
  /\ r.surface \in DOMAIN capability.surfaces
  /\ {r.task, "*"} \cap capability.surfaces[r.surface].tasks # {}
  /\ Eligible(r) # <<>>
Expected(surface) ==
  IF surface \in DOMAIN RoleSettings THEN <<"ROLE_SETTING", RoleSettings[surface]>>
  ELSE <<IF surface = "CUSTOM_AGENT" THEN "AGENT_PROFILE" ELSE "SUBAGENT_PARAMETER", None>>
Matches(observed, expected) == observed.mode = expected[1] /\ expected[2] \in {None, observed.target}

RouteModels ==
  LET capability == Setting.capability
      inventory == Setting.inventory
      roles == Setting.roles
      bound == {i \in DOMAIN roles : Bound(roles[i], capability)}
      onSettings == {i \in bound : roles[i].surface \in DOMAIN RoleSettings}
      settings == {roles[i].surface : i \in onSettings}
      last(surface) == CHOOSE i \in onSettings : roles[i].surface = surface /\ \A j \in onSettings : roles[j].surface = surface => j <= i
  IN  /\ roles # <<>> /\ ValidCapability(capability)
      /\ inventory.observed <= clock /\ clock < inventory.expires
      /\ \A i \in bound : Matches(capability.surfaces[roles[i].surface], Expected(roles[i].surface))
      /\ routing' = [status |-> IF bound = DOMAIN roles THEN "EXECUTABLE" ELSE "MANUAL_REQUIRED",
                     settings |-> [s \in settings |-> Head(Eligible(roles[last(s)]))],
                     agents |-> [i \in bound \ onSettings |-> Eligible(roles[i])]]
      /\ UNCHANGED <<begun, clock, scene, configuration, calls, dispatching, adapter>>

Die(c) ==
  /\ Setting.deaths /\ calls[c] # None /\ Return(c)
  /\ UNCHANGED <<begun, clock, scene, configuration, dispatching, adapter, routing>>

Tick ==
  /\ clock < MaxClock /\ clock' = clock + 1
  /\ UNCHANGED <<begun, scene, configuration, calls, dispatching, adapter, routing>>

Init ==
  /\ clock = 0 /\ scene \in DOMAIN Setups
  /\ router = Setting.router /\ file = [f \in File |-> None]
  /\ detection = [q \in Integration |-> None] /\ plan = detection
  /\ manifest = [q \in {} |-> None] /\ backup = detection /\ written = detection
  /\ calls = [c \in Caller |-> None] /\ begun = 0
  /\ handoff = [prompt |-> None] /\ dispatch = None
  /\ adapter = [files |-> [n \in Files |-> None], report |-> None] /\ routing = None

Next ==
  \/ HandOver \/ VerifyDispatch \/ RouteModels \/ Upgrade \/ Tick
  \/ \E f \in File : Edit(f)
  \/ \E q \in Integration : Detect(q) \/ PlanIntegration(q) \/ \E c \in Caller : Apply(c, q) \/ Rollback(c, q)
  \/ \E c \in Caller :
       \/ Backup(c) \/ Prepare(c) \/ Write(c) \/ Commit(c) \/ Restore(c) \/ Forget(c)
       \/ Synthesize(c) \/ Copy(c) \/ Report(c) \/ Conform(c) \/ Judge(c) \/ Die(c)

Spec == Init /\ [][Next]_vars

-----------------------------------------------------------------------------

(***************************************************************************)
(* Whenever a call has written a configuration, also if it died then, the  *)
(* manifest of its plan says by what, and the backup has what the call had *)
(* read: a user can recover it by hand (495-511).                          *)
(***************************************************************************)
WrittenIsRecorded ==
  \A q \in Integration :
    written[q] # None =>
      /\ q \in DOMAIN manifest /\ manifest[q].after = written[q].after
      /\ written[q].read # None => backup[q] = written[q].read

(***************************************************************************)
(* An adapter that has a report is complete, whoever died while they       *)
(* copied and however many did (896-916).                                  *)
(***************************************************************************)
ReportedIsComplete ==
  adapter.report # None => \A n \in Files : adapter.files[n] # None

=============================================================================
