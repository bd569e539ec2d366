-------------------------------- MODULE Tooling --------------------------------
(***************************************************************************)
(* Five tools that share no state, checked and proved about together: a    *)
(* behaviour is one of a single tool, and the variables of the others keep *)
(* no value.                                                               *)
(***************************************************************************)
EXTENDS Functions, Integers, Sequences, FiniteSets

CONSTANTS
  None,
  Process,                                                     \* provision, integrate, register, build
  Request, Source, Runtime, Target, HostSetups,                \* of a host
  MaxTime, MaxStarts,
  Integration, ConfigFile, Entry, ClientSetups,                \* of its clients
  MaxClock, MaxCalls,
  Uid, Kind, ArtifactFile, MaxAllocations,                     \* of the registry of artifacts
  Adapter, Threshold, Cooldown, MaxServed, MaxFrames,          \* of a served adapter
  Module, Harmless, ReleaseScenes                              \* of a release

VARIABLES
  part,
  now, setup, executable, doctor, inventory, hostPlan, approval, checkpoint, target,
  provisioning, installs, held, evidence, refreshing, answers, starts,
  clock, scene, router, file, detection, plan, manifest, backup, calls, begun, written,
  handoff, dispatch, adapter, routing,
  lock, registry, artifact, call, started, known,
  kind, time, breaker, serving, frames, failed,
  stage, checkout, commits, generated, building, zip, checksum

hostVars == <<now, setup, executable, doctor, inventory, hostPlan, approval, checkpoint, target,
  provisioning, installs, held, evidence, refreshing, answers, starts>>
clientVars == <<clock, scene, router, file, detection, plan, manifest, backup, calls, begun,
  written, handoff, dispatch, adapter, routing>>
registryVars == <<lock, registry, artifact, call, started, known>>
serverVars == <<kind, time, breaker, serving, frames, failed>>
releaseVars == <<stage, checkout, commits, generated, building, zip, checksum>>

-----------------------------------------------------------------------------
Host ==
  INSTANCE HostPreparation WITH Setups <- HostSetups, plan <- hostPlan

Client ==
  INSTANCE ClientIntegration WITH Caller <- Process, File <- ConfigFile, Setups <- ClientSetups

Registry ==
  INSTANCE ArtifactRegistry WITH File <- ArtifactFile, MaxCalls <- MaxAllocations, begun <- started

Server ==
  INSTANCE AdapterServer WITH MaxTime <- MaxServed, adapter <- kind

Release ==
  INSTANCE ReleasePreparation WITH
    Builder <- Process, Scenes <- ReleaseScenes, scene <- stage, refreshing <- generated

\* "No value" is no value of the kinds it stands in for; a synthesis asks for
\* a configuration; a breaker lets one failure pass at least; a product has
\* finitely many modules.
ASSUME HostAssumption == None \notin Host!Checkpoint
ASSUME ClientAssumption == \A s \in DOMAIN ClientSetups : \A r \in ClientSetups[s].syntheses : r.config # None
ASSUME RegistryAssumption == None \notin Process /\ None \notin Registry!Registries
ASSUME ServerAssumption == Threshold \in Nat \ {0} /\ Cooldown \in Nat
ASSUME ReleaseAssumption ==
  IsFiniteSet(Module) /\ \A s \in DOMAIN ReleaseScenes : ReleaseScenes[s].builders \subseteq Process

-----------------------------------------------------------------------------
NoHost ==
  /\ now = None /\ setup = None /\ executable = None /\ doctor = None /\ inventory = None
  /\ hostPlan = None /\ approval = None /\ checkpoint = None /\ target = None
  /\ provisioning = None /\ installs = None /\ held = None /\ evidence = None
  /\ refreshing = None /\ answers = None /\ starts = None
NoClient ==
  /\ clock = None /\ scene = None /\ router = None /\ file = None /\ detection = None
  /\ plan = None /\ manifest = None /\ backup = None /\ calls = None /\ begun = None
  /\ written = None /\ handoff = None /\ dispatch = None /\ adapter = None /\ routing = None
NoRegistry ==
  /\ lock = None /\ registry = None /\ artifact = None /\ call = None /\ started = None
  /\ known = None
NoServer ==
  /\ kind = None /\ time = None /\ breaker = None /\ serving = None /\ frames = None
  /\ failed = None
NoRelease ==
  /\ stage = None /\ checkout = None /\ commits = None /\ generated = None
  /\ building = None /\ zip = None /\ checksum = None

Init ==
  \/ part = "host" /\ Host!Init /\ NoClient /\ NoRegistry /\ NoServer /\ NoRelease
  \/ part = "client" /\ Client!Init /\ NoHost /\ NoRegistry /\ NoServer /\ NoRelease
  \/ part = "registry" /\ Registry!Init /\ NoHost /\ NoClient /\ NoServer /\ NoRelease
  \/ part = "server" /\ Server!Init /\ NoHost /\ NoClient /\ NoRegistry /\ NoRelease
  \/ part = "release" /\ Release!Init /\ NoHost /\ NoClient /\ NoRegistry /\ NoServer

Next ==
  \/ part = "host" /\ Host!Next /\ UNCHANGED <<part, clientVars, registryVars, serverVars, releaseVars>>
  \/ part = "client" /\ Client!Next /\ UNCHANGED <<part, hostVars, registryVars, serverVars, releaseVars>>
  \/ part = "registry" /\ Registry!Next /\ UNCHANGED <<part, hostVars, clientVars, serverVars, releaseVars>>
  \/ part = "server" /\ Server!Next /\ UNCHANGED <<part, hostVars, clientVars, registryVars, releaseVars>>
  \/ part = "release" /\ Release!Next /\ UNCHANGED <<part, hostVars, clientVars, registryVars, serverVars>>

Spec == Init /\ [][Next]_<<part, hostVars, clientVars, registryVars, serverVars, releaseVars>>

-----------------------------------------------------------------------------
\* An installer that must not be repeated runs at most once (HostPreparation).
InstalledOnce == part = "host" => Host!InstalledOnce

\* What is reported as completed was, once, what had been approved (HostPreparation).
CompletedIsTrue == part = "host" => Host!CompletedIsTrue

\* A configuration is never written without a record of it (ClientIntegration).
WrittenIsRecorded == part = "client" => Client!WrittenIsRecorded

\* An adapter with a report is complete (ClientIntegration).
ReportedIsComplete == part = "client" => Client!ReportedIsComplete

\* A reference names one artifact for good (ArtifactRegistry).
OneReference == part = "registry" => Registry!OneReference

\* An adapter that fails again and again is left alone for a while (AdapterServer).
AdapterIsSpared == part = "server" => Server!AdapterIsSpared

\* A package verifies, and offers as stable what is validated with everything
\* it needs (ReleasePreparation).
PackageIsSound == part = "release" => Release!PackageIsSound
=============================================================================
