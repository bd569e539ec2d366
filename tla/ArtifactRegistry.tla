-------------------------- MODULE ArtifactRegistry --------------------------
(***************************************************************************)
(* The registry that gives artifacts their human references: processes     *)
(* that create and register artifacts, the lock file, the revision a       *)
(* caller may insist on, and registrations that end half way.              *)
(*                                                                         *)
(* Source: .ai/foundation/reference_clients/artifact_reference.py.         *)
(***************************************************************************)
EXTENDS Naturals, FiniteSets

CONSTANTS
  Process, None,
  Uid, Kind,     \* every kind has one prefix, so a reference is [kind, number]
  File,          \* artifact files
  MaxCalls       \* bound of the model

VARIABLES
  lock,          \* the lock file: None, or the process that made it
  registry,      \* None or [revision, next, allocations]
  artifact,      \* per file, None or [uid, kind, ref]
  call,          \* what each process is doing
  begun,         \* how many calls have begun
  known          \* history: every [ref, uid] that was allocated or put into an artifact

vars == <<lock, registry, artifact, call, begun, known>>

Ref == [kind : Kind, number : Nat]
Allocation == [ref : Ref, uid : Uid]
Registries == [revision : Nat, next : [Kind -> Nat], allocations : SUBSET Allocation]

Initial == [revision |-> 0, next |-> [k \in Kind |-> 1], allocations |-> {}]
Artifact(uid, kind, ref) == [uid |-> uid, kind |-> kind, ref |-> ref]

NoCall == [pc |-> "idle", op |-> None, artifact |-> None, file |-> None, expected |-> None, copy |-> None]

Begin(p, op, a, f, expected) ==
  /\ call[p] = NoCall
  /\ begun < MaxCalls
  /\ begun' = begun + 1
  /\ call' = [call EXCEPT ![p] = [NoCall EXCEPT
       !.pc = IF op = "defer" THEN "checking" ELSE "locking",
       !.op = op, !.artifact = a, !.file = f, !.expected = expected]]
  /\ UNCHANGED <<lock, registry, artifact, known>>

\* A caller insists on the revision it has seen, or on none.
Expectable == {None} \cup IF registry = None THEN {} ELSE {registry.revision}

BeginInit(p) == Begin(p, "init", None, None, None)

BeginNew(p, uid, kind, f, deferred) ==
  \E e \in Expectable :
    Begin(p, IF deferred THEN "defer" ELSE "new", Artifact(uid, kind, None), f, e)

\* The artifact is read before the registry is locked.
BeginRegister(p, f) ==
  /\ artifact[f] # None
  /\ \E e \in Expectable : Begin(p, "register", artifact[f], f, e)

Goto(p, pc) == call' = [call EXCEPT ![p].pc = pc]
Leave(p) == call' = [call EXCEPT ![p] = NoCall]

\* A draft needs no lock, only a registry that is there.
Defer(p) ==
  /\ call[p].pc = "checking"
  /\ IF registry = None THEN Leave(p) ELSE Goto(p, "filing")
  /\ UNCHANGED <<lock, registry, artifact, begun, known>>

\* Mutant: a lock that is there does not stop a call.
FreeAlways == TRUE

Free == lock = None

Acquire(p) ==
  /\ call[p].pc = "locking"
  /\ Free
  /\ lock' = p
  /\ Goto(p, "reading")
  /\ UNCHANGED <<registry, artifact, begun, known>>

Refused(p) ==
  /\ call[p].pc = "locking"
  /\ ~Free
  /\ Leave(p)
  /\ UNCHANGED <<lock, registry, artifact, begun, known>>

\* The references the registry in memory gives to the artifact of a call.
RefsOf(r, uid) == {x.ref : x \in {y \in r.allocations : y.uid = uid}}

NextRef(r, kind) == [kind |-> kind, number |-> r.next[kind]]

Usable(r, expected) == r # None /\ expected \in {None, r.revision}

Allocatable(r, a) ==
  /\ RefsOf(r, a.uid) = {}
  /\ ~\E x \in r.allocations : x.ref = NextRef(r, a.kind)

Allocated(r, a) ==
  [revision |-> r.revision + 1,
   next |-> [r.next EXCEPT ![a.kind] = @ + 1],
   allocations |-> r.allocations \cup {[ref |-> NextRef(r, a.kind), uid |-> a.uid]}]

\* Reading the registry decides how the call goes on: with a registry to
\* write, with a reference found again, or not at all. An artifact that has its
\* reference is only looked up.
Decided(c, r) ==
  LET refuse == [c EXCEPT !.pc = "refused"]
      a == c.artifact
  IN  IF c.op = "init"
      THEN IF r = None THEN [c EXCEPT !.pc = "writing", !.copy = Initial] ELSE refuse
      ELSE IF ~Usable(r, c.expected) \/ a.ref # None THEN refuse
      ELSE IF c.op = "register" /\ RefsOf(r, a.uid) # {}
      THEN [c EXCEPT !.pc = "releasing", !.artifact.ref = CHOOSE ref \in RefsOf(r, a.uid) : TRUE]
      ELSE IF Allocatable(r, a)
      THEN [c EXCEPT !.pc = "writing", !.copy = Allocated(r, a), !.artifact.ref = NextRef(r, a.kind)]
      ELSE refuse

Read(p) ==
  /\ call[p].pc = "reading"
  /\ call' = [call EXCEPT ![p] = Decided(@, registry)]
  /\ UNCHANGED <<lock, registry, artifact, begun, known>>

WriteRegistry(p) ==
  /\ call[p].pc = "writing"
  /\ registry' = call[p].copy
  /\ known' = known \cup call[p].copy.allocations
  /\ Goto(p, IF call[p].op = "init" THEN "refused" ELSE "releasing")
  /\ UNCHANGED <<lock, artifact, begun>>

\* The lock file is removed whoever made it; a call that was refused, or that
\* has nothing to write into an artifact, ends.
Release(p) ==
  /\ call[p].pc \in {"releasing", "refused"}
  /\ lock' = None
  /\ IF call[p].pc = "releasing" /\ call[p].file # None THEN Goto(p, "filing") ELSE Leave(p)
  /\ UNCHANGED <<registry, artifact, begun, known>>

WriteArtifact(p) ==
  /\ call[p].pc = "filing"
  /\ artifact' = [artifact EXCEPT ![call[p].file] = call[p].artifact]
  /\ known' = IF call[p].artifact.ref = None THEN known
              ELSE known \cup {[ref |-> call[p].artifact.ref, uid |-> call[p].artifact.uid]}
  /\ Leave(p)
  /\ UNCHANGED <<lock, registry, begun>>

\* A process dies at any point, and leaves its lock file behind.
Die(p) ==
  /\ call[p] # NoCall
  /\ Leave(p)
  /\ UNCHANGED <<lock, registry, artifact, begun, known>>

\* Assumed: a lock file is removed by hand only when its process is gone.
RemoveLock ==
  /\ lock # None
  /\ call[lock] = NoCall
  /\ lock' = None
  /\ UNCHANGED <<registry, artifact, call, begun, known>>

Init ==
  /\ lock = None /\ registry = None /\ begun = 0 /\ known = {}
  /\ artifact = [f \in File |-> None]
  /\ call = [p \in Process |-> NoCall]

Next ==
  \/ \E p \in Process :
       \/ BeginInit(p)
       \/ \E uid \in Uid, kind \in Kind, f \in File \cup {None} :
            BeginNew(p, uid, kind, f, FALSE) \/ (f # None /\ BeginNew(p, uid, kind, f, TRUE))
       \/ \E f \in File : BeginRegister(p, f)
       \/ Defer(p) \/ Acquire(p) \/ Refused(p) \/ Read(p) \/ WriteRegistry(p)
       \/ Release(p) \/ WriteArtifact(p) \/ Die(p)
  \/ RemoveLock

Spec == Init /\ [][Next]_vars

-----------------------------------------------------------------------------
\* A reference, once allocated or written into an artifact, names its UID for
\* good, and no UID has two: whatever crashes, is repeated or recovered, and
\* whichever processes register at the same time (cmd_new, cmd_register).
OneReference ==
  /\ \A x \in known : registry # None /\ x \in registry.allocations
  /\ \A x, y \in known : x.ref = y.ref <=> x.uid = y.uid
=============================================================================
