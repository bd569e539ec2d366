--------------------------- MODULE RuleContextCache ---------------------------
(***************************************************************************)
(* The rule context cache (rule_context_cache.py). A snapshot fingerprints *)
(* the instruction files that apply to a directory, and every file they    *)
(* refer to, directly or not. A check compares a snapshot with the record  *)
(* of an earlier one, and says which analyses may be used again; a record  *)
(* operation replaces the record, under a lock that is a file.             *)
(*                                                                         *)
(* Files are read one at a time while editors and Git go on working, so a  *)
(* snapshot is taken twice, and counts only if both agree. A process may   *)
(* die at any time, and leave the lock behind.                             *)
(***************************************************************************)
EXTENDS Optional, FiniteSetsExt, Integers, SequencesExt

CONSTANTS
  Caller, Global,        \* Global: the directory of the global instructions
  Kinds,                 \* of each file that is not an instruction: what its path makes it
  Setups,                \* by name: the files and their versions, and the options of calls
  MaxEdits, MaxCalls     \* bounds of the model

VARIABLES
  setup,
  work, index, head,   \* of each file: its version in the working tree, the index and the last commit
  store,               \* by scope: the record, and whether there is a lock file
  call,                \* of each process: the operation it is in
  moment,              \* what was in the repository when a process began to look at it for the last time
  edits, calls         \* counters of the model

repository == <<work, index, head>>
vars == <<setup, repository, store, call, moment, edits, calls>>

(***************************************************************************)
(* A path is a directory and a name. A setup gives the versions of each    *)
(* file: None where it does not exist, or its text (what is left when line *)
(* ends are unified), its bytes, its size, whether it is UTF-8, and its    *)
(* references. A reference is the paths it may stand for, in the order in  *)
(* which they are tried, and whether it has to be resolved.                *)
(***************************************************************************)
Path == DOMAIN Setups[setup].files
Scope == {o.cwd : o \in Setups[setup].options}
InstructionNames == <<"AGENTS.override.md", "AGENTS.md">>

\* No file returns to what it was before: the snapshots cannot see that something changed and changed back.
Content(version) == IF version = None THEN None ELSE version.raw
Versions(versions) ==
  /\ Len(versions) \in Nat \ {0} /\ DOMAIN versions = 1 .. Len(versions)
  /\ \A i, j \in DOMAIN versions : i # j => Content(versions[i]) # Content(versions[j])
ASSUME SetupsAssumption ==
  \A s \in DOMAIN Setups :
    /\ IsFiniteSet(DOMAIN Setups[s].files)
    /\ \A p \in DOMAIN Setups[s].files :
         /\ Versions(Setups[s].files[p])
         /\ p \in DOMAIN Setups[s].index => Setups[s].index[p] \in DOMAIN Setups[s].files[p]
         /\ p \in DOMAIN Setups[s].work => Setups[s].work[p] \in DOMAIN Setups[s].files[p]

At(versions, p) == Setups[setup].files[p][versions[p]]
Tree(versions) == [p \in Path |-> At(versions, p)]

Exists(tree, p) == p \in DOMAIN tree /\ tree[p] # None
Nonempty(tree, p) == Exists(tree, p) /\ tree[p].size > 0

(***************************************************************************)
(* Discovery: one instruction file of each directory from the root of the  *)
(* repository to the working directory, after the global one.              *)
(***************************************************************************)
InstructionIn(tree, dir, names) ==
  LET found == SelectSeq([i \in DOMAIN names |-> <<dir, names[i]>>], LAMBDA p : Nonempty(tree, p))
  IN  IF found = <<>> THEN <<>> ELSE <<found[1]>>

InstructionChain(o, tree) ==
  LET global == IF o.global THEN InstructionIn(tree, Global, InstructionNames) ELSE <<>>
  IN  global \o FlattenSeq([i \in DOMAIN o.cwd |-> InstructionIn(tree, o.cwd[i], InstructionNames \o o.fallbacks)])

ChainReasons(o, tree, chain) ==
  LET project == {i \in DOMAIN chain : chain[i][1] # Global}
      size == MapThenSumSet(LAMBDA i : tree[chain[i]].size, project)
  IN  (IF size > o.limit THEN {"DISCOVERY_SIZE_LIMIT_EXCEEDED"} ELSE {})
        \cup (IF project = {} THEN {"REPOSITORY_INSTRUCTION_CHAIN_EMPTY"} ELSE {})

\* The first of the paths that exists; a bare name may also stand for the only file with it.
Resolved(tree, reference) ==
  LET tried == SelectSeq(reference.paths, LAMBDA p : Exists(tree, p))
      named == {p \in DOMAIN tree : p[1] # Global /\ p[2] = reference.name /\ Exists(tree, p)}
  IN  IF tried # <<>> THEN tried[1]
      ELSE IF Cardinality(named) = 1 THEN CHOOSE p \in named : TRUE ELSE None

References(tree, p) == IF p[1] = Global \/ ~tree[p].utf8 THEN {} ELSE tree[p].refs
DirectDependencies(tree, p) == {Resolved(tree, r) : r \in References(tree, p)} \ {None}

Closure(graph, paths) ==  \* everything reached from some of them, and those
  LET reached[n \in Nat] == IF n = 0 THEN paths ELSE reached[n - 1] \cup UNION {graph[p] : p \in reached[n - 1] \cap DOMAIN graph}
  IN  reached[Cardinality(DOMAIN graph)]
TransitiveDependencies(graph, p) == Closure(graph, graph[p]) \ {p}

KindByName(chain, p) ==  \* Mutant: a fallback name is not an instruction.
  IF p[2] \in Range(InstructionNames) THEN "instruction" ELSE Kinds[p]
Kind(chain, p) == IF p \in Range(chain) THEN "instruction" ELSE Kinds[p]

SourceReasons(o, tree, chain, sources) ==
  (IF \/ \E r \in o.extra : Resolved(tree, r) = None
      \/ \E p \in sources : \E r \in References(tree, p) : r.strong /\ Resolved(tree, r) = None
   THEN {"UNRESOLVED_REFERENCE"} ELSE {})
  \cup
  (IF \E p \in sources : p[1] # Global /\ Kind(chain, p) \in {"instruction", "rule_index", "context"} /\ ~tree[p].utf8
   THEN {"RULE_SOURCE_ENCODING_UNSUPPORTED"} ELSE {})

Discovery(o, tree) ==
  LET chain == InstructionChain(o, tree)
      graph == [p \in {q \in DOMAIN tree : Exists(tree, q)} |-> DirectDependencies(tree, p)]
      sources == Closure(graph, Range(chain) \cup ({Resolved(tree, r) : r \in o.extra} \ {None}))
  IN  [chain |-> chain, graph |-> [p \in sources |-> graph[p]],
       reasons |-> ChainReasons(o, tree, chain) \cup SourceReasons(o, tree, chain, sources)]

(***************************************************************************)
(* Fingerprints and records. Digests are the values they are digests of.   *)
(***************************************************************************)
GitStates(w, i, h) ==
  IF i = None THEN {"UNTRACKED"} \cup (IF h # None THEN {"STAGED"} ELSE {})
  ELSE LET changed == (IF i # h THEN {"STAGED"} ELSE {}) \cup (IF w # i THEN {"UNSTAGED"} ELSE {})
       IN  IF changed = {} THEN {"TRACKED_CLEAN"} ELSE changed
GitFingerprint(p, w, i, h) ==
  IF p[1] = Global THEN [head |-> None, index |-> None, states |-> {"EXTERNAL_GLOBAL"}]
  ELSE [head |-> h, index |-> i, states |-> GitStates(w, i, h)]

\* What is in the working tree, in the index and in the last commit.
Fingerprint(p, w, i, h) ==
  [raw |-> w.raw, text |-> IF w.utf8 THEN w.text ELSE w.raw, utf8 |-> w.utf8,
   git |-> GitFingerprint(p, w.raw, Content(i), Content(h))]

ScopeContext(cwd, discovery, chain, text) ==
  [cwd |-> cwd, discovery |-> discovery, instructions |-> [i \in DOMAIN chain |-> <<chain[i], text[chain[i]]>>]]

\* What the analysis of a source depends on: the scope, its text, and the text and the references of
\* everything it refers to.
AnalysisKey(context, graph, text, p) ==
  [context |-> context, path |-> p, text |-> text[p],
   dependencies |-> [d \in TransitiveDependencies(graph, p) |-> <<text[d], graph[d]>>]]

Record(o, found, prints) ==
  LET discovery == [global |-> o.global, fallbacks |-> o.fallbacks, limit |-> o.limit, tag |-> o.tag]
      text == [p \in DOMAIN prints |-> prints[p].text]
      context == ScopeContext(o.cwd, discovery, found.chain, text)
  IN  [cwd |-> o.cwd, discovery |-> discovery, chain |-> found.chain, intact |-> TRUE,
       sources |-> [p \in DOMAIN found.graph |->
         [kind |-> Kind(found.chain, p), print |-> prints[p], dependencies |-> found.graph[p],
          key |-> AnalysisKey(context, found.graph, text, p)]]]

ValidScope(r) ==
  /\ r.chain # <<>> /\ IsInjective(r.chain)
  /\ IsInjective(r.discovery.fallbacks) /\ Range(r.discovery.fallbacks) \cap Range(InstructionNames) = {}

\* Whether a record that is read is accepted: intact stands for its own digest and its syntax.
ValidRecord(r) ==
  LET text == [p \in DOMAIN r.sources |-> r.sources[p].print.text]
      graph == [p \in DOMAIN r.sources |-> r.sources[p].dependencies]
      globals == {i \in DOMAIN r.chain : r.chain[i][1] = Global}
  IN  /\ ValidScope(r) /\ DOMAIN r.sources # {}
      /\ Range(r.chain) = {p \in DOMAIN r.sources : r.sources[p].kind = "instruction"}
      /\ globals \subseteq {1} /\ (globals # {} => r.discovery.global)
      /\ \A p \in DOMAIN r.sources :
           /\ graph[p] \subseteq DOMAIN r.sources
           /\ r.sources[p].print.git.states # {}
           /\ (p[1] = Global) <=> ("EXTERNAL_GLOBAL" \in r.sources[p].print.git.states)
           /\ r.sources[p].key = AnalysisKey(ScopeContext(r.cwd, r.discovery, r.chain, text), graph, text, p)
      /\ r.intact

(***************************************************************************)
(* The comparison of a snapshot with the record of an earlier one.         *)
(***************************************************************************)
RawEolOnly(old, new) == old.raw # new.raw /\ old.text = new.text /\ old.utf8 /\ new.utf8
ContentChanged(old, new) == {p \in DOMAIN new : old[p].print.text # new[p].print.text \/ old[p].print.utf8 # new[p].print.utf8}
GitChanged(old, new) == {p \in DOMAIN new : old[p].print.git # new[p].print.git /\ ~RawEolOnly(old[p].print, new[p].print)}
DirectDependents(changed, sources) ==  \* Mutant: only one step back
  changed \cup {p \in DOMAIN sources : sources[p].dependencies \cap changed # {}}
DependentClosure(changed, sources) ==
  Closure([p \in DOMAIN sources |-> {q \in DOMAIN sources : p \in sources[q].dependencies}], changed)

Miss(record) == [status |-> "CACHE_MISS", reuse |-> {}, previous |-> None, current |-> record]
SameBinding(old, new) == old.cwd = new.cwd /\ old.discovery = new.discovery /\ old.chain = new.chain
SameGraph(old, new) ==
  /\ DOMAIN old.sources = DOMAIN new.sources
  /\ \A p \in DOMAIN new.sources :
       old.sources[p].kind = new.sources[p].kind /\ old.sources[p].dependencies = new.sources[p].dependencies

Compare(old, new) ==
  IF ~SameBinding(old, new) \/ ~SameGraph(old, new) THEN Miss(new)
  ELSE LET changed == ContentChanged(old.sources, new.sources) \cup GitChanged(old.sources, new.sources)
           reuse == DOMAIN new.sources \ DependentClosure(changed, new.sources)
       IN  IF changed \cap Range(new.chain) # {} THEN Miss(new)
           ELSE [status |-> IF changed = {} THEN "CACHE_HIT" ELSE "PARTIAL_INVALIDATION",
                 reuse |-> reuse, previous |-> old, current |-> new]

Check(record, stored) ==
  IF stored = None THEN Miss(record) ELSE IF ~ValidRecord(stored) THEN Miss(record) ELSE Compare(stored, record)

(***************************************************************************)
(* The steps of an operation. A snapshot is two captures that agree; a     *)
(* record operation takes one before it takes the lock, and another under  *)
(* it.                                                                     *)
(***************************************************************************)
Idle(answer) == [at |-> "idle", answer |-> answer]
Failed == [status |-> "CACHE_OPERATION_FAILED", reuse |-> {}]
Locked(scope, taken) == [store EXCEPT ![scope] = [record |-> @.record, locked |-> taken, moment |-> @.moment]]

Init ==
  /\ setup \in DOMAIN Setups
  /\ head = [p \in Path |-> 1]
  /\ index = [p \in Path |-> IF p \in DOMAIN Setups[setup].index THEN Setups[setup].index[p] ELSE 1]
  /\ work = [p \in Path |-> IF p \in DOMAIN Setups[setup].work THEN Setups[setup].work[p] ELSE 1]
  /\ store = [s \in Scope |-> [record |-> None, locked |-> FALSE, moment |-> None]]
  /\ call = [c \in Caller |-> Idle(None)]
  /\ moment = [c \in Caller |-> None]
  /\ edits = 0 /\ calls = 0

Begin(c, kind, o) ==
  /\ call[c].at = "idle" /\ calls < MaxCalls
  /\ Setups[setup].alone => \A d \in Caller : call[d].at = "idle"
  /\ call' = [call EXCEPT ![c] = [at |-> "discover", kind |-> kind, options |-> o, nth |-> 1, first |-> None, initial |-> None]]
  /\ calls' = calls + 1
  /\ UNCHANGED <<setup, repository, store, moment, edits>>

Discover(c) ==
  /\ call[c].at = "discover"
  /\ call' = [call EXCEPT ![c] =
       [at |-> "read", kind |-> @.kind, options |-> @.options, nth |-> @.nth, first |-> @.first, initial |-> @.initial,
        found |-> Discovery(@.options, Tree(work)), prints |-> [p \in {} |-> None]]]
  /\ moment' = [moment EXCEPT ![c] = repository]
  /\ UNCHANGED <<setup, repository, store, edits, calls>>

Unread(c) == DOMAIN call[c].found.graph \ DOMAIN call[c].prints
Give(c, answer) ==  \* the operation ends, and releases the lock it holds
  /\ call' = [call EXCEPT ![c] = Idle(answer)]
  /\ store' = IF call[c].nth > 2 THEN Locked(call[c].options.cwd, FALSE) ELSE store

ReadSource(c) ==  \* in the order of their paths
  /\ call[c].at = "read"
  /\ \E p \in Unread(c) :
       /\ \A q \in Unread(c) : Setups[setup].order[p] <= Setups[setup].order[q]
       /\ IF Exists(Tree(work), p)
          THEN /\ call' = [call EXCEPT ![c].prints =
                    [q \in DOMAIN @ \cup {p} |->
                       IF q = p THEN Fingerprint(p, At(work, p), At(index, p), At(head, p)) ELSE @[q]]]
               /\ UNCHANGED store
          ELSE Give(c, Failed)
  /\ UNCHANGED <<setup, repository, moment, edits, calls>>

AgreeAlways(first, second) == TRUE  \* Mutant: one capture is enough.
Agree(first, second) == first = second

NextCapture(c, record) ==
  call' = [call EXCEPT ![c] = [at |-> "discover", kind |-> @.kind, options |-> @.options, nth |-> @.nth + 1,
                               first |-> record, initial |-> @.initial]]

CompleteCapture(c) ==
  /\ call[c].at = "read" /\ Unread(c) = {}
  /\ \E record \in {Record(call[c].options, call[c].found, call[c].prints)} :
       IF call[c].found.reasons # {} THEN Give(c, Miss(record))
       ELSE IF call[c].nth \in {1, 3} THEN NextCapture(c, record) /\ UNCHANGED store
       ELSE IF ~Agree(call[c].first, record) THEN Give(c, Miss(record))
       ELSE IF call[c].kind = "check" THEN Give(c, Check(record, store[call[c].options.cwd].record))
       ELSE IF call[c].nth = 2
       THEN /\ call' = [call EXCEPT ![c] = [at |-> "lock", kind |-> @.kind, options |-> @.options, nth |-> 2, initial |-> record]]
            /\ UNCHANGED store
       ELSE IF record # call[c].initial THEN Give(c, Miss(record))
       ELSE call' = [call EXCEPT ![c] = [at |-> "write", options |-> @.options, nth |-> 4, initial |-> record]] /\ UNCHANGED store
  /\ UNCHANGED <<setup, repository, moment, edits, calls>>

FreeAlways(s) == TRUE  \* Mutant: a lock that is taken is no hindrance.
Free(s) == ~store[s].locked

TakeLock(c) ==
  /\ call[c].at = "lock" /\ Free(call[c].options.cwd)
  /\ store' = Locked(call[c].options.cwd, TRUE)
  /\ call' = [call EXCEPT ![c] = [at |-> "discover", kind |-> @.kind, options |-> @.options, nth |-> 3, first |-> None, initial |-> @.initial]]
  /\ UNCHANGED <<setup, repository, moment, edits, calls>>

LockTimeout(c) ==
  /\ call[c].at = "lock" /\ store[call[c].options.cwd].locked
  /\ Give(c, Failed)
  /\ UNCHANGED <<setup, repository, moment, edits, calls>>

WriteRecord(c) ==
  /\ call[c].at = "write"
  /\ store' = [store EXCEPT ![call[c].options.cwd] = [record |-> call[c].initial, locked |-> @.locked, moment |-> moment[c]]]
  /\ call' = [call EXCEPT ![c].at = "release"]
  /\ UNCHANGED <<setup, repository, moment, edits, calls>>

Release(c) ==
  /\ call[c].at = "release"
  /\ Give(c, Compare(call[c].initial, call[c].initial))
  /\ UNCHANGED <<setup, repository, moment, edits, calls>>

Die(c) ==  \* what it had locked stays locked
  /\ call[c].at # "idle" /\ Setups[setup].deaths
  /\ call' = [call EXCEPT ![c] = Idle(None)]
  /\ UNCHANGED <<setup, repository, store, moment, edits, calls>>

(***************************************************************************)
(* Editors, Git, and whoever damages or removes records and locks.         *)
(***************************************************************************)
Tick == edits < MaxEdits /\ edits' = edits + 1

Edit(p) ==
  /\ Tick /\ work[p] < Len(Setups[setup].files[p])
  /\ work' = [work EXCEPT ![p] = @ + 1]
  /\ UNCHANGED <<setup, index, head, store, call, moment, calls>>

Stage(p) ==
  /\ Tick /\ p[1] # Global /\ p \in Setups[setup].staged /\ index[p] < work[p]
  /\ index' = [index EXCEPT ![p] = work[p]]
  /\ UNCHANGED <<setup, work, head, store, call, moment, calls>>

Commit ==
  /\ Tick /\ head # index
  /\ head' = index
  /\ UNCHANGED <<setup, work, index, store, call, moment, calls>>

Damage(s) ==
  /\ Tick /\ Setups[setup].deaths /\ store[s].record # None
  /\ store' = [store EXCEPT ![s] = [record |-> [@.record EXCEPT !.intact = FALSE], locked |-> @.locked, moment |-> @.moment]]
  /\ UNCHANGED <<setup, repository, call, moment, calls>>

Recover(s) ==  \* nobody is left who holds the lock: somebody removes it, and the record
  /\ Tick /\ store[s].locked /\ \A c \in Caller : call[c].at = "idle"
  /\ store' = [store EXCEPT ![s] = [record |-> None, locked |-> FALSE, moment |-> None]]
  /\ UNCHANGED <<setup, repository, call, moment, calls>>

Next ==
  \/ \E c \in Caller :
       \/ \E kind \in {"check", "record"}, o \in Setups[setup].options : Begin(c, kind, o)
       \/ Discover(c) \/ ReadSource(c) \/ CompleteCapture(c)
       \/ TakeLock(c) \/ LockTimeout(c) \/ WriteRecord(c) \/ Release(c) \/ Die(c)
  \/ \E p \in Path : Edit(p) \/ Stage(p)
  \/ Commit
  \/ \E s \in Scope : Damage(s) \/ Recover(s)

Spec == Init /\ [][Next]_vars

(***************************************************************************)
(* Properties.                                                             *)
(***************************************************************************)
Captured(o, w, i, h) ==
  LET found == Discovery(o, w)
  IN  Record(o, found, [p \in DOMAIN found.graph |-> Fingerprint(p, w[p], i[p], h[p])])
Snapshot(o, at) == Captured(o, Tree(at[1]), Tree(at[2]), Tree(at[3]))

Reused(answer) == IF answer = None THEN {} ELSE answer.reuse

\* What a record operation is about to write, and what a check reuses analyses for, is what the
\* repository was at one instant during the operation, although its files are read one at a time, and
\* twice, while editors and Git change them (capture_snapshot, record_cache).
SnapshotsAreReal ==
  \A c \in Caller :
    /\ call[c].at \in {"lock", "write"} => call[c].initial = Snapshot(call[c].options, moment[c])
    /\ call[c].at = "idle" /\ Reused(call[c].answer) # {} =>
         \E o \in Setups[setup].options : call[c].answer.current = Snapshot(o, moment[c])

\* An analysis that an answer allows to be used again is of the same text, of the same closure of
\* references and of the same instructions as when it was recorded, even with references that form
\* cycles, whatever else has changed (compare_records, _dependent_closure).
ReuseIsSound ==
  \A c \in Caller : call[c].at = "idle" =>
    LET answer == call[c].answer
    IN  \A p \in Reused(answer) : answer.previous.sources[p].key = answer.current.sources[p].key

\* A record is never replaced by one of an earlier state of the repository: a snapshot is taken again
\* under the lock, however long the operation waited for it (record_cache).
Later(at, than) == \A i \in 1 .. 3 : \A p \in Path : at[i][p] >= than[i][p]
RecordsGoForward ==
  [][\A s \in Scope : store[s].record # None /\ store'[s].record # store[s].record /\ store'[s].record # None =>
         (store'[s].record.intact => Later(store'[s].moment, store[s].moment))]_vars
================================================================================
