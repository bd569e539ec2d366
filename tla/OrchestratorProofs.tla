------------------------- MODULE OrchestratorProofs -------------------------
(***************************************************************************)
(* Four promises of an orchestration, for any catalogs, sources, edits,   *)
(* number of calls and length of the route: nothing is sent after an       *)
(* invocation in doubt, a completed run is attested, and the sources of    *)
(* evidence are spared. One group of steps works on the request, another   *)
(* on the evidence; they meet where a call plans and where a process ends. *)
(***************************************************************************)
EXTENDS Orchestrator, TLAPS

Records == [conn : Conn, model : Model, actual : Model]
Rows == [conn : Conn, model : Model, actual : Model, observed : Nat]
Keys == Conn \X Model \X Model

Reports == {"COMPLETED", "MANUAL_REQUIRED", "UNAVAILABLE"}
Checkpoints == [hash : Nat, state : {"PREPARED", "IN_PROGRESS", "TERMINAL"}, report : Reports \cup {None}]

Idlers == {"idle", "planning"}
Invoking == {"claimed", "sent", "answered"}
Runs ==
  [pc : Idlers \cup Invoking \cup {"next", "failed"}, at : Nat, hash : Nat,
   choices : Seq(Conn \X Model), i : Nat \ {0}, aliases : SUBSET Keys, actual : Model \cup {None}]

EndName == (DOMAIN ErrorClass) \cup {"PENDING", "LOST", "REJECTED"}
Dispatches ==
  [conn : Conn, model : Model, at : Nat, actual : Model \cup {None}, end : EndName]

Busy == {"working", "marking"}
Refreshes ==
  [pc : Busy \cup {"idle", "waiting"}, at : Nat, todo : SUBSET Source,
   marks : [Source -> Nat], found : SUBSET Rows]
Contacts == [at : Nat, by : Process \cup {None}, kept : BOOLEAN, rows : SUBSET Records]

\* What the constants are: sources and verifiers speak of models on
\* connections, and "no value" is none of the values it stands in for.
Settings ==
  /\ Validity \in Nat /\ MinRefresh \in Nat
  /\ \A s \in DOMAIN Scenes : Scenes[s].request.max \in Nat
  /\ \A rows \in Yield : rows \subseteq Records
  /\ \A proof \in Proof : proof.rows \subseteq Records /\ proof.at \in Nat
  /\ None \notin Checkpoints /\ None \notin Reports /\ None \notin Process

RunTypes ==
  /\ scene \in DOMAIN Scenes /\ clock \in Nat /\ input \in Nat
  /\ checkpoint \in Checkpoints \cup {None}
  /\ run \in Runs
  /\ run.pc \in Invoking => run.i <= Len(run.choices)
  /\ dispatches \in Seq(Dispatches)

EvidenceTypes ==
  /\ evidence \in SUBSET Rows /\ accepted \in SUBSET Rows
  /\ ledger \in [Source -> Nat]
  /\ refresh \in [Process -> Refreshes]
  /\ contacts \in [Source -> Seq(Contacts)]

Types == Settings /\ RunTypes /\ EvidenceTypes

\* The steps that leave the request alone.
Beside ==
  \/ EditConnections \/ AskRefresh
  \/ \E proof \in Proof : AcceptEvidence(proof)
  \/ \E p \in Process :
       \/ Lock(p) \/ MergeEvidence(p) \/ MarkSources(p)
       \/ \E s \in Source : SkipSource(p, s) \/ \E rows \in Yield : Contact(p, s, rows)
  \/ DisturbOutput \/ Tick

LEMMA BesideLeavesRequest ==
  Beside => UNCHANGED <<scene, input, checkpoint, run, dispatches>> /\ clock' \in {clock, clock + 1}
<1> DEFINE Left == UNCHANGED <<scene, input, checkpoint, run, dispatches>> /\ clock' \in {clock, clock + 1}
<1> SUFFICES ASSUME Beside PROVE Left
  OBVIOUS
<1>1. CASE EditConnections \/ AskRefresh \/ DisturbOutput \/ Tick
  BY <1>1 DEF EditConnections, AskRefresh, DisturbOutput, Tick, orchestration
<1>2. ASSUME NEW proof \in Proof, AcceptEvidence(proof) PROVE Left
  BY <1>2 DEF AcceptEvidence, orchestration
<1>3. ASSUME NEW p \in Process, Lock(p) \/ MergeEvidence(p) \/ MarkSources(p) PROVE Left
  BY <1>3 DEF Lock, MergeEvidence, MarkSources, orchestration
<1>4. ASSUME NEW p \in Process, NEW s \in Source, SkipSource(p, s) PROVE Left
  BY <1>4 DEF SkipSource, orchestration
<1>5. ASSUME NEW p \in Process, NEW s \in Source, NEW rows \in Yield, Contact(p, s, rows) PROVE Left
  BY <1>5 DEF Contact, orchestration
<1> HIDE DEF Left
<1> QED
  BY <1>1, <1>2, <1>3, <1>4, <1>5 DEF Beside

-----------------------------------------------------------------------------
(* Types.                                                                  *)

LEMMA ObservedTypes ==
  ASSUME NEW rows, rows \subseteq Records, NEW at \in Nat
  PROVE  Observed(rows, at) \in SUBSET Rows
BY DEF Observed, Records, Rows

LEMMA KeyType == \A row \in Rows : Key(row) \in Keys
BY DEF Rows, Key, Keys

LEMMA RouteTypes ==
  ASSUME Types, NEW route \in Routes(Catalogued)
  PROVE  route \in Seq(Conn \X Model)
<1>1. Request.max \in Nat
  BY DEF Types, Settings, RunTypes, Request, Scene
<1>2. PICK n \in 1 .. Request.max : route \in [1 .. n -> Routable(Catalogued)]
  BY DEF Routes
<1>3. n \in Nat
  BY <1>1
<1>4. Routable(Catalogued) \subseteq Conn \X Model
  BY DEF Routable, Catalogued, Configured
<1>5. route \in [1 .. n -> Conn \X Model]
  BY <1>2, <1>4
<1> QED
  BY <1>3, <1>5

LEMMA AfterFailureType ==
  ASSUME Types, NEW class
  PROVE  /\ AfterFailure(class) \in Runs
         /\ \/ AfterFailure(class) = NoRun
            \/ /\ AfterFailure(class) = [run EXCEPT !.pc = "failed"]
               /\ class \notin {"TIMEOUT", "PROTOCOL", "UNKNOWN"}
<1>1. NoRun \in Runs
  BY DEF NoRun, Runs, Idlers, Invoking
<1>2. [run EXCEPT !.pc = "failed"] \in Runs
  BY DEF Types, RunTypes, Runs
<1> QED
  BY <1>1, <1>2 DEF AfterFailure

LEMMA NoRunType == NoRun \in Runs /\ NoRun.pc = "idle" /\ NoRefresh \in Refreshes /\ NoRefresh.pc = "idle"
BY DEF NoRun, Runs, Idlers, Invoking, NoRefresh, Refreshes

LEMMA ChoiceType ==
  ASSUME Types, run.i <= Len(run.choices)
  PROVE  Choice \in Conn \X Model
BY DEF Types, RunTypes, Runs, Choice

LEMMA EndsTypes ==
  /\ "LOST" \in EndName /\ "PENDING" \in EndName /\ "REJECTED" \in EndName
  /\ "ANSWERED" \in DOMAIN ErrorClass
  /\ \A end \in DOMAIN ErrorClass :
       /\ end \in EndName
       /\ ErrorClass[end] \notin {"TIMEOUT", "PROTOCOL", "UNKNOWN"} =>
            end \in {"NOT_REACHED", "DENIED", "RESET", "NOT_PUBLISHED", "UNREADABLE", "ANSWERED"}
<1>1. /\ DOMAIN RequestClass = {"NOT_REACHED", "DENIED", "TIMED_OUT", "BAD_REPLY", "ANSWERED"}
      /\ DOMAIN BodyClass = {"INCOMPLETE", "CUT_SHORT"}
      /\ DOMAIN HandleClass = {"UNREADABLE", "RESET", "NOT_PUBLISHED"}
  BY DEF RequestClass, BodyClass, HandleClass
<1>2. /\ ErrorClass["TIMED_OUT"] = "TIMEOUT" /\ ErrorClass["BAD_REPLY"] = "PROTOCOL"
  BY <1>1 DEF ErrorClass, RequestClass
<1>3. /\ ErrorClass["INCOMPLETE"] = "PROTOCOL" /\ ErrorClass["CUT_SHORT"] = "UNKNOWN"
  BY <1>1 DEF ErrorClass, BodyClass
<1>4. DOMAIN ErrorClass = (DOMAIN RequestClass) \cup (DOMAIN BodyClass) \cup (DOMAIN HandleClass)
  BY DEF ErrorClass
<1> QED
  BY <1>1, <1>2, <1>3, <1>4 DEF EndName

\* A request that ends keeps where it went.
LEMMA EndedTypes ==
  ASSUME RunTypes, dispatches # <<>>, NEW end \in EndName, NEW actual \in Model \cup {None},
         Ended(end, actual)
  PROVE  /\ dispatches' \in Seq(Dispatches) /\ Len(dispatches') = Len(dispatches)
         /\ dispatches' # <<>>
         /\ \A k \in 1 .. Len(dispatches) - 1 : dispatches'[k] = dispatches[k]
         /\ LET last == dispatches'[Len(dispatches')] old == dispatches[Len(dispatches)]
            IN  /\ last.end = end /\ last.actual = actual
                /\ last.conn = old.conn /\ last.model = old.model /\ last.at = old.at
<1> DEFINE n == Len(dispatches)
<1>1. n \in Nat \ {0} /\ dispatches \in Seq(Dispatches) /\ dispatches[n] \in Dispatches
  BY DEF RunTypes
<1>2. dispatches' = [dispatches EXCEPT ![n] = [dispatches[n] EXCEPT !.end = end, !.actual = actual]]
  BY <1>1 DEF Ended
<1>3. [dispatches[n] EXCEPT !.end = end, !.actual = actual] \in Dispatches
  BY <1>1 DEF Dispatches
<1>4. /\ [dispatches[n] EXCEPT !.end = end, !.actual = actual].end = end
      /\ [dispatches[n] EXCEPT !.end = end, !.actual = actual].actual = actual
      /\ [dispatches[n] EXCEPT !.end = end, !.actual = actual].conn = dispatches[n].conn
      /\ [dispatches[n] EXCEPT !.end = end, !.actual = actual].model = dispatches[n].model
      /\ [dispatches[n] EXCEPT !.end = end, !.actual = actual].at = dispatches[n].at
  BY <1>1 DEF Dispatches
<1> QED
  BY <1>1, <1>2, <1>3, <1>4

-----------------------------------------------------------------------------
(***************************************************************************)
(* The request. Whenever a call may send, or a later call may begin, the   *)
(* last request has ended in a way that leaves no doubt; from the claim to *)
(* the end of an invocation the checkpoint says that it is in progress.    *)
(***************************************************************************)
Definite == {"NOT_REACHED", "DENIED", "REJECTED", "RESET", "NOT_PUBLISHED"}

Last == dispatches[Len(dispatches)]

Clear == dispatches = <<>> \/ Last.end \in Definite

Doubt ==
  /\ NothingAfterDoubt
  /\ checkpoint = None \/ checkpoint.state = "PREPARED" => Clear
  /\ run.pc \in {"planning", "next", "claimed", "failed"} => Clear
  /\ run.pc \in Invoking => checkpoint # None /\ checkpoint.state = "IN_PROGRESS"
  /\ run.pc \in {"sent", "answered"} => dispatches # <<>>

\* What a completed run rests on, from the moment its call has planned.
All == accepted \cup UNION {Given(s) : s \in Source}

Vouched(key, at) == \E row \in Fresh(All, at) : Key(row) = key

Attest ==
  /\ run.pc \notin Idlers => \A key \in run.aliases : Vouched(key, run.at)
  /\ run.pc \in {"sent", "answered"} =>
       Last.conn = Choice[1] /\ Last.model = Choice[2] /\ Last.at = run.at
  /\ run.pc = "answered" => Last.end = "ANSWERED" /\ Last.actual = run.actual
  /\ run.pc # "idle" => checkpoint = None \/ checkpoint.state # "TERMINAL"
  /\ checkpoint # None /\ checkpoint.report = "COMPLETED" =>
       /\ checkpoint.state = "TERMINAL"
       /\ dispatches # <<>> /\ Last.end = "ANSWERED"
       /\ Last.actual # Last.model => Vouched(<<Last.conn, Last.model, Last.actual>>, Last.at)

\* What is known, or about to be, was given by a source or a verifier.
Known == evidence \subseteq All /\ \A p \in Process : refresh[p].found \subseteq All

Sound == Types /\ Doubt /\ Attest /\ Known

\* Evidence is only ever added to.
Grows == All \subseteq All'

LEMMA VouchedGrows ==
  ASSUME Grows, NEW key, NEW at, Vouched(key, at) PROVE Vouched(key, at)'
BY DEF Grows, Vouched, Fresh, Key

LEMMA CheckpointType ==
  ASSUME Types, NEW state \in {"PREPARED", "IN_PROGRESS", "TERMINAL"}, NEW report \in Reports \cup {None}
  PROVE  /\ Checkpoint(state, report) \in Checkpoints /\ Checkpoint(state, report) # None
         /\ Checkpoint(state, report).state = state /\ Checkpoint(state, report).report = report
<1>1. Checkpoint(state, report) \in Checkpoints
  BY DEF Types, RunTypes, Runs, Checkpoint, Checkpoints
<1> QED
  BY <1>1 DEF Types, Settings, Checkpoint

LEMMA InitSound == Settings /\ Init => RunTypes /\ Doubt /\ Attest
<1> SUFFICES ASSUME Settings, Init PROVE RunTypes /\ Doubt /\ Attest
  OBVIOUS
<1>1. checkpoint = None /\ run.pc = "idle" /\ run \in Runs /\ dispatches = <<>>
  BY NoRunType DEF Init
<1> QED
  BY <1>1 DEF Init, RunTypes, Doubt, Attest, Clear, NothingAfterDoubt, Idlers, Invoking

LEMMA BesideKeeps ==
  ASSUME Sound, Grows, UNCHANGED <<scene, checkpoint, run, dispatches>>,
         clock' \in {clock, clock + 1}, input' \in {input, input + 1}
  PROVE  RunTypes' /\ Doubt' /\ Attest'
<1>1. RunTypes'
  BY DEF Sound, Types, RunTypes
<1>2. Doubt'
  BY DEF Sound, Doubt, Clear, Last, NothingAfterDoubt, Ends
<1>3. Attest'
  BY VouchedGrows DEF Sound, Attest, Last, Choice
<1> QED
  BY <1>1, <1>2, <1>3

\* A call that ends without a word leaves everything else as it is.
LEMMA StopKeeps ==
  ASSUME Sound, Grows, run' = NoRun,
         UNCHANGED <<scene, clock, input, checkpoint, dispatches>>
  PROVE  RunTypes' /\ Doubt' /\ Attest'
<1>1. RunTypes'
  BY NoRunType DEF Sound, Types, RunTypes, Invoking
<1>2. Doubt'
  BY NoRunType DEF Sound, Doubt, Clear, Last, NothingAfterDoubt, Ends, Invoking
<1>3. Attest'
  BY NoRunType, VouchedGrows DEF Sound, Attest, Last, Idlers
<1> QED
  BY <1>1, <1>2, <1>3

LEMMA StartKeeps == ASSUME Sound, Grows, Start PROVE RunTypes' /\ Doubt' /\ Attest'
<1>1. CASE Executable
  <2>1. run' = [NoRun EXCEPT !.pc = "planning", !.at = clock, !.hash = input]
        /\ UNCHANGED <<scene, clock, input, checkpoint, dispatches>>
    BY <1>1 DEF Start
  <2>2. run' \in Runs /\ run'.pc = "planning"
    <3>1. NoRun \in Runs /\ clock \in Nat /\ input \in Nat
      BY NoRunType DEF Sound, Types, RunTypes
    <3> QED
      BY <2>1, <3>1 DEF Runs, Idlers
  <2>3. checkpoint = None \/ checkpoint.state = "PREPARED"
    BY <1>1 DEF Executable
  <2>4. RunTypes'
    BY <2>1, <2>2 DEF Sound, Types, RunTypes, Invoking
  <2>5. Doubt'
    BY <2>1, <2>2, <2>3 DEF Sound, Doubt, Clear, Last, NothingAfterDoubt, Ends, Invoking
  <2>6. Attest'
    BY <2>1, <2>2, <2>3, VouchedGrows DEF Sound, Attest, Last, Idlers
  <2> QED
    BY <2>4, <2>5, <2>6
<1>2. CASE ~Executable
  BY <1>2, BesideKeeps DEF Start
<1> QED
  BY <1>1, <1>2

LEMMA PlanKeeps == ASSUME Sound, Grows, Plan PROVE RunTypes' /\ Doubt' /\ Attest'
<1>1. run.pc = "planning" /\ UNCHANGED <<scene, clock, input, checkpoint, dispatches, evidence>>
  BY DEF Plan, refreshing
<1>2. CASE run' = NoRun
  BY <1>1, <1>2, StopKeeps
<1>3. ASSUME NEW route \in Routes(Catalogued),
             run' = [run EXCEPT !.pc = "next", !.choices = route,
                        !.aliases = {Key(row) : row \in Fresh(evidence, run.at)}]
      PROVE  RunTypes' /\ Doubt' /\ Attest'
  <2>1. {Key(row) : row \in Fresh(evidence, run.at)} \in SUBSET Keys
    BY KeyType DEF Fresh, Sound, Types, EvidenceTypes
  <2>2. route \in Seq(Conn \X Model)
    BY RouteTypes DEF Sound
  <2>3. /\ run' \in Runs /\ run'.pc = "next" /\ run'.at = run.at
        /\ run'.aliases = {Key(row) : row \in Fresh(evidence, run.at)}
    BY <1>3, <2>1, <2>2 DEF Sound, Types, RunTypes, Runs
  <2>4. RunTypes'
    BY <1>1, <2>3 DEF Sound, Types, RunTypes, Invoking
  <2>5. Doubt'
    BY <1>1, <2>3 DEF Sound, Doubt, Clear, Last, NothingAfterDoubt, Ends, Invoking
  <2>6. \A key \in run'.aliases : Vouched(key, run.at)
    BY <2>3 DEF Fresh, Vouched, Sound, Known
  <2>7. Attest'
    BY <1>1, <2>3, <2>6, VouchedGrows DEF Sound, Attest, Last
  <2> QED
    BY <2>4, <2>5, <2>7
<1> QED
  BY <1>2, <1>3 DEF Plan

LEMMA ClaimKeeps == ASSUME Sound, Grows, Claim PROVE RunTypes' /\ Doubt' /\ Attest'
<1>1. /\ run.pc = "next" /\ run.i <= Len(run.choices) /\ run \in Runs
      /\ run' = [run EXCEPT !.pc = "claimed"]
      /\ checkpoint' = Checkpoint("IN_PROGRESS", None)
      /\ UNCHANGED <<scene, clock, input, dispatches>>
  BY DEF Claim, Claimed, Sound, Types, RunTypes
<1>2. /\ run' \in Runs /\ run'.pc = "claimed" /\ run'.at = run.at /\ run'.aliases = run.aliases
      /\ run'.i = run.i /\ run'.choices = run.choices
  BY <1>1 DEF Runs, Invoking
<1>3. /\ checkpoint' \in Checkpoints /\ checkpoint' # None
      /\ checkpoint'.state = "IN_PROGRESS" /\ checkpoint'.report = None
  BY <1>1, CheckpointType DEF Sound
<1>4. None # "COMPLETED"
  BY DEF Sound, Types, Settings, Reports
<1>5. RunTypes'
  BY <1>1, <1>2, <1>3 DEF Sound, Types, RunTypes
<1>6. Doubt'
  BY <1>1, <1>2, <1>3 DEF Sound, Doubt, Clear, Last, NothingAfterDoubt, Ends
<1>7. Attest'
  BY <1>1, <1>2, <1>3, <1>4, VouchedGrows DEF Sound, Attest, Last, Idlers
<1> QED
  BY <1>5, <1>6, <1>7

\* A failure that is not in doubt opens the way to the next choice.
LEMMA FailureKeeps ==
  ASSUME Sound, Grows, NEW class, run' = AfterFailure(class), run.pc \in {"claimed", "answered"},
         class \in {"TIMEOUT", "PROTOCOL", "UNKNOWN"} \/ Clear,
         UNCHANGED <<scene, clock, input, checkpoint, dispatches>>
  PROVE  RunTypes' /\ Doubt' /\ Attest'
<1>1. CASE run' = NoRun
  BY <1>1, StopKeeps
<1>2. CASE run' = [run EXCEPT !.pc = "failed"] /\ class \notin {"TIMEOUT", "PROTOCOL", "UNKNOWN"}
  <2>1. run' \in Runs /\ run'.pc = "failed" /\ run'.at = run.at /\ run'.aliases = run.aliases
    BY <1>2 DEF Sound, Types, RunTypes, Runs
  <2>2. RunTypes'
    BY <2>1 DEF Sound, Types, RunTypes, Invoking
  <2>3. Doubt'
    BY <1>2, <2>1 DEF Sound, Doubt, Clear, Last, NothingAfterDoubt, Ends, Invoking
  <2>4. Attest'
    BY <2>1, VouchedGrows DEF Sound, Attest, Last, Idlers
  <2> QED
    BY <2>2, <2>3, <2>4
<1> QED
  BY <1>1, <1>2, AfterFailureType DEF Sound

LEMMA SendKeeps == ASSUME Sound, Grows, Send PROVE RunTypes' /\ Doubt' /\ Attest'
<1>1. /\ run.pc = "claimed" /\ run \in Runs /\ run.i <= Len(run.choices) /\ Clear
      /\ UNCHANGED <<scene, clock, input, checkpoint>>
  BY DEF Send, Sound, Doubt, Types, RunTypes, Invoking
<1>2. ASSUME NEW class, run' = AfterFailure(class), UNCHANGED dispatches
      PROVE  RunTypes' /\ Doubt' /\ Attest'
  BY <1>1, <1>2, FailureKeeps
<1>3. CASE /\ run' = [run EXCEPT !.pc = "sent"]
           /\ dispatches' = Append(dispatches,
                [conn |-> Choice[1], model |-> Choice[2], at |-> run.at,
                                     actual |-> None, end |-> "PENDING"])
  <2> DEFINE d == [conn |-> Choice[1], model |-> Choice[2], at |-> run.at,
                   actual |-> None, end |-> "PENDING"]
             n == Len(dispatches)
  <2>1. /\ run' \in Runs /\ run'.pc = "sent" /\ run'.at = run.at /\ run'.aliases = run.aliases
        /\ run'.i = run.i /\ run'.choices = run.choices
    BY <1>1, <1>3 DEF Runs, Invoking
  <2>2. d \in Dispatches
    BY <1>1, ChoiceType, EndsTypes DEF Sound, Dispatches, Runs
  <2>3. d.conn = Choice[1] /\ d.model = Choice[2] /\ d.at = run.at
    OBVIOUS
  <2> HIDE DEF d
  <2>4. dispatches \in Seq(Dispatches) /\ dispatches' = Append(dispatches, d)
    BY <1>3 DEF Sound, Types, RunTypes, d
  <2>5. /\ dispatches' \in Seq(Dispatches) /\ Len(dispatches') = n + 1 /\ dispatches' # <<>>
        /\ Last' = d /\ \A k \in 1 .. n : dispatches'[k] = dispatches[k]
    BY <2>2, <2>4 DEF Last
  <2>6. Choice' = Choice
    BY <2>1 DEF Choice
  <2>7. RunTypes'
    BY <1>1, <2>1, <2>5 DEF Sound, Types, RunTypes
  <2>8. NothingAfterDoubt'
    <3>1. \A k \in 1 .. n : dispatches[k].end \in Definite
      BY <1>1, <2>4 DEF Sound, Doubt, NothingAfterDoubt, Ends, Clear, Last, Definite
    <3> QED
      BY <2>4, <2>5, <3>1 DEF NothingAfterDoubt, Ends, Definite
  <2>9. Doubt'
    BY <1>1, <2>1, <2>5, <2>8 DEF Sound, Doubt, Invoking
  <2>10. Attest'
    BY <1>1, <2>1, <2>3, <2>5, <2>6, VouchedGrows DEF Sound, Attest, Doubt, Idlers, Invoking
  <2> QED
    BY <2>7, <2>9, <2>10
<1> QED
  BY <1>2, <1>3 DEF Send

LEMMA ReceiveKeeps ==
  ASSUME Sound, Grows, NEW end \in DOMAIN ErrorClass, end # "UNREADABLE",
         NEW actual \in Model \cup {None}, Receive(end, actual)
  PROVE  RunTypes' /\ Doubt' /\ Attest'
<1>1. /\ run.pc = "sent" /\ run \in Runs /\ Ended(end, actual) /\ dispatches # <<>>
      /\ run.i <= Len(run.choices) /\ dispatches \in Seq(Dispatches)
      /\ checkpoint # None /\ checkpoint.state = "IN_PROGRESS"
      /\ UNCHANGED <<scene, clock, input, checkpoint>>
  BY DEF Receive, Sound, Types, RunTypes, Doubt, Invoking
<1>2. /\ dispatches' \in Seq(Dispatches) /\ Len(dispatches') = Len(dispatches) /\ dispatches' # <<>>
      /\ \A k \in 1 .. Len(dispatches) - 1 : dispatches'[k] = dispatches[k]
      /\ Last'.end = end /\ Last'.actual = actual
      /\ Last'.conn = Last.conn /\ Last'.model = Last.model /\ Last'.at = Last.at
  BY <1>1, EndedTypes, EndsTypes DEF Sound, Types, Last
<1>3. NothingAfterDoubt'
  BY <1>2 DEF Sound, Doubt, NothingAfterDoubt, Ends
<1>4. checkpoint.report # "COMPLETED"
  BY <1>1 DEF Sound, Attest
<1>5. CASE end = "ANSWERED"
  <2>1. run' = [run EXCEPT !.pc = "answered", !.actual = actual]
    BY <1>5 DEF Receive
  <2>2. /\ run' \in Runs /\ run'.pc = "answered" /\ run'.at = run.at /\ run'.aliases = run.aliases
        /\ run'.i = run.i /\ run'.choices = run.choices /\ run'.actual = actual
    BY <1>1, <2>1 DEF Runs, Invoking
  <2>3. Choice' = Choice
    BY <2>2 DEF Choice
  <2>4. RunTypes'
    BY <1>1, <1>2, <2>2 DEF Sound, Types, RunTypes
  <2>5. Doubt'
    BY <1>1, <1>2, <1>3, <2>2 DEF Doubt
  <2>6. Attest'
    BY <1>1, <1>2, <1>4, <1>5, <2>2, <2>3, VouchedGrows DEF Sound, Attest, Idlers
  <2> QED
    BY <2>4, <2>5, <2>6
<1>6. CASE end # "ANSWERED"
  <2>1. run' = AfterFailure(ErrorClass[end])
    BY <1>6 DEF Receive
  <2>2. CASE run' = NoRun
    <3>1. RunTypes'
      BY <1>1, <1>2, <2>2, NoRunType DEF Sound, Types, RunTypes, Invoking
    <3>2. Doubt'
      BY <1>1, <1>2, <1>3, <2>2, NoRunType DEF Doubt, Invoking
    <3>3. Attest'
      BY <1>1, <1>4, <2>2, NoRunType DEF Attest, Idlers
    <3> QED
      BY <3>1, <3>2, <3>3
  <2>3. CASE /\ run' = [run EXCEPT !.pc = "failed"]
             /\ ErrorClass[end] \notin {"TIMEOUT", "PROTOCOL", "UNKNOWN"}
    <3>1. run' \in Runs /\ run'.pc = "failed" /\ run'.at = run.at /\ run'.aliases = run.aliases
      BY <1>1, <2>3 DEF Runs
    <3>2. end \in Definite
      BY <1>6, <2>3, EndsTypes DEF Definite
    <3>3. RunTypes'
      BY <1>1, <1>2, <3>1 DEF Sound, Types, RunTypes, Invoking
    <3>4. Doubt'
      BY <1>1, <1>2, <1>3, <3>1, <3>2 DEF Doubt, Clear, Invoking
    <3>5. Attest'
      BY <1>1, <1>4, <3>1, VouchedGrows DEF Sound, Attest, Idlers
    <3> QED
      BY <3>3, <3>4, <3>5
  <2> QED
    BY <2>1, <2>2, <2>3, AfterFailureType DEF Sound
<1> QED
  BY <1>5, <1>6

\* A call that concludes leaves a checkpoint from which none goes on.
LEMMA ConcludeKeeps ==
  ASSUME Sound, Grows, NEW report \in Reports, Conclude(report),
         UNCHANGED <<scene, clock, input, dispatches>>,
         report = "COMPLETED" =>
           /\ dispatches # <<>> /\ Last.end = "ANSWERED"
           /\ Last.actual # Last.model => Vouched(<<Last.conn, Last.model, Last.actual>>, Last.at)
  PROVE  RunTypes' /\ Doubt' /\ Attest'
<1>1. run' = NoRun /\ checkpoint' = Checkpoint("TERMINAL", report)
  BY DEF Conclude
<1>2. /\ checkpoint' \in Checkpoints /\ checkpoint' # None
      /\ checkpoint'.state = "TERMINAL" /\ checkpoint'.report = report
  BY <1>1, CheckpointType DEF Sound
<1>3. RunTypes'
  BY <1>1, <1>2, NoRunType DEF Sound, Types, RunTypes, Invoking
<1>4. Doubt'
  BY <1>1, <1>2, NoRunType DEF Sound, Doubt, NothingAfterDoubt, Ends, Invoking
<1>5. Attest'
  <2>1. Last' = Last
    BY DEF Last
  <2>2. report = "COMPLETED" /\ Last.actual # Last.model
          => Vouched(<<Last.conn, Last.model, Last.actual>>, Last.at)'
    BY <2>1, VouchedGrows
  <2> QED
    BY <1>1, <1>2, <2>1, <2>2, NoRunType DEF Attest, Idlers
<1> QED
  BY <1>3, <1>4, <1>5

LEMMA JudgeKeeps == ASSUME Sound, Grows, Judge PROVE RunTypes' /\ Doubt' /\ Attest'
<1>1. /\ run.pc = "answered" /\ run \in Runs /\ run.i <= Len(run.choices)
      /\ dispatches # <<>> /\ dispatches \in Seq(Dispatches)
      /\ checkpoint # None /\ checkpoint.state = "IN_PROGRESS"
      /\ Last.end = "ANSWERED" /\ Last.actual = run.actual /\ Last.at = run.at
      /\ Last.conn = Choice[1] /\ Last.model = Choice[2]
      /\ UNCHANGED <<scene, clock, input>>
  BY DEF Judge, Sound, Types, RunTypes, Doubt, Attest, Invoking
<1>2. CASE Verdict = None
  <2>1. run' = [run EXCEPT !.pc = "failed"] /\ Ended("REJECTED", run.actual) /\ UNCHANGED checkpoint
    BY <1>2 DEF Judge
  <2>2. run' \in Runs /\ run'.pc = "failed" /\ run'.at = run.at /\ run'.aliases = run.aliases
    BY <1>1, <2>1 DEF Runs
  <2>3. run.actual \in Model \cup {None}
    BY <1>1 DEF Runs
  <2>4. /\ dispatches' \in Seq(Dispatches) /\ Len(dispatches') = Len(dispatches) /\ dispatches' # <<>>
        /\ \A k \in 1 .. Len(dispatches) - 1 : dispatches'[k] = dispatches[k]
        /\ Last'.end = "REJECTED"
    BY <1>1, <2>1, <2>3, EndedTypes, EndsTypes DEF Sound, Types, Last
  <2>5. RunTypes'
    BY <1>1, <2>1, <2>2, <2>4 DEF Sound, Types, RunTypes, Invoking
  <2>6. Doubt'
    <3>1. NothingAfterDoubt'
      BY <2>4 DEF Sound, Doubt, NothingAfterDoubt, Ends
    <3> QED
      BY <1>1, <2>1, <2>2, <2>4, <3>1 DEF Doubt, Clear, Definite, Invoking
  <2>7. Attest'
    BY <1>1, <2>1, <2>2, VouchedGrows DEF Sound, Attest, Idlers
  <2> QED
    BY <2>5, <2>6, <2>7
<1>3. CASE Verdict # None
  <2>1. Conclude(Verdict) /\ UNCHANGED dispatches
    BY <1>3 DEF Judge
  <2>2. Verdict \in Reports
    BY <1>3 DEF Verdict, Reports
  <2>3. ASSUME Verdict = "COMPLETED", Last.actual # Last.model
        PROVE  Vouched(<<Last.conn, Last.model, Last.actual>>, Last.at)
    <3>1. Attested
      BY <2>3 DEF Verdict
    <3>2. <<Choice[1], Choice[2], run.actual>> \in run.aliases
      BY <1>1, <2>3, <3>1 DEF Attested
    <3>3. run.pc \notin Idlers
      BY <1>1 DEF Idlers
    <3> QED
      BY <1>1, <3>2, <3>3 DEF Sound, Attest
  <2> QED
    BY <1>1, <2>1, <2>2, <2>3, ConcludeKeeps
<1> QED
  BY <1>2, <1>3

LEMMA FallBackKeeps == ASSUME Sound, Grows, FallBack PROVE RunTypes' /\ Doubt' /\ Attest'
<1>1. /\ run.pc = "failed" /\ run \in Runs /\ Clear
      /\ run' = [run EXCEPT !.pc = "next", !.i = @ + 1, !.actual = None]
      /\ checkpoint' = Checkpoint("PREPARED", None)
      /\ UNCHANGED <<scene, clock, input, dispatches>>
  BY DEF FallBack, Sound, Types, RunTypes, Doubt
<1>2. run' \in Runs /\ run'.pc = "next" /\ run'.at = run.at /\ run'.aliases = run.aliases
  <2>1. run.i + 1 \in Nat \ {0}
    BY <1>1 DEF Runs
  <2> QED
    BY <1>1, <2>1 DEF Runs
<1>3. /\ checkpoint' \in Checkpoints /\ checkpoint' # None
      /\ checkpoint'.state = "PREPARED" /\ checkpoint'.report = None
  BY <1>1, CheckpointType DEF Sound
<1>4. None # "COMPLETED"
  BY DEF Sound, Types, Settings, Reports
<1>5. RunTypes'
  BY <1>1, <1>2, <1>3 DEF Sound, Types, RunTypes, Invoking
<1>6. Doubt'
  BY <1>1, <1>2, <1>3 DEF Sound, Doubt, Clear, Last, NothingAfterDoubt, Ends, Invoking
<1>7. Attest'
  BY <1>1, <1>2, <1>3, <1>4, VouchedGrows DEF Sound, Attest, Idlers
<1> QED
  BY <1>5, <1>6, <1>7

LEMMA ExhaustedKeeps == ASSUME Sound, Grows, Exhausted PROVE RunTypes' /\ Doubt' /\ Attest'
BY ConcludeKeeps DEF Exhausted, Reports

LEMMA LockTimesOutKeeps ==
  ASSUME Sound, Grows, NEW p \in Process, LockTimesOut(p) PROVE RunTypes' /\ Doubt' /\ Attest'
<1>1. CASE p = "execute"
  BY <1>1, StopKeeps DEF LockTimesOut
<1>2. CASE p # "execute"
  BY <1>2, BesideKeeps DEF LockTimesOut
<1> QED
  BY <1>1, <1>2

LEMMA DiesKeeps ==
  ASSUME Sound, Grows, NEW p \in Process, Dies(p) PROVE RunTypes' /\ Doubt' /\ Attest'
<1>1. UNCHANGED <<scene, clock, input, checkpoint>>
  BY DEF Dies
<1>2. CASE p # "execute"
  BY <1>1, <1>2, BesideKeeps DEF Dies
<1>3. CASE p = "execute" /\ run.pc # "sent"
  BY <1>1, <1>3, StopKeeps DEF Dies
<1>4. CASE p = "execute" /\ run.pc = "sent"
  <2>1. Ended("LOST", None) /\ run' = NoRun
    BY <1>4 DEF Dies
  <2>2. /\ dispatches # <<>> /\ dispatches \in Seq(Dispatches) /\ checkpoint # None
        /\ checkpoint.state = "IN_PROGRESS" /\ checkpoint.report # "COMPLETED"
    BY <1>4 DEF Sound, Types, RunTypes, Doubt, Attest, Invoking
  <2>3. /\ dispatches' \in Seq(Dispatches) /\ Len(dispatches') = Len(dispatches) /\ dispatches' # <<>>
        /\ \A k \in 1 .. Len(dispatches) - 1 : dispatches'[k] = dispatches[k]
    BY <2>1, <2>2, EndedTypes, EndsTypes DEF Sound, Types
  <2>4. RunTypes'
    BY <1>1, <2>1, <2>3, NoRunType DEF Sound, Types, RunTypes, Invoking
  <2>5. Doubt'
    <3>1. NothingAfterDoubt'
      BY <2>3 DEF Sound, Doubt, NothingAfterDoubt, Ends
    <3> QED
      BY <1>1, <2>1, <2>2, <3>1, NoRunType DEF Doubt, Invoking
  <2>6. Attest'
    BY <1>1, <2>1, <2>2, NoRunType DEF Attest, Idlers
  <2> QED
    BY <2>4, <2>5, <2>6
<1> QED
  BY <1>2, <1>3, <1>4

-----------------------------------------------------------------------------
(***************************************************************************)
(* The evidence. One process works under the lock; what it has not kept    *)
(* yet are the last contacts of their sources, and its marks are ahead of  *)
(* the ledger.                                                             *)
(***************************************************************************)
Active(p) == refresh[p].pc \in Busy

InOrder(s, k) ==
  LET c == contacts[s][k] IN
  /\ c.kept => c.at + MinRefresh <= ledger[s] /\ c.by = None
  /\ c.by # None =>
       /\ Active(c.by) /\ s \notin refresh[c.by].todo /\ k = Len(contacts[s])
       /\ c.at + MinRefresh <= refresh[c.by].marks[s]

Spared ==
  /\ \A p, q \in Process : Active(p) /\ Active(q) => p = q
  /\ \A p \in Process : Active(p) => \A s \in Source : ledger[s] <= refresh[p].marks[s]
  /\ \A s \in Source : \A k \in DOMAIN contacts[s] : InOrder(s, k)
  /\ SourcesAreSpared

\* A call refreshes before it plans, and not otherwise.
Paired == refresh["execute"].pc # "idle" => run.pc = "planning"

IInv == Sound /\ Spared /\ Paired

Tended == EvidenceTypes /\ Known /\ Spared /\ Paired

LEMMA InitTended == Settings /\ Init => Tended
<1> SUFFICES ASSUME Settings, Init PROVE Tended
  OBVIOUS
<1>1. /\ refresh = [p \in Process |-> NoRefresh] /\ contacts = [s \in Source |-> <<>>]
      /\ ledger = [s \in Source |-> 0] /\ evidence = {} /\ accepted = {}
  BY DEF Init
<1>2. NoRefresh \in Refreshes /\ NoRefresh.pc = "idle" /\ NoRefresh.found = {}
  BY NoRunType DEF NoRefresh
<1>3. "execute" \in Process
  BY DEF Process
<1>4. EvidenceTypes
  BY <1>1, <1>2 DEF EvidenceTypes
<1>5. Known
  BY <1>1, <1>2 DEF Known
<1>6. Spared
  BY <1>1, <1>2 DEF Spared, Active, Busy, SourcesAreSpared
<1> QED
  BY <1>1, <1>2, <1>3, <1>4, <1>5, <1>6 DEF Tended, Paired

LEMMA ContactType ==
  ASSUME EvidenceTypes, NEW s \in Source, NEW k \in DOMAIN contacts[s]
  PROVE  /\ contacts[s] \in Seq(Contacts) /\ k \in 1 .. Len(contacts[s])
         /\ contacts[s][k] \in Contacts /\ contacts[s][k].by \in Process \cup {None}
         /\ contacts[s][k].at \in Nat
<1>1. contacts[s] \in Seq(Contacts)
  BY DEF EvidenceTypes
<1>2. k \in 1 .. Len(contacts[s]) /\ contacts[s][k] \in Contacts
  BY <1>1
<1> QED
  BY <1>1, <1>2 DEF Contacts

\* Contacts and acceptances are never forgotten.
LEMMA RemembersGrows ==
  ASSUME accepted \subseteq accepted',
         \A s \in Source : \A k \in DOMAIN contacts[s] :
           /\ k \in DOMAIN contacts'[s]
           /\ contacts'[s][k].rows = contacts[s][k].rows /\ contacts'[s][k].at = contacts[s][k].at
  PROVE  Grows
<1>1. \A s \in Source : Given(s) \subseteq Given(s)'
  BY DEF Given, Observed
<1> QED
  BY <1>1 DEF Grows, All

LEMMA SameGrows == UNCHANGED <<accepted, contacts>> => Grows
BY DEF Grows, All, Given

\* Steps of the request alone.
LEMMA QuietKeeps ==
  ASSUME IInv, UNCHANGED refreshing,
         refresh["execute"].pc # "idle" /\ run.pc = "planning" => run'.pc = "planning"
  PROVE  Tended' /\ Grows
<1>1. UNCHANGED <<evidence, ledger, refresh, contacts, accepted>>
  BY DEF refreshing
<1>2. EvidenceTypes'
  BY <1>1 DEF IInv, Sound, Types, EvidenceTypes
<1>3. Known'
  BY <1>1 DEF IInv, Sound, Known, All, Given
<1>4. Spared'
  BY <1>1 DEF IInv, Spared, InOrder, Active, SourcesAreSpared
<1>5. Paired'
  BY <1>1 DEF IInv, Paired
<1> QED
  BY <1>1, <1>2, <1>3, <1>4, <1>5, SameGrows DEF Tended

\* A process that does not work under the lock begins to wait, or stops.
LEMMA WaitingKeeps ==
  ASSUME IInv, NEW p \in Process, NEW r \in Refreshes, ~Active(p), r.pc \notin Busy,
         r.found \subseteq All, refresh' = [refresh EXCEPT ![p] = r],
         UNCHANGED <<evidence, ledger, contacts, accepted>>,
         IF p = "execute" THEN r.pc # "idle" => run'.pc = "planning" ELSE run' = run
  PROVE  Tended' /\ Grows
<1>1. \A q \in Process : refresh'[q] = IF q = p THEN r ELSE refresh[q]
  BY DEF IInv, Sound, Types, EvidenceTypes
<1>2. EvidenceTypes'
  BY DEF IInv, Sound, Types, EvidenceTypes
<1>3. Known'
  BY <1>1 DEF IInv, Sound, Known, All, Given
<1>4. \A q \in Process : Active(q)' <=> Active(q)
  BY <1>1 DEF Active
<1>5. Spared'
  <2>1. \A s \in Source : \A k \in DOMAIN contacts[s] : contacts[s][k].by \in Process \cup {None}
    BY ContactType DEF IInv, Sound, Types
  <2>2. \A q \in Process : Active(q) => refresh'[q] = refresh[q]
    BY <1>1
  <2> QED
    BY <1>4, <2>1, <2>2 DEF IInv, Spared, InOrder, SourcesAreSpared
<1>6. Paired'
  BY <1>1 DEF IInv, Paired, Process
<1> QED
  BY <1>2, <1>3, <1>5, <1>6, SameGrows DEF Tended

LEMMA LockKeeps == ASSUME IInv, NEW p \in Process, Lock(p) PROVE Tended' /\ Grows
<1> DEFINE r == [pc |-> "working", at |-> IF p = "execute" THEN run.at ELSE clock,
                 todo |-> Source, marks |-> ledger, found |-> {}]
<1>1. /\ refresh[p].pc = "waiting" /\ LockFree(p) /\ refresh' = [refresh EXCEPT ![p] = r]
      /\ UNCHANGED <<evidence, ledger, contacts, accepted, run>>
  BY DEF Lock, orchestration
<1>2. r \in Refreshes
  BY DEF IInv, Sound, Types, RunTypes, EvidenceTypes, Runs, Refreshes, Busy
<1>3. r.pc = "working" /\ r.marks = ledger /\ r.found = {}
  OBVIOUS
<1> HIDE DEF r
<1>4. \A q \in Process : refresh'[q] = IF q = p THEN r ELSE refresh[q]
  BY <1>1 DEF IInv, Sound, Types, EvidenceTypes
<1>5. \A q \in Process : ~Active(q)
  BY <1>1 DEF LockFree, Active, Busy
<1>6. EvidenceTypes'
  BY <1>1, <1>2 DEF IInv, Sound, Types, EvidenceTypes
<1>7. Known'
  BY <1>1, <1>3, <1>4 DEF IInv, Sound, Known, All, Given
<1>8. \A s \in Source : \A k \in DOMAIN contacts[s] : contacts[s][k].by = None
  BY <1>5, ContactType DEF IInv, Sound, Types, Spared, InOrder
<1>9. Spared'
  <2>1. \A q \in Process : Active(q)' <=> q = p
    BY <1>3, <1>4, <1>5 DEF Active, Busy
  <2>2. \A s \in Source : ledger[s] \in Nat
    BY DEF IInv, Sound, Types, EvidenceTypes
  <2> QED
    BY <1>1, <1>3, <1>4, <1>8, <2>1, <2>2 DEF IInv, Spared, InOrder, SourcesAreSpared
<1>10. Paired'
  BY <1>1, <1>4 DEF IInv, Paired, Process
<1> QED
  BY <1>1, <1>6, <1>7, <1>9, <1>10, SameGrows DEF Tended

\* Steps of the process under the lock that contact no source.
LEMMA WorkingKeeps ==
  ASSUME IInv, NEW p \in Process, Active(p), NEW r \in Refreshes, r.pc \in Busy,
         r.found = refresh[p].found, r.marks = refresh[p].marks, r.todo \subseteq refresh[p].todo,
         refresh' = [refresh EXCEPT ![p] = r],
         evidence' \in SUBSET Rows, evidence' \subseteq evidence \cup refresh[p].found,
         UNCHANGED <<ledger, contacts, accepted, run>>
  PROVE  Tended' /\ Grows
<1>1. \A q \in Process : refresh'[q] = IF q = p THEN r ELSE refresh[q]
  BY DEF IInv, Sound, Types, EvidenceTypes
<1>2. EvidenceTypes'
  BY DEF IInv, Sound, Types, EvidenceTypes
<1>3. Known'
  BY <1>1 DEF IInv, Sound, Known, All, Given
<1>4. \A q \in Process : Active(q)' <=> Active(q)
  BY <1>1 DEF Active
<1>5. Spared'
  <2>1. \A s \in Source : \A k \in DOMAIN contacts[s] : contacts[s][k].by \in Process \cup {None}
    BY ContactType DEF IInv, Sound, Types
  <2>2. \A q \in Process : refresh'[q].marks = refresh[q].marks /\ refresh'[q].todo \subseteq refresh[q].todo
    BY <1>1
  <2> QED
    BY <1>4, <2>1, <2>2 DEF IInv, Spared, InOrder, SourcesAreSpared
<1>6. Paired'
  BY <1>1 DEF IInv, Paired, Process, Active, Busy
<1> QED
  BY <1>2, <1>3, <1>5, <1>6, SameGrows DEF Tended

LEMMA SkipKeeps ==
  ASSUME IInv, NEW p \in Process, NEW s \in Source, SkipSource(p, s) PROVE Tended' /\ Grows
<1> DEFINE r == [refresh[p] EXCEPT !.todo = @ \ {s}]
<1>1. /\ refresh[p].pc = "working" /\ refresh[p] \in Refreshes
      /\ refresh' = [refresh EXCEPT ![p] = r]
      /\ UNCHANGED <<evidence, ledger, contacts, accepted, run>>
  BY DEF SkipSource, orchestration, IInv, Sound, Types, EvidenceTypes
<1>2. /\ r \in Refreshes /\ r.pc = "working" /\ r.found = refresh[p].found
      /\ r.marks = refresh[p].marks /\ r.todo \subseteq refresh[p].todo
  BY <1>1 DEF Refreshes
<1> HIDE DEF r
<1>3. Active(p) /\ r.pc \in Busy
  BY <1>1, <1>2 DEF Active, Busy
<1>4. evidence' \in SUBSET Rows
  BY <1>1 DEF IInv, Sound, Types, EvidenceTypes
<1> QED
  BY <1>1, <1>2, <1>3, <1>4, WorkingKeeps

LEMMA MergeKeeps == ASSUME IInv, NEW p \in Process, MergeEvidence(p) PROVE Tended' /\ Grows
<1> DEFINE r == [refresh[p] EXCEPT !.pc = "marking"]
<1>1. /\ refresh[p].pc = "working" /\ refresh[p] \in Refreshes
      /\ refresh' = [refresh EXCEPT ![p] = r]
      /\ UNCHANGED <<ledger, contacts, accepted, run>>
  BY DEF MergeEvidence, orchestration, IInv, Sound, Types, EvidenceTypes
<1>2. /\ r \in Refreshes /\ r.pc = "marking" /\ r.found = refresh[p].found
      /\ r.marks = refresh[p].marks /\ r.todo = refresh[p].todo
  BY <1>1 DEF Refreshes, Busy
<1> HIDE DEF r
<1>3. Active(p) /\ r.pc \in Busy
  BY <1>1, <1>2 DEF Active, Busy
<1>4. evidence' \subseteq evidence \cup refresh[p].found
  BY DEF MergeEvidence, Merged, Fresh
<1>5. evidence' \in SUBSET Rows
  BY <1>1, <1>4 DEF IInv, Sound, Types, EvidenceTypes, Refreshes
<1> QED
  BY <1>1, <1>2, <1>3, <1>4, <1>5, WorkingKeeps

LEMMA ContactKeeps ==
  ASSUME IInv, NEW p \in Process, NEW s \in Source, NEW rows \in Yield, Contact(p, s, rows)
  PROVE  Tended' /\ Grows
<1> DEFINE at == refresh[p].at
           next == refresh[p].at + MinRefresh
           seen == Observed(rows, at)
           r == [refresh[p] EXCEPT !.todo = @ \ {s}, !.marks[s] = next, !.found = @ \cup seen]
           c == [at |-> at, by |-> p, kept |-> FALSE, rows |-> rows]
           n == Len(contacts[s])
<1>1. /\ refresh[p].pc = "working" /\ refresh[p] \in Refreshes
      /\ s \in refresh[p].todo /\ at >= refresh[p].marks[s]
      /\ refresh' = [refresh EXCEPT ![p] = r]
      /\ contacts' = [contacts EXCEPT ![s] = Append(@, c)]
      /\ UNCHANGED <<evidence, ledger, accepted, run>>
  BY DEF Contact, NextAllowed, orchestration, IInv, Sound, Types, EvidenceTypes
<1>2. /\ at \in Nat /\ next \in Nat /\ next = at + MinRefresh /\ MinRefresh \in Nat
      /\ seen \in SUBSET Rows /\ ledger[s] \in Nat /\ refresh[p].marks[s] \in Nat
  BY <1>1, ObservedTypes DEF IInv, Sound, Types, Settings, EvidenceTypes, Refreshes
<1>3. /\ r \in Refreshes /\ r.pc = "working" /\ r.todo = refresh[p].todo \ {s}
      /\ r.marks = [refresh[p].marks EXCEPT ![s] = next] /\ r.found = refresh[p].found \cup seen
  <2>1. [refresh[p].marks EXCEPT ![s] = next] \in [Source -> Nat]
    BY <1>1, <1>2 DEF Refreshes
  <2> HIDE DEF next, seen
  <2> QED
    BY <1>1, <1>2, <2>1 DEF Refreshes
<1>4. c \in Contacts /\ c.at = at /\ c.by = p /\ c.kept = FALSE /\ c.rows = rows
  BY <1>2 DEF Contacts, IInv, Sound, Types, Settings
<1>5. contacts[s] \in Seq(Contacts) /\ n \in Nat
  BY DEF IInv, Sound, Types, EvidenceTypes
<1> HIDE DEF r, c, at, next
<1>6. \A q \in Process : refresh'[q] = IF q = p THEN r ELSE refresh[q]
  BY <1>1 DEF IInv, Sound, Types, EvidenceTypes
<1>7. /\ contacts' \in [Source -> Seq(Contacts)]
      /\ \A t \in Source : contacts'[t] = IF t = s THEN Append(contacts[s], c) ELSE contacts[t]
  BY <1>1, <1>4, <1>5 DEF IInv, Sound, Types, EvidenceTypes
<1>8. /\ DOMAIN contacts'[s] = 1 .. n + 1 /\ DOMAIN contacts[s] = 1 .. n
      /\ Len(contacts'[s]) = n + 1 /\ contacts'[s][n + 1] = c
      /\ \A k \in 1 .. n : contacts'[s][k] = contacts[s][k]
  BY <1>4, <1>5, <1>7
<1>9. EvidenceTypes'
  BY <1>1, <1>3, <1>7 DEF IInv, Sound, Types, EvidenceTypes
<1>10. Grows
  <2>1. \A t \in Source : \A k \in DOMAIN contacts[t] :
          k \in DOMAIN contacts'[t] /\ contacts'[t][k] = contacts[t][k]
    BY <1>5, <1>7, <1>8
  <2> QED
    BY <1>1, <2>1, RemembersGrows
<1>11. Known'
  <2>1. Observed(rows, at) \subseteq Given(s)'
    BY <1>4, <1>5, <1>8 DEF Given
  <2>2. seen \subseteq All'
    BY <2>1 DEF All
  <2> HIDE DEF seen
  <2> QED
    BY <1>1, <1>3, <1>6, <1>10, <2>2 DEF IInv, Sound, Known, Grows
<1>12. \A q \in Process : Active(q)' <=> Active(q)
  BY <1>1, <1>3, <1>6 DEF Active, Busy
<1>13. Active(p)
  BY <1>1 DEF Active, Busy
<1>14. \A k \in 1 .. n : contacts[s][k].by = None
  <2> SUFFICES ASSUME NEW k \in 1 .. n, contacts[s][k].by # None PROVE FALSE
    OBVIOUS
  <2>1. k \in DOMAIN contacts[s] /\ contacts[s][k].by \in Process
    BY <1>8, ContactType DEF IInv, Sound, Types
  <2>2. Active(contacts[s][k].by) /\ s \notin refresh[contacts[s][k].by].todo
    BY <2>1 DEF IInv, Spared, InOrder
  <2>3. contacts[s][k].by = p
    BY <1>13, <2>1, <2>2 DEF IInv, Spared, InOrder
  <2> QED
    BY <1>1, <2>2, <2>3
<1>15. Spared'
  <2>1. \A p1, q \in Process : Active(p1)' /\ Active(q)' => p1 = q
    BY <1>12 DEF IInv, Spared, InOrder
  <2>2. \A t \in Source : ledger[t] \in Nat /\ refresh[p].marks[t] \in Nat /\ ledger[t] <= refresh[p].marks[t]
    BY <1>1, <1>13 DEF IInv, Spared, Sound, Types, EvidenceTypes, Refreshes
  <2>3. \A t \in Source : refresh[p].marks[t] <= r.marks[t]
    BY <1>1, <1>2, <1>3, <2>2 DEF Refreshes
  <2>4. \A t \in Source : r.marks[t] \in Nat /\ ledger[t] <= r.marks[t]
    BY <1>3, <2>2, <2>3 DEF Refreshes
  <2>5. \A q \in Process : Active(q)' => \A t \in Source : ledger'[t] <= refresh'[q].marks[t]
    BY <1>1, <1>6, <1>12, <2>4 DEF IInv, Spared, InOrder
  <2>6. ASSUME NEW t \in Source, NEW k \in DOMAIN contacts'[t]
        PROVE  InOrder(t, k)'
    <3>1. CASE t = s /\ k = n + 1
      <4>1. r.marks[s] = next
        BY <1>1, <1>3 DEF Refreshes
      <4>2. contacts'[t][k] = c /\ k = Len(contacts'[t])
        BY <1>8, <3>1
      <4>3. Active(p)' /\ t \notin refresh'[p].todo /\ refresh'[p].marks[t] = next
        BY <1>3, <1>6, <1>12, <1>13, <3>1, <4>1
      <4> QED
        BY <1>2, <1>4, <4>2, <4>3 DEF InOrder
    <3>2. CASE t = s /\ k # n + 1
      <4>1. k \in DOMAIN contacts[s] /\ contacts'[t][k] = contacts[s][k] /\ contacts[s][k].by = None
        BY <1>5, <1>8, <1>14, <3>2
      <4> QED
        BY <1>1, <3>2, <4>1 DEF IInv, Spared, InOrder
    <3>3. CASE t # s
      <4>1. contacts'[t] = contacts[t] /\ contacts[t][k].by \in Process \cup {None} /\ contacts[t][k].at \in Nat
        BY <1>7, <3>3, ContactType DEF IInv, Sound, Types
      <4>2. r.marks[t] = refresh[p].marks[t]
        BY <1>1, <1>3, <3>3 DEF Refreshes
      <4>3. \A q \in Process : /\ refresh'[q].marks[t] = refresh[q].marks[t]
                               /\ t \notin refresh[q].todo => t \notin refresh'[q].todo
        BY <1>3, <1>6, <4>2
      <4>4. InOrder(t, k)
        BY <4>1 DEF IInv, Spared
      <4> QED
        BY <1>1, <1>12, <4>1, <4>3, <4>4 DEF InOrder
    <3> QED
      BY <3>1, <3>2, <3>3
  <2>7. SourcesAreSpared'
    <3> SUFFICES ASSUME NEW t \in Source, NEW j \in DOMAIN contacts'[t], NEW k \in DOMAIN contacts'[t],
                        j < k, contacts'[t][j].kept
                 PROVE  contacts'[t][k].at >= contacts'[t][j].at + MinRefresh
      BY DEF SourcesAreSpared
    <3>1. CASE t # s \/ k # n + 1
      <4>1. /\ j \in DOMAIN contacts[t] /\ k \in DOMAIN contacts[t]
            /\ contacts'[t][j] = contacts[t][j] /\ contacts'[t][k] = contacts[t][k]
        BY <1>5, <1>7, <1>8, <3>1
      <4> QED
        BY <4>1 DEF IInv, Spared, SourcesAreSpared
    <3>2. CASE t = s /\ k = n + 1
      <4>1. j \in DOMAIN contacts[s] /\ contacts'[t][j] = contacts[s][j] /\ contacts[s][j].at \in Nat
        BY <1>5, <1>8, <3>2, ContactType DEF IInv, Sound, Types
      <4>2. contacts[s][j].at + MinRefresh <= ledger[s]
        BY <3>2, <4>1 DEF IInv, Spared, InOrder
      <4>3. ledger[s] <= at
        BY <1>1, <1>2, <2>2
      <4>4. contacts'[t][k].at = at
        BY <1>4, <1>8, <3>2
      <4> QED
        BY <1>2, <3>2, <4>1, <4>2, <4>3, <4>4
    <3> QED
      BY <3>1, <3>2
  <2> QED
    BY <2>1, <2>5, <2>6, <2>7 DEF Spared
<1>16. Paired'
  BY <1>1, <1>6 DEF IInv, Paired, Process
<1> QED
  BY <1>9, <1>10, <1>11, <1>15, <1>16 DEF Tended

\* The contacts of a process that has ended, with or without keeping them.
Released(c, p, kept) ==
  IF c.by = p THEN IF kept THEN [c EXCEPT !.by = None, !.kept = TRUE] ELSE [c EXCEPT !.by = None]
  ELSE c

LEMMA ReleasedType ==
  ASSUME NEW c \in Contacts, NEW p, NEW kept \in BOOLEAN
  PROVE  /\ Released(c, p, kept) \in Contacts
         /\ IF c.by = p
            THEN /\ Released(c, p, kept).by = None
                 /\ Released(c, p, kept).kept = (c.kept \/ kept)
                 /\ Released(c, p, kept).at = c.at /\ Released(c, p, kept).rows = c.rows
            ELSE Released(c, p, kept) = c
<1>1. CASE c.by = p /\ kept
  BY <1>1 DEF Released, Contacts
<1>2. CASE c.by = p /\ ~kept
  BY <1>2 DEF Released, Contacts
<1>3. CASE c.by # p
  BY <1>3 DEF Released
<1> QED
  BY <1>1, <1>2, <1>3

LEMMA ReleaseTypes ==
  ASSUME EvidenceTypes, NEW p, NEW kept \in BOOLEAN,
         contacts' = [s \in Source |-> [k \in DOMAIN contacts[s] |-> Released(contacts[s][k], p, kept)]]
  PROVE  /\ contacts' \in [Source -> Seq(Contacts)]
         /\ \A s \in Source :
              /\ DOMAIN contacts'[s] = DOMAIN contacts[s] /\ Len(contacts'[s]) = Len(contacts[s])
              /\ \A k \in DOMAIN contacts[s] : contacts'[s][k] = Released(contacts[s][k], p, kept)
<1>1. ASSUME NEW s \in Source
      PROVE  /\ contacts'[s] \in Seq(Contacts) /\ DOMAIN contacts'[s] = DOMAIN contacts[s]
             /\ Len(contacts'[s]) = Len(contacts[s])
  <2> DEFINE n == Len(contacts[s])
             new == [k \in 1 .. n |-> Released(contacts[s][k], p, kept)]
  <2>1. contacts[s] \in Seq(Contacts) /\ DOMAIN contacts[s] = 1 .. n /\ n \in Nat
    <3>1. contacts[s] \in Seq(Contacts)
      BY DEF EvidenceTypes
    <3> QED
      BY <3>1
  <2>2. contacts'[s] = new
    BY <2>1
  <2>3. \A k \in 1 .. n : Released(contacts[s][k], p, kept) \in Contacts
    BY <2>1, ReleasedType
  <2>4. new \in [1 .. n -> Contacts]
    BY <2>3
  <2> HIDE DEF new, n
  <2>5. new \in Seq(Contacts) /\ Len(new) = n /\ DOMAIN new = 1 .. n
    BY <2>1, <2>4
  <2> QED
    BY <2>1, <2>2, <2>5 DEF n
<1>2. \A s \in Source : \A k \in DOMAIN contacts[s] : contacts'[s][k] = Released(contacts[s][k], p, kept)
  OBVIOUS
<1> QED
  BY <1>1, <1>2

\* A process ends its work, or ends: its contacts are no longer its own.
LEMMA LeavingKeeps ==
  ASSUME IInv, NEW p \in Process, NEW kept \in BOOLEAN,
         refresh' = [refresh EXCEPT ![p] = NoRefresh],
         contacts' = [s \in Source |-> [k \in DOMAIN contacts[s] |-> Released(contacts[s][k], p, kept)]],
         ledger' = IF kept THEN refresh[p].marks ELSE ledger,
         kept => Active(p),
         UNCHANGED <<evidence, accepted>>,
         p = "execute" \/ run' = run
  PROVE  Tended' /\ Grows
<1>0. /\ contacts' \in [Source -> Seq(Contacts)]
      /\ \A s \in Source :
           DOMAIN contacts'[s] = DOMAIN contacts[s] /\ Len(contacts'[s]) = Len(contacts[s])
  BY ReleaseTypes DEF IInv, Sound, Types
<1>12. \A s \in Source : \A k \in DOMAIN contacts[s] :
        IF contacts[s][k].by = p
        THEN /\ contacts'[s][k].by = None /\ contacts'[s][k].kept = (contacts[s][k].kept \/ kept)
             /\ contacts'[s][k].at = contacts[s][k].at /\ contacts'[s][k].rows = contacts[s][k].rows
        ELSE contacts'[s][k] = contacts[s][k]
  <2> TAKE s \in Source
  <2> TAKE k \in DOMAIN contacts[s]
  <2>1. contacts[s][k] \in Contacts
    BY ContactType DEF IInv, Sound, Types
  <2>2. contacts'[s][k] = Released(contacts[s][k], p, kept)
    OBVIOUS
  <2> QED
    BY <2>1, <2>2, ReleasedType
<1>1. NoRefresh \in Refreshes /\ NoRefresh.pc = "idle" /\ NoRefresh.found = {}
  BY NoRunType DEF NoRefresh
<1>2. \A q \in Process : refresh'[q] = IF q = p THEN NoRefresh ELSE refresh[q]
  BY DEF IInv, Sound, Types, EvidenceTypes
<1>3. EvidenceTypes'
  BY <1>0, <1>1 DEF IInv, Sound, Types, EvidenceTypes, Refreshes
<1>4. Grows
  <2>1. \A s \in Source : \A k \in DOMAIN contacts[s] :
          /\ k \in DOMAIN contacts'[s]
          /\ contacts'[s][k].rows = contacts[s][k].rows /\ contacts'[s][k].at = contacts[s][k].at
    BY <1>0, <1>12
  <2> QED
    BY <2>1, RemembersGrows
<1>5. Known'
  BY <1>1, <1>2, <1>4 DEF IInv, Sound, Known, Grows
<1>6. \A q \in Process : Active(q)' <=> Active(q) /\ q # p
  BY <1>1, <1>2 DEF Active, Busy
<1>7. \A s \in Source : ledger[s] \in Nat /\ ledger'[s] \in Nat /\ ledger[s] <= ledger'[s]
  BY DEF IInv, Sound, Types, EvidenceTypes, Refreshes, Spared
<1>8. ASSUME NEW s \in Source, NEW k \in DOMAIN contacts[s]
      PROVE  InOrder(s, k)'
  <2>1. /\ InOrder(s, k) /\ contacts[s][k].at \in Nat /\ contacts[s][k].kept \in BOOLEAN
        /\ contacts[s][k].by \in Process \cup {None} /\ MinRefresh \in Nat
    BY <1>8, ContactType DEF IInv, Sound, Types, Settings, Spared, Contacts
  <2>2. None \notin Process
    BY DEF IInv, Sound, Types, Settings
  <2>3. CASE contacts[s][k].by = p
    <3>1. /\ contacts'[s][k].by = None /\ contacts'[s][k].at = contacts[s][k].at
          /\ contacts'[s][k].kept = (contacts[s][k].kept \/ kept)
      BY <1>12, <2>3
    <3>2. ~contacts[s][k].kept /\ contacts[s][k].at + MinRefresh <= refresh[p].marks[s]
      BY <2>1, <2>2, <2>3 DEF InOrder
    <3> QED
      BY <3>1, <3>2 DEF InOrder
  <2>4. CASE contacts[s][k].by # p
    <3>1. contacts'[s][k] = contacts[s][k] /\ Len(contacts'[s]) = Len(contacts[s])
      BY <1>0, <1>12, <2>4
    <3>2. contacts[s][k].kept => contacts[s][k].at + MinRefresh <= ledger'[s]
      BY <1>7, <2>1 DEF InOrder
    <3>3. \A q \in Process : q = contacts[s][k].by => Active(q) /\ refresh'[q] = refresh[q]
      BY <1>2, <2>1, <2>2, <2>4 DEF InOrder
    <3> QED
      BY <2>1, <3>1, <3>2, <3>3 DEF InOrder, Active
  <2> QED
    BY <2>3, <2>4
<1>9. SourcesAreSpared'
  <2> SUFFICES ASSUME NEW s \in Source, NEW j \in DOMAIN contacts'[s], NEW k \in DOMAIN contacts'[s],
                      j < k, contacts'[s][j].kept
               PROVE  contacts'[s][k].at >= contacts'[s][j].at + MinRefresh
    BY DEF SourcesAreSpared
  <2>1. /\ j \in DOMAIN contacts[s] /\ k \in DOMAIN contacts[s]
        /\ contacts'[s][k].at = contacts[s][k].at /\ contacts'[s][j].at = contacts[s][j].at
    BY <1>0, <1>12
  <2>2. CASE contacts[s][j].kept
    BY <2>1, <2>2 DEF IInv, Spared, SourcesAreSpared
  <2>3. CASE ~contacts[s][j].kept
    <3>1. contacts[s][j].by = p
      BY <1>12, <2>1, <2>3
    <3>2. p # None
      BY DEF IInv, Sound, Types, Settings
    <3>3. j = Len(contacts[s])
      BY <2>1, <3>1, <3>2 DEF IInv, Spared, InOrder
    <3>4. k \in 1 .. Len(contacts[s])
      BY <2>1, ContactType DEF IInv, Sound, Types
    <3> QED
      BY <3>3, <3>4
  <2> QED
    BY <2>2, <2>3
<1>10. Spared'
  <2>1. \A q, r \in Process : Active(q)' /\ Active(r)' => q = r
    BY <1>6 DEF IInv, Spared
  <2>2. \A q \in Process : Active(q)' => \A s \in Source : ledger'[s] <= refresh'[q].marks[s]
    <3> SUFFICES ASSUME NEW q \in Process, Active(q)' PROVE \A s \in Source : ledger'[s] <= refresh'[q].marks[s]
      OBVIOUS
    <3>1. Active(q) /\ q # p /\ refresh'[q] = refresh[q]
      BY <1>2, <1>6
    <3>2. ~kept
      BY <3>1 DEF IInv, Spared
    <3> QED
      BY <3>1, <3>2 DEF IInv, Spared
  <2> QED
    BY <1>0, <1>8, <1>9, <2>1, <2>2 DEF Spared
<1>11. Paired'
  BY <1>1, <1>2 DEF IInv, Paired, Process
<1> QED
  BY <1>3, <1>4, <1>5, <1>10, <1>11 DEF Tended

LEMMA MarkKeeps == ASSUME IInv, NEW p \in Process, MarkSources(p) PROVE Tended' /\ Grows
<1>1. /\ refresh[p].pc = "marking" /\ refresh' = [refresh EXCEPT ![p] = NoRefresh]
      /\ ledger' = refresh[p].marks /\ UNCHANGED <<evidence, accepted, run>>
      /\ contacts' = [s \in Source |-> [k \in DOMAIN contacts[s] |-> Released(contacts[s][k], p, TRUE)]]
  BY DEF MarkSources, Released, orchestration
<1>2. Active(p)
  BY <1>1 DEF Active, Busy
<1> QED
  BY <1>1, <1>2, LeavingKeeps

LEMMA DieKeeps == ASSUME IInv, NEW p \in Process, Dies(p) PROVE Tended' /\ Grows
<1>1. /\ refresh' = [refresh EXCEPT ![p] = NoRefresh] /\ UNCHANGED <<evidence, ledger, accepted>>
      /\ p = "execute" \/ run' = run
      /\ contacts' = [s \in Source |-> [k \in DOMAIN contacts[s] |-> Released(contacts[s][k], p, FALSE)]]
  BY DEF Dies, Released
<1> QED
  BY <1>1, LeavingKeeps

LEMMA AcceptKeeps ==
  ASSUME IInv, NEW proof \in Proof, AcceptEvidence(proof) PROVE Tended' /\ Grows
<1> DEFINE rows == Observed(proof.rows, proof.at)
<1>1. /\ accepted = {} /\ accepted' = rows /\ evidence' = Merged(Fresh(evidence, clock), rows)
      /\ UNCHANGED <<ledger, refresh, contacts, run>>
  BY DEF AcceptEvidence, orchestration
<1>2. rows \in SUBSET Rows
  BY ObservedTypes DEF IInv, Sound, Types, Settings
<1> HIDE DEF rows
<1>3. evidence' \subseteq evidence \cup rows
  BY <1>1 DEF Merged, Fresh
<1>4. EvidenceTypes'
  BY <1>1, <1>2, <1>3 DEF IInv, Sound, Types, EvidenceTypes
<1>5. Grows
  BY <1>1 DEF Grows, All, Given
<1>6. rows \subseteq All'
  BY <1>1 DEF All
<1>7. Known'
  BY <1>1, <1>3, <1>5, <1>6 DEF IInv, Sound, Known, Grows
<1>8. Spared'
  BY <1>1 DEF IInv, Spared, InOrder, Active, SourcesAreSpared
<1>9. Paired'
  BY <1>1 DEF IInv, Paired
<1> QED
  BY <1>4, <1>5, <1>7, <1>8, <1>9 DEF Tended

-----------------------------------------------------------------------------
(***************************************************************************)
(* Every step, on both sides.                                              *)
(***************************************************************************)
LEMMA RequestStep ==
  ASSUME IInv, NEW p \in Process,
         \/ Plan \/ Claim \/ Send \/ Judge \/ FallBack \/ Exhausted \/ ChangeInput
         \/ EditConnections \/ DisturbOutput \/ Tick
         \/ \E end \in DOMAIN ErrorClass, actual \in Model \cup {None} : Receive(end, actual)
         \/ UNCHANGED vars
  PROVE  Tended' /\ Grows
<1>1. UNCHANGED refreshing
  BY DEF Plan, Claim, Send, Judge, Conclude, FallBack, Exhausted, ChangeInput, EditConnections,
         DisturbOutput, Tick, Receive, vars
<1>2. refresh["execute"].pc # "idle" /\ run.pc = "planning" => run' = run
  BY DEF Plan, Claim, Send, Judge, FallBack, Exhausted, ChangeInput, EditConnections,
         DisturbOutput, Tick, Receive, orchestration, vars
<1> QED
  BY <1>1, <1>2, QuietKeeps

LEMMA AskKeeps == ASSUME IInv, AskRefresh PROVE Tended' /\ Grows
<1> DEFINE r == [refresh["refresh"] EXCEPT !.pc = "waiting"]
<1>1. /\ "refresh" \in Process /\ refresh["refresh"] \in Refreshes
      /\ refresh["refresh"].found \subseteq All
  BY DEF Process, IInv, Sound, Types, EvidenceTypes, Known
<1>2. /\ refresh["refresh"].pc = "idle" /\ refresh' = [refresh EXCEPT !["refresh"] = r]
      /\ UNCHANGED <<evidence, ledger, contacts, accepted, run>>
  BY DEF AskRefresh, orchestration
<1>3. r \in Refreshes /\ r.pc = "waiting" /\ r.found = refresh["refresh"].found
  BY <1>1 DEF Refreshes, Busy
<1> HIDE DEF r
<1> QED
  BY <1>1, <1>2, <1>3, WaitingKeeps DEF Active, Busy

LEMMA BeginKeeps == ASSUME IInv, Start PROVE Tended' /\ Grows
<1>1. "execute" \in Process /\ refresh["execute"].pc = "idle" /\ refresh["execute"] \in Refreshes
      /\ refresh["execute"].found \subseteq All
  BY DEF Start, IInv, Paired, Process, Sound, Types, EvidenceTypes, Known
<1>2. UNCHANGED <<evidence, ledger, contacts, accepted>> /\ run.pc = "idle"
  BY DEF Start
<1>3. CASE UNCHANGED refresh
  BY <1>2, <1>3, QuietKeeps DEF refreshing
<1>4. CASE Executable /\ refresh' = [refresh EXCEPT !["execute"].pc = "waiting"]
  <2> DEFINE r == [refresh["execute"] EXCEPT !.pc = "waiting"]
  <2>1. r \in Refreshes /\ r.pc = "waiting" /\ r.found = refresh["execute"].found
    BY <1>1 DEF Refreshes, Busy
  <2>2. refresh' = [refresh EXCEPT !["execute"] = r]
    BY <1>4
  <2>3. run'.pc = "planning"
    BY <1>4 DEF Start, NoRun
  <2> HIDE DEF r
  <2> QED
    BY <1>1, <1>2, <2>1, <2>2, <2>3, WaitingKeeps DEF Active, Busy
<1> QED
  BY <1>3, <1>4 DEF Start

LEMMA TimeOutKeeps ==
  ASSUME IInv, NEW p \in Process, LockTimesOut(p) PROVE Tended' /\ Grows
<1>1. refresh[p].pc = "waiting" /\ refresh' = [refresh EXCEPT ![p] = NoRefresh]
      /\ UNCHANGED <<evidence, ledger, contacts, accepted>> /\ (p # "execute" => run' = run)
  BY DEF LockTimesOut
<1>2. NoRefresh \in Refreshes /\ NoRefresh.pc = "idle" /\ NoRefresh.found = {}
  BY NoRunType DEF NoRefresh
<1> QED
  BY <1>1, <1>2, WaitingKeeps DEF Active, Busy

LEMMA StepKeeps == IInv /\ [Next]_vars => IInv'
<1> SUFFICES ASSUME IInv, [Next]_vars PROVE IInv'
  OBVIOUS
<1> DEFINE Requested == RunTypes' /\ Doubt' /\ Attest'
           Evidence == Tended' /\ Grows
<1> HIDE DEF Requested, Evidence
<1>1. Settings' /\ "execute" \in Process /\ Sound
  BY DEF IInv, Sound, Types, Settings, Process
<1>2. (Evidence => Requested) /\ Evidence => IInv'
  BY <1>1 DEF Requested, Evidence, Tended, IInv, Sound, Types
<1>3. CASE \/ EditConnections \/ DisturbOutput \/ Tick \/ AskRefresh
           \/ \E proof \in Proof : AcceptEvidence(proof)
           \/ \E p \in Process :
                \/ Lock(p) \/ MergeEvidence(p) \/ MarkSources(p)
                \/ \E s \in Source : SkipSource(p, s) \/ \E rows \in Yield : Contact(p, s, rows)
  <2>1. Evidence => Requested
    BY <1>1, <1>3, BesideLeavesRequest, BesideKeeps DEF Beside, Requested, Evidence
  <2>2. Evidence
    BY <1>1, <1>3, RequestStep, AskKeeps, AcceptKeeps, LockKeeps, MergeKeeps, MarkKeeps, SkipKeeps,
       ContactKeeps DEF Evidence
  <2> QED
    BY <1>2, <2>1, <2>2
<1>4. CASE Plan \/ Claim \/ Send \/ Judge \/ FallBack \/ Exhausted
  <2>1. Evidence
    BY <1>1, <1>4, RequestStep DEF Evidence
  <2>2. Evidence => Requested
    BY <1>1, <1>4, PlanKeeps, ClaimKeeps, SendKeeps, JudgeKeeps, FallBackKeeps, ExhaustedKeeps
       DEF Evidence, Requested
  <2> QED
    BY <1>2, <2>1, <2>2
<1>5. ASSUME NEW end \in (DOMAIN ErrorClass) \ {"UNREADABLE"}, NEW actual \in Model \cup {None},
             Receive(end, actual)
      PROVE  IInv'
  <2>1. Evidence
    BY <1>1, <1>5, RequestStep DEF Evidence
  <2>2. Evidence => Requested
    BY <1>1, <1>5, ReceiveKeeps DEF Evidence, Requested
  <2> QED
    BY <1>2, <2>1, <2>2
<1>6. CASE Start
  BY <1>1, <1>2, <1>6, StartKeeps, BeginKeeps DEF Evidence, Requested
<1>7. ASSUME NEW p \in Process, LockTimesOut(p) PROVE IInv'
  BY <1>1, <1>2, <1>7, LockTimesOutKeeps, TimeOutKeeps DEF Evidence, Requested
<1>8. ASSUME NEW p \in Process, Dies(p) PROVE IInv'
  BY <1>1, <1>2, <1>8, DiesKeeps, DieKeeps DEF Evidence, Requested
<1>9. CASE ChangeInput \/ UNCHANGED vars
  <2>1. Evidence
    BY <1>1, <1>9, RequestStep DEF Evidence
  <2>2. Evidence => Requested
    BY <1>1, <1>9, BesideKeeps DEF Evidence, Requested, ChangeInput, vars, orchestration
  <2> QED
    BY <1>2, <2>1, <2>2
<1>10. CASE \/ \E end \in (DOMAIN ErrorClass) \ {"UNREADABLE", "ANSWERED"} : Receive(end, None)
            \/ \E actual \in Model \cup {None} : Receive("ANSWERED", actual)
  BY <1>5, <1>10, EndsTypes
<1> QED
  BY <1>3, <1>4, <1>6, <1>7, <1>8, <1>9, <1>10 DEF Next

LEMMA InitHolds == Settings /\ Init => IInv
BY InitSound, InitTended DEF IInv, Sound, Types, Tended

(***************************************************************************)
(* However often a request is executed again, nothing is sent after an     *)
(* invocation whose end is in doubt.                                       *)
(***************************************************************************)
THEOREM NothingFollowsDoubt == Settings /\ Spec => []NothingAfterDoubt
<1>1. IInv => NothingAfterDoubt
  BY DEF IInv, Sound, Doubt
<1> QED
  BY <1>1, InitHolds, StepKeeps, PTL DEF Spec

(***************************************************************************)
(* A completed run was answered by the model requested, or by an alias of  *)
(* it that evidence valid at its beginning vouches for.                    *)
(***************************************************************************)
THEOREM CompletionsAreAttested == Settings /\ Spec => []CompletedIsAttested
<1>1. IInv => CompletedIsAttested
  <2> SUFFICES ASSUME IInv, checkpoint # None, checkpoint.report = "COMPLETED"
               PROVE  CompletedIsAttested
    BY DEF CompletedIsAttested
  <2>1. /\ dispatches # <<>> /\ Last.end = "ANSWERED"
        /\ Last.actual # Last.model => Vouched(<<Last.conn, Last.model, Last.actual>>, Last.at)
    BY DEF IInv, Sound, Attest
  <2> QED
    BY <2>1 DEF CompletedIsAttested, Last, Vouched, All
<1> QED
  BY <1>1, InitHolds, StepKeeps, PTL DEF Spec

(***************************************************************************)
(* A source whose contact was kept is left alone for its interval, however *)
(* the refreshes of the two processes overlap and wherever they end.       *)
(***************************************************************************)
THEOREM SourcesSpared == Settings /\ Spec => []SourcesAreSpared
<1>1. IInv => SourcesAreSpared
  BY DEF IInv, Spared
<1> QED
  BY <1>1, InitHolds, StepKeeps, PTL DEF Spec

-----------------------------------------------------------------------------
(***************************************************************************)
(* The file of connections. Versions are numbered as they are made, and a  *)
(* record of a save names two of them in that order: while the file is the *)
(* one that was saved, what it replaced is the one the record kept.        *)
(***************************************************************************)
StoreInv ==
  /\ stamp \in Nat /\ file.at \in Nat /\ file.at <= stamp
  /\ backup # None =>
       /\ backup.previous.at \in Nat /\ backup.applied.at \in Nat
       /\ backup.previous.at < backup.applied.at /\ backup.applied.at <= stamp
       /\ file = backup.applied => replaced = backup.previous
  /\ editor = [pc |-> editor.pc, doc |-> editor.doc]
  /\ editor.pc = "saving" => editor.doc = backup.applied /\ file = backup.previous
  /\ editor.pc = "saving" => editor.doc.at \in Nat /\ editor.doc.at <= stamp
  /\ editor.pc = "rolling" => backup # None /\ editor.doc = backup.previous

LEMMA StoreInitHolds == Init => StoreInv
BY DEF Init, StoreInit, StoreInv, Idle

\* Only the steps of the store touch it.
LEMMA StoreStepOnly == [Next]_vars => UNCHANGED store \/ StoreNext
<1>1. CASE EditConnections
  BY <1>1 DEF EditConnections
<1>2. CASE AskRefresh \/ Start \/ Plan \/ Claim \/ Send \/ Judge \/ FallBack \/ Exhausted
           \/ ChangeInput \/ DisturbOutput \/ Tick \/ UNCHANGED vars
  BY <1>2 DEF AskRefresh, Start, Plan, Claim, Send, Judge, FallBack, Exhausted, ChangeInput,
              DisturbOutput, Tick, vars
<1>3. ASSUME NEW proof \in Proof, AcceptEvidence(proof) PROVE UNCHANGED store
  BY <1>3 DEF AcceptEvidence
<1>4. ASSUME NEW p \in Process,
             \/ Lock(p) \/ LockTimesOut(p) \/ MergeEvidence(p) \/ MarkSources(p) \/ Dies(p)
             \/ \E s \in Source : SkipSource(p, s) \/ \E rows \in Yield : Contact(p, s, rows)
      PROVE  UNCHANGED store
  BY <1>4 DEF Lock, LockTimesOut, MergeEvidence, MarkSources, Dies, SkipSource, Contact
<1>5. ASSUME NEW end, NEW actual, Receive(end, actual) PROVE UNCHANGED store
  BY <1>5 DEF Receive
<1> QED
  BY <1>1, <1>2, <1>3, <1>4, <1>5 DEF Next

LEMMA StoreStepKeeps == StoreInv /\ [Next]_vars => StoreInv'
<1> SUFFICES ASSUME StoreInv, [Next]_vars PROVE StoreInv'
  OBVIOUS
<1>1. CASE UNCHANGED store
  BY <1>1 DEF StoreInv, store
<1>2. CASE StoreNext
  <2>1. ASSUME NEW e \in Edit, StartEdit(e) PROVE StoreInv'
    BY <2>1 DEF StartEdit, StoreInv
  <2>2. CASE KeepPrevious
    <3>1. CASE Savable(editor.doc)
      <4> DEFINE applied == [at |-> stamp + 1, conns |-> editor.doc]
      <4>1. /\ stamp' = stamp + 1 /\ backup' = [previous |-> file, applied |-> applied]
            /\ editor' = [pc |-> "saving", doc |-> applied] /\ UNCHANGED <<file, replaced>>
        BY <2>2, <3>1 DEF KeepPrevious, Backup
      <4>2. applied.at = stamp + 1
        OBVIOUS
      <4> HIDE DEF applied
      <4> QED
        BY <4>1, <4>2 DEF StoreInv
    <3>2. CASE ~Savable(editor.doc)
      BY <2>2, <3>2 DEF KeepPrevious, StoreInv, Idle
    <3> QED
      BY <3>1, <3>2
  <2>3. CASE Save
    BY <2>3 DEF Save, Write, StoreInv, Idle
  <2>4. CASE CheckRollback
    BY <2>4 DEF CheckRollback, StoreInv
  <2>5. CASE Restore
    BY <2>5 DEF Restore, Write, StoreInv
  <2>6. CASE DropBackup \/ EditorStops
    BY <2>6 DEF DropBackup, EditorStops, StoreInv, Idle
  <2>7. ASSUME NEW conns \in ByHand, EditByHand(conns) PROVE StoreInv'
    <3> DEFINE new == [at |-> stamp + 1, conns |-> conns]
    <3>1. /\ stamp' = stamp + 1 /\ file' = new /\ UNCHANGED <<backup, editor>> /\ editor.pc # "saving"
      BY <2>7 DEF EditByHand, Write
    <3>2. new.at = stamp + 1
      OBVIOUS
    <3> HIDE DEF new
    <3> QED
      BY <3>1, <3>2 DEF StoreInv
  <2> QED
    BY <1>2, <2>1, <2>2, <2>3, <2>4, <2>5, <2>6, <2>7 DEF StoreNext
<1>3. UNCHANGED store \/ StoreNext
  BY StoreStepOnly
<1> QED
  BY <1>1, <1>2, <1>3

(***************************************************************************)
(* A rollback that is accepted restores what the last change of the file   *)
(* replaced, whoever made that change and wherever an editor stopped.      *)
(***************************************************************************)
THEOREM RollbackIsOfLastSave == Spec => RollbackUndoesLastSave
<1>1. StoreInv /\ [Next]_vars => [editor'.pc = "rolling" /\ editor.pc # "rolling" => editor'.doc = replaced]_store
  <2> SUFFICES ASSUME StoreInv, StoreNext, editor'.pc = "rolling", editor.pc # "rolling"
               PROVE  editor'.doc = replaced
    BY StoreStepOnly
  <2>1. CASE CheckRollback
    BY <2>1 DEF CheckRollback, StoreInv
  <2>2. CASE Restore
    BY <2>2 DEF Restore, StoreInv
  <2>3. ASSUME NEW conns \in ByHand, EditByHand(conns) PROVE FALSE
    BY <2>3 DEF EditByHand
  <2>4. CASE KeepPrevious \/ Save \/ DropBackup \/ EditorStops \/ \E e \in Edit : StartEdit(e)
    BY <2>4 DEF KeepPrevious, Save, DropBackup, EditorStops, StartEdit, Idle
  <2> QED
    BY <2>1, <2>2, <2>3, <2>4 DEF StoreNext
<1> QED
  BY <1>1, StoreInitHolds, StoreStepKeeps, PTL DEF Spec, RollbackUndoesLastSave
=============================================================================
