---------------------------- MODULE Orchestrator ----------------------------
(***************************************************************************)
(* One orchestration: a caller that executes it again after every crash,   *)
(* the checkpoint that keeps an invocation in doubt from being repeated,   *)
(* the fallbacks, and the model evidence refreshed under a lock by the     *)
(* same call or by a process of its own. Connections are read anew for     *)
(* every attempt from the file that ConnectionStore lets an editor change. *)
(*                                                                         *)
(* Source: .ai/foundation/ai_orchestrator/ai_orchestrator.py,              *)
(* orchestrator_mcp.py and .ai/foundation/runtime/state_io.py. The routing *)
(* decision, modelled in ModelRouting, is any sequence of the choices the  *)
(* catalogs offer.                                                         *)
(***************************************************************************)
EXTENDS ConnectionStore, Sequences, FiniteSets

CONSTANTS
  Model,       \* the models runtimes name
  Named,       \* the models the runtime of each connection names
  Source,      \* the evidence sources
  Proof,       \* evidence offered with a verification: [rows, at, verifier, producer, verified]
  Yield,       \* the alias records a source returns: sets of [conn, model, actual]
  Validity,    \* how long a record is valid
  MinRefresh,  \* minimum time between two contacts of a source
  Scenes,      \* named starting points: [conns, secrets, request, calls, events]; the events
               \* that may happen: edits, sources, deaths, disturbances (of the
               \* files), and evidence that prices a model its catalog does not
  MaxTime, MaxInputs  \* bounds, as "calls" of a scene

VARIABLES
  scene,       \* the name of the starting point
  clock,
  input,       \* version of the input file
  checkpoint,  \* None or [hash, state, report]
  run,         \* the executing call
  dispatches,  \* every request sent for this orchestration, with its end
  output,      \* body of the output file
  evidence,    \* last-known-good alias records
  ledger,      \* per source, the time before which it is not contacted
  refresh,     \* the refreshing of each process
  contacts,    \* per source, every contact: [at, by, kept, rows]
  accepted,    \* evidence accepted from verifiers
  calls

Process == {"execute", "refresh"}
orchestration == <<input, checkpoint, run, dispatches, output>>
refreshing == <<evidence, ledger, refresh, contacts, accepted>>
vars == <<store, orchestration, refreshing, scene, clock, calls>>

Scene == Scenes[scene]
Request == Scene.request

NoRun == [pc |-> "idle", at |-> 0, hash |-> 0, choices |-> <<>>, i |-> 1,
          aliases |-> {}, actual |-> None]
NoRefresh == [pc |-> "idle", at |-> 0, todo |-> {}, marks |-> [s \in Source |-> 0], found |-> {}]

-----------------------------------------------------------------------------
(* Evidence.                                                               *)

Fresh(rows, at) == {row \in rows : row.observed + Validity > at}

Key(row) == <<row.conn, row.model, row.actual>>

Merged(old, new) == {row \in old : Key(row) \notin {Key(r) : r \in new}} \cup new

Observed(rows, at) ==
  {[conn |-> r.conn, model |-> r.model, actual |-> r.actual, observed |-> at] : r \in rows}

\* Mutant: every process refreshes without waiting for the other.
LockFreeAlways(p) == TRUE

LockFree(p) == \A q \in Process \ {p} : refresh[q].pc \in {"idle", "waiting"}

AskRefresh ==
  /\ refresh["refresh"].pc = "idle"
  /\ "sources" \in Scene.events
  /\ calls < Scene.calls
  /\ calls' = calls + 1
  /\ refresh' = [refresh EXCEPT !["refresh"].pc = "waiting"]
  /\ UNCHANGED <<store, orchestration, evidence, ledger, contacts, accepted, scene, clock>>

\* A call that executes uses the time it started with, the command the time
\* after it got the lock.
Lock(p) ==
  /\ refresh[p].pc = "waiting"
  /\ LockFree(p)
  /\ refresh' = [refresh EXCEPT ![p] =
       [pc |-> "working", at |-> IF p = "execute" THEN run.at ELSE clock,
        todo |-> Source, marks |-> ledger, found |-> {}]]
  /\ UNCHANGED <<store, orchestration, evidence, ledger, contacts, accepted, scene, clock, calls>>

\* Waiting for the lock times out. The executing call ends with the error.
LockTimesOut(p) ==
  /\ refresh[p].pc = "waiting"
  /\ ~LockFree(p)
  /\ refresh' = [refresh EXCEPT ![p] = NoRefresh]
  /\ run' = IF p = "execute" THEN NoRun ELSE run
  /\ UNCHANGED <<store, input, checkpoint, dispatches, output, evidence, ledger, contacts,
                 accepted, scene, clock, calls>>

NextAllowed(p, s, rows) == refresh[p].at + MinRefresh

\* A source fails, and returns nothing, or returns its records.
Contact(p, s, rows) ==
  /\ refresh[p].pc = "working"
  /\ s \in refresh[p].todo
  /\ refresh[p].at >= refresh[p].marks[s]
  /\ refresh' = [refresh EXCEPT ![p].todo = @ \ {s},
                   ![p].marks[s] = NextAllowed(p, s, rows),
                   ![p].found = @ \cup Observed(rows, refresh[p].at)]
  /\ contacts' = [contacts EXCEPT ![s] = Append(@, [at |-> refresh[p].at, by |-> p, kept |-> FALSE, rows |-> rows])]
  /\ UNCHANGED <<store, orchestration, evidence, ledger, accepted, scene, clock, calls>>

SkipSource(p, s) ==
  /\ refresh[p].pc = "working"
  /\ s \in refresh[p].todo
  /\ refresh[p].at < refresh[p].marks[s]
  /\ refresh' = [refresh EXCEPT ![p].todo = @ \ {s}]
  /\ UNCHANGED <<store, orchestration, evidence, ledger, contacts, accepted, scene, clock, calls>>

MergeEvidence(p) ==
  /\ refresh[p].pc = "working"
  /\ refresh[p].todo = {}
  /\ evidence' = IF refresh[p].found = {} THEN evidence
                 ELSE Merged(Fresh(evidence, refresh[p].at), refresh[p].found)
  /\ refresh' = [refresh EXCEPT ![p].pc = "marking"]
  /\ UNCHANGED <<store, orchestration, ledger, contacts, accepted, scene, clock, calls>>

\* The attempts are written when the refresh ends.
MarkSources(p) ==
  /\ refresh[p].pc = "marking"
  /\ ledger' = refresh[p].marks
  /\ refresh' = [refresh EXCEPT ![p] = NoRefresh]
  /\ contacts' = [s \in Source |->
       [k \in DOMAIN contacts[s] |->
          IF contacts[s][k].by = p THEN [contacts[s][k] EXCEPT !.by = None, !.kept = TRUE]
          ELSE contacts[s][k]]]
  /\ UNCHANGED <<store, orchestration, evidence, accepted, scene, clock, calls>>

\* Evidence that a verifier other than its producer confirmed is merged under
\* the same lock, unless it is older than what is known or no longer valid.
AcceptEvidence(proof) ==
  LET rows == Observed(proof.rows, proof.at) IN
  /\ "sources" \in Scene.events
  /\ \A q \in Process : refresh[q].pc \in {"idle", "waiting"}
  /\ accepted = {}
  /\ proof.verified /\ proof.verifier # proof.producer
  /\ rows # {}
  /\ proof.at <= clock /\ rows = Fresh(rows, clock)
  /\ \A row \in rows, old \in Fresh(evidence, clock) : Key(old) = Key(row) => old.observed <= row.observed
  /\ evidence' = Merged(Fresh(evidence, clock), rows)
  /\ accepted' = rows
  /\ UNCHANGED <<store, orchestration, ledger, refresh, contacts, scene, clock, calls>>

-----------------------------------------------------------------------------
(* Executing a request.                                                    *)

Checkpoint(state, report) == [hash |-> run.hash, state |-> state, report |-> report]

\* The states of the checkpoint from which a call goes on. Any other call
\* returns: the report of an identical run that ended, BLOCKED when the id was
\* used with another input, MANUAL_REQUIRED when an invocation is in doubt.
Executable == checkpoint = None \/ (checkpoint.hash = input /\ checkpoint.state = "PREPARED")

Start ==
  /\ run.pc = "idle"
  /\ calls < Scene.calls
  /\ calls' = calls + 1
  /\ IF Executable
     THEN /\ run' = [NoRun EXCEPT !.pc = "planning", !.at = clock, !.hash = input]
          /\ refresh' = IF "sources" \in Scene.events
                        THEN [refresh EXCEPT !["execute"].pc = "waiting"] ELSE refresh
     ELSE UNCHANGED <<run, refresh>>
  /\ UNCHANGED <<store, input, checkpoint, dispatches, output, evidence, ledger, contacts,
                 accepted, scene, clock>>

Configured == {c \in Conn : file.conns[c] # None /\ ValidConnection(file.conns[c])}

\* The connections whose catalog can be read; one that fails is left out.
Catalogued ==
  {c \in Configured : LET connection == file.conns[c] IN
     /\ connection.credential \in Scene.secrets \cup {"NONE"}
     /\ Stdio(connection) \/ Constructed(connection)
     /\ connection.network \/ (Stdio(connection) /\ connection.boundary = "HOST")}

\* What a request may be routed to: a model its catalog prices, or evidence
\* may, behind a boundary the request allows.
Routable(conns) ==
  {choice \in conns \X Model : \E f \in CatalogOf(file.conns[choice[1]], Named[choice[1]]) :
     /\ choice[2] \in f.models
     /\ f.priced \/ "evidence" \in Scene.events
     /\ f.boundary \in Outside => Request.remote}

\* The route and its fallbacks: choices of the catalogs read, each one once.
Routes(conns) ==
  {route \in UNION {[1..n -> Routable(conns)] : n \in 1..Request.max} :
     \A i, j \in DOMAIN route : route[i] = route[j] => i = j}

\* Some of the catalogs answer; nothing routed ends the call without a trace.
Plan ==
  /\ run.pc = "planning"
  /\ refresh["execute"].pc = "idle"
  /\ \/ run' = NoRun
     \/ \E route \in Routes(Catalogued) :
          run' = [run EXCEPT !.pc = "next", !.choices = route,
                    !.aliases = {Key(row) : row \in Fresh(evidence, run.at)}]
  /\ UNCHANGED <<store, input, checkpoint, dispatches, output, refreshing, scene, clock, calls>>

\* Mutant: the checkpoint is written when the invocation has returned.
ClaimInMemory == UNCHANGED checkpoint

Claimed == checkpoint' = Checkpoint("IN_PROGRESS", None)

Claim ==
  /\ run.pc = "next"
  /\ run.i <= Len(run.choices)
  /\ Claimed
  /\ run' = [run EXCEPT !.pc = "claimed"]
  /\ UNCHANGED <<store, input, dispatches, output, refreshing, scene, clock, calls>>

\* A failure of an unknown class leaves the attempt in doubt: the call ends and
\* the checkpoint stays as it is.
AfterFailure(class) ==
  IF class \in {"TIMEOUT", "PROTOCOL", "UNKNOWN"} THEN NoRun ELSE [run EXCEPT !.pc = "failed"]

Choice == run.choices[run.i]

\* The connection is read again and its checks decide whether anything is sent.
Send ==
  LET refusal == Refusal(file.conns[Choice[1]], Choice[2], Request, Scene.secrets)
  IN  /\ run.pc = "claimed"
      /\ \/ /\ refusal # None
            /\ run' = AfterFailure(refusal)
            /\ UNCHANGED dispatches
         \/ /\ refusal = None
            /\ run' = AfterFailure(ErrorClass["UNREADABLE"])
            /\ UNCHANGED dispatches
         \/ /\ refusal = None
            /\ run' = [run EXCEPT !.pc = "sent"]
            /\ dispatches' = Append(dispatches,
                 [conn |-> Choice[1], model |-> Choice[2], at |-> run.at,
                                      actual |-> None, end |-> "PENDING"])
      /\ UNCHANGED <<store, input, checkpoint, output, refreshing, scene, clock, calls>>

Ended(end, actual) ==
  dispatches' = [dispatches EXCEPT ![Len(dispatches)].end = end,
                                   ![Len(dispatches)].actual = actual]

\* The request ends; an answer names the model that ran, or none, and its JSON
\* document is the output.
Receive(end, actual) ==
  /\ run.pc = "sent"
  /\ Ended(end, actual)
  /\ IF end = "ANSWERED"
     THEN output' = "JSON" /\ run' = [run EXCEPT !.pc = "answered", !.actual = actual]
     ELSE UNCHANGED output /\ run' = AfterFailure(ErrorClass[end])
  /\ UNCHANGED <<store, input, checkpoint, refreshing, scene, clock, calls>>

\* Mutant: strong evidence about any connection vouches for the model.
AttestedAnywhere ==
  run.actual = Choice[2] \/ \E c \in Conn : <<c, Choice[2], run.actual>> \in run.aliases

Attested == run.actual = Choice[2] \/ <<Choice[1], Choice[2], run.actual>> \in run.aliases

Validation ==
  CASE Request.mode = "NONE" -> "NOT_REQUIRED"
    [] Request.mode = "MANUAL_REVIEW" -> "INCONCLUSIVE"
    [] OTHER -> IF output \in {None, "EMPTY"} \/ (Request.mode = "JSON_DOCUMENT" /\ output # "JSON")
                THEN "FAILED" ELSE "PASSED"

Verdict ==
  IF ~Attested \/ Validation = "INCONCLUSIVE" THEN "MANUAL_REQUIRED"
  ELSE IF Validation = "FAILED" THEN None
  ELSE "COMPLETED"

Conclude(status) ==
  /\ checkpoint' = Checkpoint("TERMINAL", status)
  /\ run' = NoRun

\* The output is read again from its handle.
Judge ==
  /\ run.pc = "answered"
  /\ IF Verdict = None
     THEN run' = [run EXCEPT !.pc = "failed"] /\ Ended("REJECTED", run.actual) /\ UNCHANGED checkpoint
     ELSE Conclude(Verdict) /\ UNCHANGED dispatches
  /\ UNCHANGED <<store, input, output, refreshing, scene, clock, calls>>

\* A failure that is not in doubt frees the id for the next choice.
FallBack ==
  /\ run.pc = "failed"
  /\ checkpoint' = Checkpoint("PREPARED", None)
  /\ run' = [run EXCEPT !.pc = "next", !.i = @ + 1, !.actual = None]
  /\ UNCHANGED <<store, input, dispatches, output, refreshing, scene, clock, calls>>

Exhausted ==
  /\ run.pc = "next"
  /\ run.i > Len(run.choices)
  /\ Conclude("UNAVAILABLE")
  /\ UNCHANGED <<store, input, dispatches, output, refreshing, scene, clock, calls>>

\* The process ends at any point; the system releases its lock.
Dies(p) ==
  /\ "deaths" \in Scene.events
  /\ refresh[p].pc # "idle" \/ (p = "execute" /\ run.pc # "idle")
  /\ refresh' = [refresh EXCEPT ![p] = NoRefresh]
  /\ contacts' = [s \in Source |->
       [k \in DOMAIN contacts[s] |->
          IF contacts[s][k].by = p THEN [contacts[s][k] EXCEPT !.by = None] ELSE contacts[s][k]]]
  /\ IF p = "execute" /\ run.pc = "sent" THEN Ended("LOST", None) ELSE UNCHANGED dispatches
  /\ run' = IF p = "execute" THEN NoRun ELSE run
  /\ UNCHANGED <<store, input, checkpoint, output, evidence, ledger, accepted, scene, clock, calls>>

\* The files the call works on are handles others may write.
ChangeInput ==
  /\ "disturbances" \in Scene.events
  /\ input < MaxInputs
  /\ input' = input + 1
  /\ UNCHANGED <<store, checkpoint, run, dispatches, output, refreshing, scene, clock, calls>>

DisturbOutput ==
  /\ "disturbances" \in Scene.events
  /\ output = "JSON"
  /\ output' = "EMPTY"
  /\ UNCHANGED <<store, input, checkpoint, run, dispatches, refreshing, scene, clock, calls>>

\* Only the evidence depends on the time.
Tick ==
  /\ "sources" \in Scene.events
  /\ clock < MaxTime
  /\ clock' = clock + 1
  /\ UNCHANGED <<store, orchestration, refreshing, scene, calls>>

EditConnections ==
  /\ "edits" \in Scene.events
  /\ StoreNext
  /\ UNCHANGED <<orchestration, refreshing, scene, clock, calls>>

Next ==
  \/ EditConnections
  \/ AskRefresh
  \/ \E proof \in Proof : AcceptEvidence(proof)
  \/ \E p \in Process :
       \/ Lock(p) \/ LockTimesOut(p) \/ MergeEvidence(p) \/ MarkSources(p) \/ Dies(p)
       \/ \E s \in Source : SkipSource(p, s) \/ \E rows \in Yield : Contact(p, s, rows)
  \/ Start \/ Plan \/ Claim \/ Send \/ Judge \/ FallBack \/ Exhausted
  \/ \E end \in (DOMAIN ErrorClass) \ {"UNREADABLE", "ANSWERED"} : Receive(end, None)
  \/ \E actual \in Model \cup {None} : Receive("ANSWERED", actual)
  \/ ChangeInput \/ DisturbOutput \/ Tick

Init ==
  /\ scene \in DOMAIN Scenes
  /\ StoreInit(Scene.conns)
  /\ clock = 0 /\ calls = 0 /\ input = 1
  /\ checkpoint = None /\ run = NoRun /\ dispatches = <<>> /\ output = None
  /\ evidence = {} /\ ledger = [s \in Source |-> 0]
  /\ refresh = [p \in Process |-> NoRefresh] /\ contacts = [s \in Source |-> <<>>] /\ accepted = {}

Spec == Init /\ [][Next]_vars

-----------------------------------------------------------------------------
(* Correctness.                                                            *)

Ends(k) == dispatches[k].end

\* No request follows one that crashed, timed out or broke the protocol, in
\* this call or in any later one: only a failure the adapter reported as
\* definite, or an output that failed validation, opens the way to another
\* (checkpoint IN_PROGRESS, plan_or_execute).
NothingAfterDoubt ==
  \A k \in 1 .. Len(dispatches) - 1 :
    Ends(k) \in {"NOT_REACHED", "DENIED", "REJECTED", "RESET", "NOT_PUBLISHED"}

\* What the guide says of a fallback: "only a definite pre-invocation
\* availability/permission failure or deterministic validation failure may
\* continue to a different bounded fallback" (AI_ORCHESTRATOR.md).
OnlyDefiniteFailuresFallBack ==
  \A k \in 1 .. Len(dispatches) - 1 : Ends(k) \in {"NOT_REACHED", "DENIED", "REJECTED"}

\* What a source has given.
Given(s) == UNION {Observed(contacts[s][k].rows, contacts[s][k].at) : k \in DOMAIN contacts[s]}

\* A completed run rests on its last request: the runtime answered it, and
\* the model it named is the one requested, or its alias on that connection
\* by evidence that a source gave or a verifier confirmed, and that was still
\* valid when the call began
\* (plan_or_execute, actual_models).
CompletedIsAttested ==
  checkpoint # None /\ checkpoint.report = "COMPLETED" =>
    /\ dispatches # <<>>
    /\ LET d == dispatches[Len(dispatches)] IN
       /\ d.end = "ANSWERED"
       /\ d.actual # d.model =>
            \E row \in Fresh(accepted \cup UNION {Given(src) : src \in Source}, d.at) :
              Key(row) = <<d.conn, d.model, d.actual>>

\* A source is contacted again within its interval only when the refresh that
\* contacted it before did not reach its end, however the refreshes of two
\* processes overlap (refresh_evidence, file_lock).
SourcesAreSpared ==
  \A s \in Source : \A j, k \in DOMAIN contacts[s] :
    j < k /\ contacts[s][j].kept => contacts[s][k].at >= contacts[s][j].at + MinRefresh
=============================================================================
