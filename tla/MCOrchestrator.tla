--------------------------- MODULE MCOrchestrator ---------------------------
(***************************************************************************)
(* Small instances of Orchestrator: one file of two connections, and one   *)
(* question per scene.                                                     *)
(***************************************************************************)
EXTENDS Orchestrator

CONSTANTS c1, c2, m1, cloud1, s1, v1

\* A local runtime the operator trusts, and one that leaves the host.
Trusted == [Defaults("ollama") EXCEPT !.boundary = "HOST", !.trust = TRUE]
Remote == [Defaults("openai-compatible") EXCEPT
             !.boundary = "REMOTE", !.host = "NAMED", !.secure = TRUE, !.remote = {"PUBLIC"},
             !.credential = "ENVIRONMENT"]
Program == [Defaults("stdio") EXCEPT !.program = "EXECUTABLE", !.boundary = "HOST"]
Broken == [Defaults("ollama") EXCEPT !.mode = "PINNED"]

File(a, b) == (c1 :> a) @@ (c2 :> b)

Answers ==
  [program |-> "EXECUTABLE", host |-> "LOOPBACK", boundary |-> "HOST", trust |-> TRUE,
   network |-> TRUE, allowed |-> {"PUBLIC"}, cloud |-> TRUE, remote |-> {"PUBLIC"},
   mode |-> "ROUTER", model |-> m1, credential |-> "NONE"]

Edits ==
  {[conn |-> c1, how |-> "asked", adapter |-> "ollama", answers |-> Answers],
   [conn |-> c1, how |-> "overridden", adapter |-> "ollama",
    answers |-> [allowed |-> {"INTERNAL"}]],
   [conn |-> c2, how |-> "removed", adapter |-> "ollama", answers |-> <<>>]}

Hands == {File(Trusted, Broken), File(Broken, Remote)}

Call(max, mode) == [class |-> "PUBLIC", remote |-> TRUE, max |-> max, mode |-> mode]

\* Two connections, crashes, and files that change between two calls.
Falling ==
  [conns |-> File(Trusted, Remote), secrets |-> {"ENVIRONMENT"},
   request |-> Call(2, "OUTPUT_NONEMPTY"), events |-> {"deaths", "disturbances", "evidence"}, calls |-> 2]
\* An operator edits the file while a call works through its choices.
Editing ==
  [conns |-> File(Trusted, Remote), secrets |-> {"ENVIRONMENT"},
   request |-> Call(1, "NONE"), events |-> {"edits", "evidence"}, calls |-> 2]
\* A connection without its credential, one whose program cannot be invoked.
Refusing ==
  [conns |-> File(Program, Remote), secrets |-> {},
   request |-> Call(2, "MANUAL_REVIEW"), events |-> {"deaths"}, calls |-> 3]
\* Evidence refreshed by the call and by a command beside it.
Attesting ==
  [conns |-> File(Trusted, None), secrets |-> {},
   request |-> Call(1, "JSON_DOCUMENT"), events |-> {"sources", "deaths"}, calls |-> 3]

Starts == [Falling |-> Falling, Editing |-> Editing, Refusing |-> Refusing, Attesting |-> Attesting]

Names == (c1 :> {m1, cloud1}) @@ (c2 :> {m1})

Alias(c) == [conn |-> c, model |-> m1, actual |-> cloud1]
Proofs == {[rows |-> {Alias(c1)}, at |-> 0, verifier |-> v1, producer |-> p, verified |-> TRUE] : p \in {v1, s1}}
Yields == {{}, {Alias(c1)}, {Alias(c2)}}
=============================================================================
