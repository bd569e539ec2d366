---------------------------- MODULE MCWorkExecutor ----------------------------
(***************************************************************************)
(* Small tasks for TLC: two workers, a capability that can work and        *)
(* validate, and a validator.                                              *)
(***************************************************************************)
EXTENDS WorkExecutor

Free == [x \in Resource |-> None]

Descriptor0 ==
  [id |-> 1, kind |-> "MODEL", functions |-> {"draft"}, classes |-> {"PUBLIC"}, boundary |-> "HOST",
   authorities |-> {}, health |-> "HEALTHY", checked |-> 0, expires |-> 9, deterministic |-> FALSE,
   measured |-> TRUE, success |-> 90, quoted |-> TRUE, cost |-> 1, usage |-> Free, idempotent |-> FALSE]

\* Capability 1 is preferred for the work, 2 can do both, 3 only validates and is idempotent.
Pool(expires, idempotent) ==
  <<[Descriptor0 EXCEPT !.expires = expires, !.idempotent = idempotent],
    [Descriptor0 EXCEPT !.id = 2, !.kind = "VALIDATOR", !.functions = {"draft", "check"}, !.cost = 2],
    [Descriptor0 EXCEPT !.id = 3, !.kind = "VALIDATOR", !.functions = {"check"}, !.cost = 3, !.idempotent = TRUE]>>

Request0 ==
  [effects |-> {"LOCAL_WRITE"}, functions |-> {"draft"}, boundaries |-> {"HOST"}, dataClass |-> "PUBLIC",
   risk |-> "LOW", remoteClasses |-> {}, granted |-> {"filesystem:write", "external:write"},
   floor |-> None, deadline |-> None, maxCost |-> None, maxAttempts |-> None, limit |-> Free,
   scopes |-> {"check"}, independent |-> TRUE, allowHuman |-> TRUE]

Published == [Request0 EXCEPT !.effects = {"EXTERNAL_WRITE"}, !.granted = @ \cup {"approve:risk-boundary"}]
Limited == [Request0 EXCEPT !.maxCost = 7, !.deadline = 2, !.independent = FALSE]

Forbidden == [Request0 EXCEPT !.effects = {"SPEND"}]

MCReceipts == {[approved |-> 0, expires |-> 2], [approved |-> 1, expires |-> 1]}
MCRequests == {Published, Limited, Forbidden}
MCRawCatalogs == {Pool(1, FALSE), Pool(3, TRUE)}

MCExtra == {Nothing, [Nothing EXCEPT !["cost"] = 5]}

Item(result, sound) == [scope |-> "check", result |-> result, independent |-> TRUE, sound |-> sound]
MCAnswers == {<< >>, <<Item("PASSED", TRUE)>>, <<Item("FAILED", TRUE)>>, <<Item("INCONCLUSIVE", TRUE)>>,
              <<Item("PASSED", TRUE), Item("PASSED", FALSE)>>, <<[Item("PASSED", TRUE) EXCEPT !.scope = "other"]>>}
===============================================================================
