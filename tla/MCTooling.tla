------------------------------- MODULE MCTooling -------------------------------
(***************************************************************************)
(* What happens to the tools of Tooling in the run. Of the registry: two   *)
(* processes, two artifacts, two kinds, one file, 4 calls. Of a served     *)
(* adapter: a circuit that opens after 2 failures for 2 instants, 5 frames *)
(* within 4 instants.                                                      *)
(***************************************************************************)
EXTENDS Tooling, TLC

CONSTANTS
  p1, p2,                                                       \* processes
  q1, q2, ollama, f1, amount1, amount2, planned, other, model,  \* of a host
  mcp1, mcp2, profile, local, repo, server, argv1, argv2, mine, router1, router2,
  prompt, trusted1, config1, config2, gpt, small,               \* of clients
  u1, u2, DEC, REQ, a1,                                         \* of the registry
  m1, m2, m3                                                    \* modules of a release

-----------------------------------------------------------------------------
(* A host: 3 instants, 3 calls.                                            *)

Recipe ==
  [https |-> TRUE, destination |-> "HOST", network |-> "DENY", artifact |-> model, runtime |-> ollama,
   needs |-> [x \in {"download", "disk", "memory", "cost"} |-> 1], environment |-> {}, sha256 |-> planned,
   install |-> TRUE, idempotent |-> FALSE, verify |-> FALSE]
ProvisionRequest ==
  [artifact |-> model, runtime |-> ollama, limits |-> Recipe.needs, network |-> TRUE,
   destinations |-> {"HOST"}, environment |-> {}, target |-> f1, valid |-> 2]
Program(version, answering) == [version |-> version, answers |-> answering]
Quiet ==
  [runtimes |-> {}, health |-> <<>>, artifacts |-> <<>>, cloud |-> {}, executables |-> {}, recipes |-> {},
   requests |-> <<>>, free |-> 1, deaths |-> FALSE, contents |-> {}, sources |-> <<>>, day |-> 2, amounts |-> {}]

Diagnosing ==
  [Quiet EXCEPT !.runtimes = {ollama}, !.health = ollama :> 1, !.artifacts = ollama :> {model}, !.cloud = {model},
     !.executables = {None, Program(planned, TRUE), Program(other, TRUE), Program(other, FALSE)}]
Installing ==
  [Quiet EXCEPT !.recipes = {Recipe}, !.requests = q1 :> ProvisionRequest, !.deaths = TRUE, !.contents = {None, other}]
Moving ==
  [Quiet EXCEPT !.recipes = {[Recipe EXCEPT !.https = FALSE, !.destination = "NONE", !.install = FALSE]},
     !.requests = (q1 :> ProvisionRequest) @@ (q2 :> ProvisionRequest), !.deaths = TRUE, !.contents = {None}]
Repeating ==
  [Quiet EXCEPT !.recipes = {[Recipe EXCEPT !.idempotent = TRUE, !.verify = TRUE]},
     !.requests = q1 :> ProvisionRequest, !.deaths = TRUE, !.contents = {None}]
Pricing ==
  [Quiet EXCEPT !.sources = amount1 :> [valid |-> 2, refresh |-> 2, https |-> TRUE], !.amounts = {None, amount1, amount2}]
MCHostSetups ==
  [Diagnosing |-> Diagnosing, Installing |-> Installing, Moving |-> Moving, Repeating |-> Repeating, Pricing |-> Pricing]

-----------------------------------------------------------------------------
(* Clients: 1 tick, 3 calls.                                               *)

Nothing == [requests |-> <<>>, contents |-> {}, repositories |-> {}, router |-> None, routers |-> {}, deaths |-> FALSE, manual |-> None,
            receipts |-> {}, issuers |-> {}, trusted |-> None, syntheses |-> {}, capability |-> None, inventory |-> None, roles |-> <<>>]
Merge == [kind |-> "GITHUB_COPILOT", path |-> profile, entry |-> server, argv |-> argv1, credentials |-> FALSE, preferred |-> <<"MCP", "MANUAL">>,
            supported |-> {"MCP"}, read |-> TRUE, write |-> TRUE, repositories |-> FALSE, valid |-> 2]
UserConfig(entry, value) == [object |-> TRUE, entries |-> [e \in {server, other} |-> IF e = entry THEN value ELSE None], rest |-> mine, form |-> "edited"]
Manual == [model |-> [name |-> gpt, boundary |-> "REMOTE", observed |-> 0, expires |-> 2], public |-> FALSE, remote |-> TRUE, tier |-> "FRONTIER",
           supported |-> TRUE, attested |-> FALSE, prompt |-> prompt, valid |-> 2]
Receipt(status, issuer, actual) == [status |-> status, evidence |-> "HOST_EXECUTION", issuer |-> issuer, requested |-> gpt, actual |-> actual, observed |-> 1]
Synthesis(config) == [allowed |-> TRUE, network |-> "DENY", repository_write |-> FALSE, credentials |-> {}, boundary |-> "PROCESS",
                      environment |-> {}, classes |-> {"PUBLIC"}, config |-> config]
Surface(m, setting) == [mode |-> m, target |-> setting, tasks |-> {"*"}]
Role(surface, models) == [surface |-> surface, task |-> "code", models |-> models]
Merging == [Nothing EXCEPT !.requests = (mcp1 :> Merge) @@ (mcp2 :> [Merge EXCEPT !.entry = other, !.argv = argv2]),
                 !.contents = {UserConfig(server, None)}, !.router = router1, !.deaths = TRUE]
Choosing == [Nothing EXCEPT !.requests = mcp1 :> [Merge EXCEPT !.path = repo],
     !.contents = {UserConfig(server, argv1), UserConfig(server, argv2), [UserConfig(server, None) EXCEPT !.object = FALSE]},
     !.repositories = {repo}, !.router = router1, !.routers = {None, router2}]
Launching == [Nothing EXCEPT
     !.requests = (mcp1 :> [Merge EXCEPT !.kind = "CODEX", !.supported = {"CLI"}, !.preferred = <<"CLI", "MCP">>])
               @@ (mcp2 :> [Merge EXCEPT !.kind = "GENERIC"]),
     !.router = router1, !.routers = {None, router2}]
Dispatching == [Nothing EXCEPT !.manual = Manual, !.issuers = {local},
     !.receipts = {Receipt("ATTESTED", local, gpt), Receipt("ATTESTED", local, small), Receipt("ATTESTED", other, gpt), Receipt("FAILED", local, None)}]
Synthesizing == [Nothing EXCEPT !.trusted = trusted1, !.syntheses = {Synthesis(config1), Synthesis(config2)}, !.deaths = TRUE]
Routing == [Nothing EXCEPT
     !.capability = [kind |-> "VISUAL_STUDIO_CODE", observed |-> 0, expires |-> 2, sources |-> {0},
                     surfaces |-> [PLAN_SETTING |-> Surface("ROLE_SETTING", "chat.planAgent.defaultModel"),
                                   CUSTOM_AGENT |-> Surface("AGENT_PROFILE", None)]],
     !.inventory = [observed |-> 0, expires |-> 2, models |-> {gpt, small}],
     !.roles = <<Role("PLAN_SETTING", <<gpt>>), Role("PLAN_SETTING", <<small, gpt>>),
                 Role("CUSTOM_AGENT", <<gpt>>), Role("SUBAGENT_PARAMETER", <<gpt>>)>>]
MCClientSetups ==
  [Merging |-> Merging, Choosing |-> Choosing, Launching |-> Launching, Dispatching |-> Dispatching,
   Synthesizing |-> Synthesizing, Routing |-> Routing]

-----------------------------------------------------------------------------
(* A release: three modules, each of which needs the next.                 *)

Chain(va, vb, vc) ==
  (m1 :> [validated |-> va, needs |-> {m2}]) @@ (m2 :> [validated |-> vb, needs |-> {m3}])
    @@ (m3 :> [validated |-> vc, needs |-> {}])
Sound == Chain(TRUE, TRUE, TRUE)
Partial == Chain(TRUE, TRUE, FALSE)
Cyclic == [Sound EXCEPT ![m3].needs = {m1}]

MCHarmless == {<<Sound, Partial>>}

Changing ==
  [products |-> {Sound, Partial, Cyclic}, scopes |-> {3}, qualify |-> FALSE, freeze |-> FALSE, commits |-> 2,
   builders |-> {p1, p2}]
Qualifying ==
  [products |-> {Sound, Partial}, scopes |-> {}, qualify |-> TRUE, freeze |-> FALSE, commits |-> 3, builders |-> {p1}]
Freezing ==
  [products |-> {Partial}, scopes |-> {}, qualify |-> FALSE, freeze |-> TRUE, commits |-> 4, builders |-> {p1}]
MCReleaseScenes == [Changing |-> Changing, Qualifying |-> Qualifying, Freezing |-> Freezing]
=============================================================================
