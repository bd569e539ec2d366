---------------------------- MODULE MCRouterRuntime ----------------------------
EXTENDS RouterRuntime

CONSTANTS a, b, u, x, y, s1, p1, p2, c1, c2

MCModel == {a, b, u}
MCIdentity == [m \in MCModel |-> CASE m = a -> 1 [] m = b -> 2 [] m = u -> 3]
MCPricingKey == [m \in MCModel |-> IF m = u THEN b ELSE m]  \* u is a variant of b

Flat(input, output) == [base |-> [input |-> input, cached |-> None, output |-> output], schedules |-> {}]
\* b is dear on the second day of the week, and at its second peak over midnight.
Peak(id, priority, days, start, end, input) ==
  [id |-> id, priority |-> priority, days |-> days, start |-> start, end |-> end,
   rates |-> [input |-> input, cached |-> 1, output |-> 3]]
Peaked == [base |-> [input |-> 1, cached |-> 0, output |-> 1],
           schedules |-> {Peak(1, 1, {1}, 1, 2, 3), Peak(2, 2, {1}, 2, 1, 2)}]

Described1(provider, assessment, prior, pricing) ==
  [provider |-> provider, remote |-> TRUE, availability |-> "AVAILABLE", assessment |-> assessment, capabilities |-> {"text"},
   window |-> 8, tiers |-> {"BALANCED"}, prior |-> [k \in {x} |-> prior], latency |-> 1, pricing |-> pricing,
   fixed |-> 0, pressure |-> 0]
Catalog(models) == [epoch |-> 0, generated |-> -1, until |-> 20, trials |-> 1, models |-> models]

Request(session, current, fallbacks) ==
  [tier |-> "BALANCED", class |-> x, context |-> 2, cached |-> IF current = None THEN 0 ELSE 1, output |-> 1,
   capabilities |-> {"text"}, providers |-> {}, remote |-> TRUE, unknown |-> FALSE, floor |-> [of |-> 1, in |-> 4],
   limit |-> 9, failure |-> 6, value |-> 0, switching |-> 1, session |-> session, current |-> current, failed |-> {},
   fallbacks |-> fallbacks]

Nobody ==
  [catalog |-> Catalog([m \in {} |-> None]), events |-> {}, requests |-> {}, profiles |-> {}, published |-> {},
   constraints |-> {}, given |-> {}, plans |-> {}, latency |-> None, tokens |-> 0, epoch |-> None, trials |-> 1, last |-> 0, pairs |-> 2, others |-> {},
   classes |-> {x}, success |-> {TRUE}, sessions |-> {None}, callers |-> {c1, c2}]

Evaluating ==
  [Nobody EXCEPT
     !.catalog = Catalog((a :> Described1("ollama", "ASSESSED", 3, Flat(1, 0))) @@ (u :> Described1("ollama", "UNASSESSED", 2, Flat(0, 1)))),
     !.events = {"EVALUATE", "DIE"}, !.requests = {Request(None, None, 0)},
     !.plans = {[limit |-> 4, candidates |-> 1, samples |-> 2], [limit |-> 6, candidates |-> 2, samples |-> 1]}, !.last = 3]

\* One pair, whose arms are recorded in any class.
Misrecording ==
  [Evaluating EXCEPT !.events = {"EVALUATE", "RECORD"}, !.pairs = 1, !.classes = {x, y}, !.callers = {c1}, !.last = 3,
     !.plans = {[limit |-> 4, candidates |-> 1, samples |-> 1]}]

Peaking ==
  [Nobody EXCEPT
     !.catalog = Catalog((a :> Described1("ollama", "ASSESSED", 3, Flat(1, 2))) @@ (b :> Described1("ollama", "ASSESSED", 3, Peaked))),
     !.events = {"ROUTE", "RECORD"}, !.requests = {Request(None, None, 1), Request(s1, None, 1), Request(s1, a, 0), [Request(None, None, 1) EXCEPT !.cached = 1]},
     !.latency = 2, !.sessions = {None, s1}, !.tokens = 2, !.epoch = <<0, 0>>, !.last = 7]

Syncing ==
  [Nobody EXCEPT
     !.catalog = Catalog((a :> Described1("ollama", "ASSESSED", 3, Flat(1, 2)))),
     !.events = {"SYNC", "ROUTE"}, !.requests = {[Request(None, None, 1) EXCEPT !.unknown = TRUE]},
     !.others = {[Catalog((a :> Described1("ollama", "ASSESSED", 5, Flat(1, 2)))) EXCEPT !.epoch = 9]},
     !.profiles = {u :> [assessment |-> "ASSESSED", prior |-> [k \in {x} |-> 4]], b :> [assessment |-> "DISABLED"]},
     !.published = {[discovered |-> {a, u}, prices |-> (b :> Peaked), epoch |-> 1, ttl |-> 2],
                    [discovered |-> {u, b}, prices |-> (a :> Flat(1, 2)) @@ (b :> Peaked), epoch |-> 2, ttl |-> 1]}, !.last = 1]

Offer(m, prior, pricing, estimate, resource) ==
  [f \in {"quality", "provenance"} |-> "MEASURED"] @@ [estimate |-> estimate, resource |-> resource] @@
    Described1("v2", "ASSESSED", prior, pricing)
Fragment(provider, m, generated, until, health, boundary, offer) ==
  [provider |-> provider, boundary |-> boundary, generated |-> generated, until |-> until, epoch |-> generated,
   health |-> [state |-> health, checked |-> generated, until |-> until], models |-> m :> offer]
Ram(n) == [r \in {"ram"} |-> n]
Fragments ==
  [Nobody EXCEPT
     !.events = {"FRAGMENTS"}, !.requests = {Request(None, None, 1)},
     !.constraints = {[boundaries |-> {"HOST", "REMOTE"}, data |-> "INTERNAL", far |-> {"INTERNAL"}, limits |-> Ram(2), latency |-> 1]},
     !.given = {{Fragment(p1, a, 0, 3, "HEALTHY", "HOST", Offer(a, 3, Peaked, Ram(1), None))},
                {Fragment(p1, a, 1, 4, "UNAVAILABLE", "HOST", Offer(a, 3, Peaked, Ram(1), None)),
                 Fragment(p2, b, 0, 4, "DEGRADED", "REMOTE", Offer(b, 2, Flat(1, 0), Ram(2), [cost |-> 1, observed |-> 0, until |-> 2]))},
                {[Fragment(p2, b, 0, 4, "HEALTHY", "REMOTE", Offer(b, 3, Flat(1, 1), Ram(3), None)) EXCEPT !.health.until = 0]}},
     !.last = 4]

MCScenarios == <<Evaluating, Misrecording, Peaking, Syncing, Fragments>>
===============================================================================
