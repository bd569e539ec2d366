----------------------------- MODULE RouterRuntime -----------------------------
(***************************************************************************)
(* What the model router keeps between decisions, and who changes it: the  *)
(* catalog file and the copy of it a server has loaded; outcomes, sessions *)
(* and the reservations of evaluations, in one file under a lock; and the  *)
(* last good fragment of the catalog of each provider, which has no lock.  *)
(*                                                                         *)
(* Routing and planning read without the lock. The lock is a file: whoever *)
(* dies with it leaves it behind, and every later change times out.        *)
(* Evaluators, operators and providers are external.                       *)
(***************************************************************************)
EXTENDS ModelRouting, Functions, Sums

CONSTANTS
  Class, Provider, Client,
  PricingKey,      \* of a model: the name it has in the table of prices
  Scenarios,       \* by name: which requests, catalogs, budgets and events there are
  MaxOutcomes      \* a bound of the model

\* What is given is of the models and classes there are; the server has loaded a catalog that is valid.
ASSUME ScenariosAssumption ==
  \A k \in DOMAIN Scenarios : LET given == Scenarios[k] IN
    /\ ValidCatalog(given.catalog) /\ given.tokens \in Nat /\ given.classes \subseteq Class
    /\ \A catalog \in {given.catalog} \cup given.others : DOMAIN catalog.models \subseteq Model
    /\ \A published \in given.published : published.discovered \cup DOMAIN published.prices \subseteq Model
    /\ \A r \in given.requests : r.class \in Class
    /\ \A plan \in given.plans : {plan.limit, plan.candidates, plan.samples} \subseteq Nat

VARIABLES
  now, scenario,
  file, served,    \* the catalog file, and what the server has loaded of it
  outcomes, sessions, reservations, pairs, spend,   \* runtime-state.json
  locked,          \* runtime-state.lock has been left behind
  syncs, plans,    \* of each caller: the synchronisation and the evaluation it is about to write
  fragments, listed, listings,  \* provider fragments, their index, and index files about to be written
  decision         \* the last decision, and what it was made from

runtime == <<outcomes, sessions, reservations, pairs, spend, locked>>
catalogs == <<file, served, syncs>>
stored == <<fragments, listed, listings>>
routerVars == <<now, scenario, runtime, catalogs, stored, plans, decision>>

Arm == {"candidate", "incumbent"}
Boundary == {"PROCESS", "HOST", "LOCAL_NETWORK", "REMOTE", "UNKNOWN"}
Far == {"LOCAL_NETWORK", "REMOTE", "UNKNOWN"}

(***************************************************************************)
(* Catalogs (ollama_cloud.py). A model keeps the profile it had in the     *)
(* catalog before, except for what the operator's profile says. A price    *)
(* without a model is listed, and cannot be routed to.                     *)
(***************************************************************************)
NewProfile ==
  [assessment |-> "UNASSESSED", capabilities |-> {"text"}, window |-> None, prior |-> [c \in {} |-> 0],
   tiers |-> Tier \ {"LOCAL"}, latency |-> 0]

Profile(previous, profiles, m, key) ==
  LET kept == IF previous = None \/ m \notin DOMAIN previous.models THEN NewProfile
              ELSE [f \in DOMAIN NewProfile |-> previous.models[m][f]]
      by == IF m \in DOMAIN profiles THEN m ELSE key
  IN  IF by \in DOMAIN profiles THEN profiles[by] @@ kept ELSE kept

Described(previous, profiles, m, key, availability, pricing) ==
  Profile(previous, profiles, m, key) @@
    [provider |-> "ollama", remote |-> TRUE, availability |-> availability, pricing |-> pricing, fixed |-> 0, pressure |-> 0]

SyncCatalog(previous, profiles, published, t) ==
  LET key(m) == IF PricingKey[m] \in DOMAIN published.prices THEN PricingKey[m] ELSE None
      matched == {key(m) : m \in published.discovered}
      unmatched == (DOMAIN published.prices \ matched) \ published.discovered
  IN  [epoch |-> published.epoch, generated |-> t, until |-> t + published.ttl, trials |-> Scenarios[scenario].trials,
       models |-> [m \in published.discovered \cup unmatched |->
         IF m \in unmatched THEN Described(previous, profiles, m, m, "PRICED_NOT_DISCOVERED", published.prices[m])
         ELSE IF key(m) = None THEN Described(previous, profiles, m, None, "MISSING_PRICE", None)
         ELSE Described(previous, profiles, m, key(m), "AVAILABLE", published.prices[key(m)])]]

(***************************************************************************)
(* Fragments of catalogs (router_v2.py): the newest of a provider if it is *)
(* usable, and otherwise the last one that was.                            *)
(***************************************************************************)
ValidFragment(f) ==
  /\ f.boundary \in Boundary /\ f.generated < f.until
  /\ f.health.state \in {"HEALTHY", "DEGRADED", "UNAVAILABLE", "UNKNOWN"} /\ f.health.checked < f.health.until
  /\ \A m \in DOMAIN f.models : ValidModel(f.models[m])

Usable(f, t) ==
  /\ f.health.state \in {"HEALTHY", "DEGRADED"} /\ f.health.checked <= t /\ t < f.health.until
  /\ t < f.until

Current(given, p) ==
  LET own == {f \in given : ValidFragment(f) /\ f.provider = p}
  IN  IF own = {} THEN None ELSE CHOOSE f \in own : \A o \in own : o.generated <= f.generated

Fresh(given, t) == {p \in Provider : Current(given, p) # None /\ Usable(Current(given, p), t)}

Chosen(given, t) ==
  LET known == (listed \cup {f.provider : f \in given}) \ Fresh(given, t)
      good == {p \in known : IF fragments[p] = None THEN FALSE ELSE Usable(fragments[p], t)}
  IN  [p \in Fresh(given, t) |-> Current(given, p)] @@ [p \in good |-> fragments[p]]

ValidConstraint(c) == c.boundaries # {} /\ c.boundaries \subseteq Boundary /\ c.latency \in Nat \cup {None}

\* What a request allows: boundaries and classes of data, and bounds on resources and latency, which
\* need evidence. The share of each bound that a model needs is its pressure.
Bounded(c, model) ==
  /\ model.quality \in {"MEASURED", "CONFIGURED"}
  /\ c.latency # None => model.latency # None /\ model.latency <= c.latency
  /\ DOMAIN c.limits # {} => model.estimate # None /\ model.provenance \in {"MEASURED", "CONFIGURED"}
  /\ \A x \in DOMAIN c.limits : x \in DOMAIN model.estimate /\ model.estimate[x] <= c.limits[x]

CostIsEvident(model, t) == model.resource = None \/ (model.resource.observed <= t /\ t < model.resource.until)
Pressure(c, model) ==
  MapThenSumSet(LAMBDA x : IF c.limits[x] = 0 THEN 0 ELSE (100 * model.estimate[x]) \div c.limits[x], DOMAIN c.limits)

Combined(chosen, c, t) ==
  LET allowed == {p \in DOMAIN chosen : chosen[p].boundary \in c.boundaries /\ (chosen[p].boundary \in Far => c.data \in c.far)}
      of(m) == CHOOSE p \in DOMAIN chosen : m \in DOMAIN chosen[p].models
      model(m) == chosen[of(m)].models[m]
      kept == {m \in UNION {DOMAIN chosen[p].models : p \in allowed} : Bounded(c, model(m)) /\ CostIsEvident(model(m), t)}
  IN  [epoch |-> [p \in DOMAIN chosen |-> chosen[p].epoch], generated |-> t, trials |-> 3,
       until |-> IF DOMAIN chosen = {} THEN t + 1 ELSE Min({chosen[p].until : p \in DOMAIN chosen}),
       models |-> [m \in kept |->
         [model(m) EXCEPT !.remote = chosen[of(m)].boundary \in Far, !.pressure = Pressure(c, model(m)),
                          !.fixed = IF model(m).resource = None THEN 0 ELSE model(m).resource.cost]]]

(***************************************************************************)
(* The ledger of evaluations: a pair has an arm for the candidate and, if  *)
(* there is one, for the incumbent. Reservations of a day count against    *)
(* its budget, with what was spent on it.                                  *)
(***************************************************************************)
Expired(t) == {i \in DOMAIN reservations : reservations[i].until <= t}
Ledger(t) ==  \* without the reservations that have expired, and their pairs
  [reservations |-> Restrict(reservations, DOMAIN reservations \ Expired(t)),
   pairs |-> [p \in DOMAIN pairs |->
     IF pairs[p].status = "ACTIVE" /\ \E i \in Expired(t) : i[1] = p THEN [pairs[p] EXCEPT !.status = "EXPIRED"] ELSE pairs[p]]]

\* Mutant: what others have reserved is not counted.
ReservedByNobody(held, day) == 0
Reserved(held, day) == Total([i \in DOMAIN held |-> held[i].reserved], {i \in DOMAIN held : held[i].day = day})
SpentOn(day) == IF day \in DOMAIN spend THEN spend[day] ELSE 0

ArmsOf(trial) == IF trial.incumbent = None THEN {"candidate"} ELSE Arm
Run(trial, arm) ==
  IF arm = "incumbent" THEN trial.incumbent ELSE [model |-> trial.candidate, cost |-> trial.cost, epoch |-> trial.epoch]
Reservation(run, t) ==
  [day |-> Day(t), model |-> run.model, reserved |-> run.cost, epoch |-> run.epoch, until |-> t + SlotsPerDay]
Pair(trial, t) ==
  [status |-> "ACTIVE", candidate |-> trial.candidate, class |-> trial.class, day |-> Day(t),
   arms |-> [arm \in ArmsOf(trial) |-> [settled |-> FALSE, cost |-> 0, day |-> 0]]]

ReservePair(ledger, trial, t) ==
  LET p == Cardinality(DOMAIN ledger.pairs) + 1
      new == {p} \X ArmsOf(trial)
  IN  [reservations |-> [i \in DOMAIN ledger.reservations \cup new |->
         IF i \in new THEN Reservation(Run(trial, i[2]), t) ELSE ledger.reservations[i]],
       pairs |-> [q \in DOMAIN ledger.pairs \cup {p} |-> IF q = p THEN Pair(trial, t) ELSE ledger.pairs[q]]]

Amount(trial) == trial.cost + (IF trial.incumbent = None THEN 0 ELSE trial.incumbent.cost)
Considered(ledger, trial, plan) ==
  IF SpentOn(Day(plan.at)) + Reserved(ledger.reservations, Day(plan.at)) + Amount(trial) > plan.limit THEN ledger
  ELSE ReservePair(ledger, trial, plan.at)
ReserveAll(plan) ==
  LET after[n \in 0 .. Len(plan.trials)] ==
        IF n = 0 THEN Ledger(plan.at) ELSE Considered(after[n - 1], plan.trials[n], plan)
  IN  after[Len(plan.trials)]

\* A pair counts for its candidate when all its arms are settled.
\* Mutant: any settled arm completes its pair.
CompletesOnArm(pair) == TRUE
Completes(pair) == \A arm \in DOMAIN pair.arms : pair.arms[arm].settled

(***************************************************************************)
(* Operations.                                                             *)
(***************************************************************************)
RouterInit ==
  /\ now = 0 /\ scenario \in DOMAIN Scenarios
  /\ file = Scenarios[scenario].catalog /\ served = Scenarios[scenario].catalog
  /\ outcomes = [k \in Model \X Class |-> [successes |-> 0, failures |-> 0, latency |-> None, evaluations |-> 0]]
  /\ sessions = [s \in {} |-> None]
  /\ reservations = [i \in {} |-> None] /\ pairs = [p \in {} |-> None] /\ spend = [d \in {} |-> 0]
  /\ locked = FALSE
  /\ syncs = [c \in Client |-> None] /\ plans = [c \in Client |-> None]
  /\ fragments = [p \in Provider |-> None] /\ listed = {} /\ listings = {}
  /\ decision = None

\* A synchronisation reads the catalog, asks the provider, and replaces the catalog, or fails.
StartSync(c) ==
  /\ "SYNC" \in Scenarios[scenario].events /\ syncs[c] = None /\ ValidCatalog(file)
  /\ \E profiles \in Scenarios[scenario].profiles : syncs' = [syncs EXCEPT ![c] = [previous |-> file, profiles |-> profiles]]
  /\ UNCHANGED <<now, scenario, runtime, file, served, stored, plans, decision>>

FinishSync(c) ==
  /\ syncs[c] # None
  /\ syncs' = [syncs EXCEPT ![c] = None]
  /\ \E published \in Scenarios[scenario].published \cup {None} :
       file' = IF published = None THEN file ELSE SyncCatalog(syncs[c].previous, syncs[c].profiles, published, now)
  /\ UNCHANGED <<now, scenario, runtime, served, stored, plans, decision>>

\* Somebody else writes a catalog.
ReplaceCatalog ==
  /\ file' \in Scenarios[scenario].others
  /\ UNCHANGED <<now, scenario, runtime, served, syncs, stored, plans, decision>>

\* A tool call of the server first loads the catalog if the file has changed; it keeps what it has if
\* that is not a valid catalog.
Decided(catalog, r) ==
  [result |-> Route(catalog, r, outcomes, sessions, now), catalog |-> catalog, request |-> r, outcomes |-> outcomes,
   sessions |-> sessions, at |-> now]

RouteOnServer(r) ==
  /\ "ROUTE" \in Scenarios[scenario].events /\ ValidRequest(r)
  /\ served' = IF ValidCatalog(file) THEN file ELSE served
  /\ decision' = Decided(served', r)
  /\ UNCHANGED <<now, scenario, runtime, file, syncs, stored, plans>>

\* Fragments that are used are kept, each in its file; then the index is read and written.
RouteFragments(c, r, given) ==
  /\ "FRAGMENTS" \in Scenarios[scenario].events /\ ValidRequest(r) /\ ValidConstraint(c)
  /\ fragments' = [p \in Provider |-> IF p \in Fresh(given, now) THEN Current(given, p) ELSE fragments[p]]
  /\ listings' = listings \cup {listed \cup Fresh(given, now)}
  /\ LET catalog == Combined(Chosen(given, now), c, now)
     IN  decision' = IF ValidCatalog(catalog) THEN Decided(catalog, r) ELSE decision
  /\ UNCHANGED <<now, scenario, runtime, catalogs, listed, plans>>

WriteIndex ==
  /\ \E i \in listings : listed' = i /\ listings' = listings \ {i}
  /\ UNCHANGED <<now, scenario, runtime, catalogs, fragments, plans, decision>>

PlanEvaluation(c, r, plan) ==
  /\ "EVALUATE" \in Scenarios[scenario].events /\ plans[c] = None /\ ValidRequest(r) /\ r.tier # "LOCAL" /\ ValidCatalog(file)
  /\ LET trials == Trials(file, r, outcomes, sessions, now, plan)
     IN  /\ trials # << >> /\ Cardinality(DOMAIN pairs) + Len(trials) <= Scenarios[scenario].pairs
         /\ plans' = [plans EXCEPT ![c] = [trials |-> trials, limit |-> plan.limit, at |-> now]]
  /\ UNCHANGED <<now, scenario, runtime, catalogs, stored, decision>>

\* Whoever changes the state file may die before or after it is replaced, with the lock.
Dies == locked' = TRUE /\ "DIE" \in Scenarios[scenario].events
Unlocks == locked' = FALSE

Reserve(c) ==
  /\ plans[c] # None /\ ~locked
  /\ plans' = [plans EXCEPT ![c] = None]
  /\ \/ /\ Dies /\ UNCHANGED <<reservations, pairs>>
     \/ /\ Dies \/ Unlocks
        /\ \E ledger \in {ReserveAll(plans[c])} : reservations' = ledger.reservations /\ pairs' = ledger.pairs
  /\ UNCHANGED <<now, scenario, outcomes, sessions, spend, catalogs, stored, decision>>

Row(m, class, success, latency) ==
  LET row == outcomes[<<m, class>>]
  IN  [successes |-> row.successes + (IF success THEN 1 ELSE 0), failures |-> row.failures + (IF success THEN 0 ELSE 1),
       latency |-> IF latency = None THEN row.latency
                   ELSE IF row.latency = None THEN latency ELSE (latency + 3 * row.latency) \div 4,
       evaluations |-> row.evaluations]

Remembered(s, m, tokens, epoch) ==
  IF s = None THEN sessions
  ELSE [t \in DOMAIN sessions \cup {s} |->
         IF t = s THEN [model |-> m, tokens |-> tokens, epoch |-> epoch, until |-> now + SlotsPerDay \div 2] ELSE sessions[t]]

TotalOutcomes == MapThenSumSet(LAMBDA k : Observations(outcomes[k]), DOMAIN outcomes)

RecordOutcome(m, class, success, latency, s, tokens, epoch) ==
  /\ "RECORD" \in Scenarios[scenario].events /\ ~locked /\ TotalOutcomes < MaxOutcomes
  /\ outcomes' = [outcomes EXCEPT ![<<m, class>>] = Row(m, class, success, latency)]
  /\ sessions' = Remembered(s, m, tokens, epoch)
  /\ UNCHANGED <<now, scenario, reservations, pairs, spend, locked, catalogs, stored, plans, decision>>

\* The outcome of an arm. The pair has to be active and, when it is complete, its candidate has to
\* have outcomes in the class the pair was reserved for.
RecordEvaluation(i, class, success, cost) ==
  /\ i \in DOMAIN reservations /\ ~locked
  /\ reservations[i].until > now
  /\ LET m == reservations[i].model
         p == i[1]
         pair == [pairs[p] EXCEPT !.arms[i[2]] = [settled |-> TRUE, cost |-> cost, day |-> Day(now)]]
         recorded == [outcomes EXCEPT ![<<m, class>>] = Row(m, class, success, None)]
         candidate == <<pair.candidate, pair.class>>
     IN  /\ pairs[p].status = "ACTIVE" /\ ~pairs[p].arms[i[2]].settled
         /\ Completes(pair) => Observations(recorded[candidate]) > 0
         /\ outcomes' = IF Completes(pair) THEN [recorded EXCEPT ![candidate].evaluations = @ + 1] ELSE recorded
         /\ pairs' = [pairs EXCEPT ![p] = IF Completes(pair) THEN [pair EXCEPT !.status = "COMPLETED"] ELSE pair]
  /\ reservations' = Restrict(reservations, DOMAIN reservations \ {i})
  /\ spend' = [d \in DOMAIN spend \cup {Day(now)} |-> IF d = Day(now) THEN SpentOn(d) + cost ELSE spend[d]]
  /\ \/ Unlocks
     \/ Dies
  /\ UNCHANGED <<now, scenario, sessions, catalogs, stored, plans, decision>>

TimePasses == now < Scenarios[scenario].last /\ now' = now + 1 /\ UNCHANGED <<scenario, runtime, catalogs, stored, plans, decision>>

RouterNext ==
  \/ \E c \in Client : StartSync(c)
  \/ \E c \in Client : FinishSync(c)
  \/ ReplaceCatalog
  \/ \E r \in Scenarios[scenario].requests : RouteOnServer(r)
  \/ \E r \in Scenarios[scenario].requests, c \in Scenarios[scenario].constraints, given \in Scenarios[scenario].given : RouteFragments(c, r, given)
  \/ WriteIndex
  \/ \E c \in Scenarios[scenario].callers, r \in Scenarios[scenario].requests, plan \in Scenarios[scenario].plans : PlanEvaluation(c, r, plan)
  \/ \E c \in Client : Reserve(c)
  \/ \E m \in Model, class \in Scenarios[scenario].classes, success \in Scenarios[scenario].success, s \in Scenarios[scenario].sessions :
       RecordOutcome(m, class, success, Scenarios[scenario].latency, s, Scenarios[scenario].tokens, Scenarios[scenario].epoch)
  \/ \E i \in DOMAIN reservations, class \in Scenarios[scenario].classes, success \in Scenarios[scenario].success :
       \E cost \in {0, reservations[i].reserved} : RecordEvaluation(i, class, success, cost)
  \/ TimePasses

RouterSpec == RouterInit /\ [][RouterNext]_routerVars

(***************************************************************************)
(* Properties.                                                             *)
(***************************************************************************)
\* Whoever honours the expiry of a decision would get the same chain again from what it was made of:
\* no price that entered the comparison changes earlier. (The session of the request may expire.)
Again(d) == Route(d.catalog, d.request, d.outcomes, d.sessions, now)
Relevant(d, t) == Affinity(d.sessions, d.request, t)
DecisionHolds ==
  decision # None =>
    (now < decision.result.until /\ Relevant(decision, now) = Relevant(decision, decision.at)
       => Again(decision).chain = decision.result.chain)

\* Evaluators that reserve concurrently, die and are late stay within the budget of a day: what was
\* spent from reservations of the day, and what is still reserved for it.
Arms == {i \in (DOMAIN pairs) \X Arm : i[2] \in DOMAIN pairs[i[1]].arms}
Settled == {i \in Arms : pairs[i[1]].arms[i[2]].settled}
Costs == [i \in Arms |-> pairs[i[1]].arms[i[2]].cost]
ReservedThen(day) == {i \in Settled : pairs[i[1]].day = day /\ pairs[i[1]].arms[i[2]].day = day}
WithinBudget ==
  \A p \in DOMAIN pairs : \E plan \in Scenarios[scenario].plans :
    Total(Costs, ReservedThen(pairs[p].day)) + Reserved(reservations, pairs[p].day) <= plan.limit

Completed(k) == {p \in DOMAIN pairs : <<pairs[p].candidate, pairs[p].class>> = k /\ pairs[p].status = "COMPLETED"}

\* The ledger balances: what was spent is what the arms of pairs were settled for, an arm is reserved
\* or settled or its pair has expired, and models are assessed by complete pairs only.
LedgerBalances ==
  /\ Total(spend, DOMAIN spend) = Total(Costs, Settled)
  /\ \A i \in Arms : i \in DOMAIN reservations => i \notin Settled /\ pairs[i[1]].status = "ACTIVE"
  /\ \A p \in DOMAIN pairs : pairs[p].status = "COMPLETED" <=> \A arm \in DOMAIN pairs[p].arms : <<p, arm>> \in Settled
  /\ \A k \in DOMAIN outcomes : outcomes[k].evaluations = Cardinality(Completed(k))
===============================================================================
