----------------------------- MODULE ModelRouting -----------------------------
(***************************************************************************)
(* The decision of the model router (model_router.py): which models of a   *)
(* catalog are eligible for a request, what an attempt with each of them   *)
(* costs, and the chain of attempts with the least expected cost of a      *)
(* success. The router reads state and decides; it invokes nothing.        *)
(*                                                                         *)
(* Money, tokens and latencies are small numbers. Probabilities are        *)
(* fractions: of a prior in units of 1 / STRENGTH and of what was observed.*)
(* A clock has SlotsPerDay slots, a week has DaysPerWeek days.             *)
(***************************************************************************)
EXTENDS Optional, FiniteSets, FiniteSetsExt, Integers, SequencesExt

CONSTANTS
  Model,           \* models, of all providers
  Identity,        \* of a model: its place in the order of identities
  SlotsPerDay, DaysPerWeek

ASSUME RoutingAssumption ==
  /\ Identity \in [Model -> Nat] /\ \A m, n \in Model : Identity[m] = Identity[n] => m = n
  /\ SlotsPerDay \in Nat \ {0} /\ DaysPerWeek \in Nat \ {0}

Tier == {"LOCAL", "ECONOMICAL", "BALANCED", "FRONTIER"}
Strength == 4   \* quality_prior_strength
MaxSearch == 250000

(***************************************************************************)
(* Prices and when they change. A schedule holds on days of the week from  *)
(* one time of the day to another, past midnight if that is not later.     *)
(***************************************************************************)
Day(t) == t \div SlotsPerDay
Clock(t) == t % SlotsPerDay
Weekday(day) == day % DaysPerWeek

ScheduleActive(s, t) ==
  LET today == Weekday(Day(t)) \in s.days
      yesterday == Weekday(Day(t) - 1) \in s.days
  IN  IF s.start < s.end THEN today /\ s.start <= Clock(t) /\ Clock(t) < s.end
      ELSE (today /\ s.start <= Clock(t)) \/ (yesterday /\ Clock(t) < s.end)

Starts(s, day) == day * SlotsPerDay + s.start
\* Mutant: a schedule that lasts over midnight ends on the day it began.
EndsWithinDay(s, day) == day * SlotsPerDay + s.end
Ends(s, day) == (IF s.end <= s.start THEN day + 1 ELSE day) * SlotsPerDay + s.end

Days(s, t) == {day \in Day(t) - 1 .. Day(t) + DaysPerWeek + 1 : Weekday(day) \in s.days}
Boundaries(schedules, t) == UNION {UNION {{Starts(s, day), Ends(s, day)} : day \in Days(s, t)} : s \in schedules}
Transitions(schedules, t) == {b \in Boundaries(schedules, t) : b > t}

\* The schedule whose rates hold: of those that are active the one of the highest priority.
Active(schedules, t) == {s \in schedules : ScheduleActive(s, t)}
Highest(active) == CHOOSE s \in active : \A o \in active : o.priority < s.priority \/ (o.priority = s.priority /\ o.id <= s.id)
Selected(schedules, t) == IF Active(schedules, t) = {} THEN None ELSE Highest(Active(schedules, t))

Rates(pricing, t) ==
  LET s == Selected(pricing.schedules, t)
      rates == IF s = None THEN pricing.base ELSE s.rates
  IN  [input |-> rates.input, output |-> rates.output, cached |-> IF rates.cached = None THEN rates.input ELSE rates.cached]

Epoch(catalog, m, t) ==
  LET s == Selected(catalog.models[m].pricing.schedules, t) IN <<catalog.epoch, IF s = None THEN 0 ELSE s.id>>

(***************************************************************************)
(* Which requests and catalogs are accepted. (Types of values apart.)      *)
(***************************************************************************)
ValidRequest(r) ==
  /\ r.tier \in Tier
  /\ {r.context, r.cached, r.output} \subseteq Nat /\ r.cached <= r.context /\ (r.cached > 0 => r.current # None)
  /\ r.floor.of <= r.floor.in
  /\ {r.limit, r.failure, r.value, r.switching, r.fallbacks} \subseteq Nat \cup {None}

ValidPricing(pricing) ==
  /\ \A rates \in {pricing.base} \cup {s.rates : s \in pricing.schedules} :
       rates.input \in Nat /\ rates.output \in Nat /\ rates.cached \in Nat \cup {None}
  /\ IsFiniteSet(pricing.schedules)
  /\ \A s \in pricing.schedules :
       /\ s.id \in Nat \ {0} /\ s.priority \in Int
       /\ s.days \subseteq 0 .. DaysPerWeek - 1 /\ {s.start, s.end} \subseteq 0 .. SlotsPerDay - 1
       /\ \A o \in pricing.schedules : o.id = s.id => o = s

ValidProfile(model) ==
  /\ model.assessment \in {"ASSESSED", "UNASSESSED", "DISABLED"}
  /\ model.tiers \subseteq Tier \ {"LOCAL"}
  /\ model.window \in (Nat \ {0}) \cup {None}
  /\ \A class \in DOMAIN model.prior : model.prior[class] \in 0 .. Strength
  /\ model.latency \in Nat

ValidModel(model) ==
  /\ ValidProfile(model)
  /\ model.availability \in {"AVAILABLE", "PRICED_NOT_DISCOVERED", "MISSING_PRICE", "UNAVAILABLE"}
  /\ {model.fixed, model.pressure} \subseteq Nat
  /\ IF model.pricing = None THEN TRUE ELSE ValidPricing(model.pricing)

ValidCatalog(catalog) ==
  /\ {catalog.generated, catalog.until} \subseteq Int /\ catalog.generated < catalog.until /\ catalog.trials >= 1
  /\ \A m \in DOMAIN catalog.models : ValidModel(catalog.models[m])

(***************************************************************************)
(* What was observed of a model in a class of tasks, and the chance that   *)
(* it succeeds: [of, in].                                                  *)
(***************************************************************************)
Observations(row) == row.successes + row.failures
Success(model, row, class) ==
  [of |-> (IF class \in DOMAIN model.prior THEN model.prior[class] ELSE Strength \div 2) + row.successes,
   in |-> Strength + Observations(row)]
AtLeast(p, floor) == p.of * floor.in >= floor.of * p.in
Assessed(catalog, model, row) == model.assessment = "ASSESSED" \/ row.evaluations >= catalog.trials

(***************************************************************************)
(* Eligibility, before and after prices are known. Evaluations look at     *)
(* models that are not assessed, of any tier and quality.                  *)
(***************************************************************************)
Suitable(catalog, r, row, m, t, evaluating) ==
  LET model == catalog.models[m]
  IN  /\ r.providers = {} \/ model.provider \in r.providers
      /\ m \notin r.failed
      /\ model.availability = "AVAILABLE" /\ model.assessment # "DISABLED"
      /\ model.remote => r.remote
      /\ t < catalog.until
      /\ r.capabilities \subseteq model.capabilities
      /\ IF model.window = None THEN r.context = 0 \/ r.unknown ELSE r.context + r.output <= model.window
      /\ IF evaluating THEN ~Assessed(catalog, model, row)
         ELSE /\ r.tier \in model.tiers
              /\ Assessed(catalog, model, row)
              /\ AtLeast(Success(model, row, r.class), r.floor)
      /\ model.pricing # None

\* The session of the request, unless it has expired: [model, tokens, epoch, until].
Affinity(sessions, r, t) ==
  IF r.session = None \/ r.session \notin DOMAIN sessions THEN None
  ELSE IF sessions[r.session].until <= t THEN None ELSE sessions[r.session]

Candidate(catalog, r, row, session, m, t) ==
  LET model == catalog.models[m]
      rates == Rates(model.pricing, t)
      epoch == Epoch(catalog, m, t)
      affine == IF session = None THEN FALSE ELSE session.model = m /\ session.epoch = epoch
      current == IF r.current = m THEN r.cached ELSE 0
      cached == IF affine THEN Max({current, Min({r.context, session.tokens})}) ELSE current
  IN  [model |-> m, success |-> Success(model, row, r.class), epoch |-> epoch, cached |-> cached,
       cost |-> (r.context - cached) * rates.input + cached * rates.cached + r.output * rates.output + model.fixed,
       pressure |-> model.pressure, latency |-> IF row.latency = None THEN model.latency ELSE row.latency,
       switch |-> IF r.current = m \/ affine \/ (r.current = None /\ session = None) THEN 0 ELSE r.switching]

Eligible(catalog, r, outcomes, t, evaluating) ==
  {m \in DOMAIN catalog.models : Suitable(catalog, r, outcomes[<<m, r.class>>], m, t, evaluating)}

Priced(catalog, r, outcomes, sessions, t, evaluating) ==
  {Candidate(catalog, r, outcomes[<<m, r.class>>], Affinity(sessions, r, t), m, t) : m \in Eligible(catalog, r, outcomes, t, evaluating)}

Affordable(r, priced) == {c \in priced : r.limit = None \/ c.cost <= r.limit}

(***************************************************************************)
(* The economics of a chain of attempts, each of which is reached if all   *)
(* before it fail. All values are over the same denominator.               *)
(***************************************************************************)
Attempt(e, c) ==
  [in |-> e.in * c.success.in, reach |-> e.reach * (c.success.in - c.success.of),
   spend |-> (e.spend + e.reach * c.cost) * c.success.in,
   pressure |-> (e.pressure + e.reach * c.pressure) * c.success.in,
   switch |-> (e.switch + e.reach * c.switch) * c.success.in,
   latency |-> (e.latency + e.reach * c.latency) * c.success.in]

Economics(chain) ==
  FoldLeft(Attempt, [in |-> 1, reach |-> 1, spend |-> 0, pressure |-> 0, switch |-> 0, latency |-> 0], chain)

\* The expected cost of a success: [of, in]. A chain that cannot succeed counts as one in a hundred.
CostOfSuccess(r, e) ==
  LET total == e.spend + e.switch + e.reach * r.failure
      success == e.in - e.reach
      late == e.latency * r.value
  IN  IF success = 0 THEN [of |-> 100 * total + late, in |-> e.in]
      ELSE IF late = 0 THEN [of |-> total, in |-> success]
      ELSE [of |-> total * e.in + late * success, in |-> success * e.in]

Less(p, q) == p.of * q.in < q.of * p.in
Equal(p, q) == p.of * q.in = q.of * p.in
\* A longer chain has to be better than the chain without its last attempt, by one in a thousand.
Material(p, q) == 1000 * p.of * q.in <= 999 * q.of * p.in /\ Less(p, q)

Chains(r, candidates) ==
  UNION {{c \in [1 .. n -> candidates] : \A i, j \in 1 .. n : c[i] = c[j] => i = j} :
         n \in 1 .. Min({Cardinality(candidates), r.fallbacks + 1})}

Within(r, chain) == LET e == Economics(chain) IN r.limit = None \/ e.spend <= r.limit * e.in

Worth(r, chain) ==
  LET e == Economics(chain)
  IN  [models |-> [i \in 1 .. Len(chain) |-> chain[i].model], epoch |-> chain[1].epoch, cost |-> CostOfSuccess(r, e),
       pressure |-> [of |-> e.pressure, in |-> e.in]]

\* The chains within the limit whose last attempt is worth it.
Admitted(r, chains) ==
  {Worth(r, c) : c \in {k \in chains :
     Within(r, k) /\ (Len(k) > 1 => Material(Worth(r, k).cost, Worth(r, Front(k)).cost))}}

Before(a, b) ==  \* in the order of tuples of identities
  \E i \in 1 .. Min({Len(a), Len(b)}) : Identity[a[i]] < Identity[b[i]] /\ \A j \in 1 .. i - 1 : a[j] = b[j]

Better(a, b) ==
  \/ Less(a.cost, b.cost)
  \/ /\ Equal(a.cost, b.cost)
     /\ \/ Less(a.pressure, b.pressure)
        \/ /\ Equal(a.pressure, b.pressure)
           /\ Len(a.models) < Len(b.models) \/ (Len(a.models) = Len(b.models) /\ Before(a.models, b.models))

(***************************************************************************)
(* A decision holds until a price of any model that was eligible changes,  *)
(* or the catalog expires.                                                 *)
(***************************************************************************)
Expiry(catalog, eligible, t) ==
  Min({catalog.until} \cup UNION {Transitions(catalog.models[m].pricing.schedules, t) : m \in eligible})

NoRoute(until) == [status |-> "NO_ROUTE", chain |-> << >>, epoch |-> None, until |-> until]
Routed(w, until) == [status |-> "ROUTED", chain |-> w.models, epoch |-> w.epoch, until |-> until]
BestOf(admitted, until) ==
  LET best == {w \in admitted : \A o \in admitted \ {w} : Better(w, o)}
  IN  IF best = {} THEN NoRoute(until) ELSE Routed(CHOOSE w \in best : TRUE, until)
Searched(r, chains, until) ==
  IF Cardinality(chains) > MaxSearch THEN NoRoute(until) ELSE BestOf(Admitted(r, chains), until)

LocalOnly(until) == [status |-> "LOCAL_ONLY", chain |-> << >>, epoch |-> None, until |-> until]
Route(catalog, r, outcomes, sessions, t) ==
  IF r.tier = "LOCAL" THEN LocalOnly(t + 1)
  ELSE Searched(r, Chains(r, Affordable(r, Priced(catalog, r, outcomes, sessions, t, FALSE))),
                Expiry(catalog, Eligible(catalog, r, outcomes, t, FALSE), t))

(***************************************************************************)
(* The trials of an evaluation: the cheapest models that are not assessed, *)
(* each paired with the model that would be chosen, within a limit.        *)
(***************************************************************************)
Cheaper(a, b) == a.cost < b.cost \/ (a.cost = b.cost /\ Identity[a.model] < Identity[b.model])

Incumbent(priced, chain) ==
  IF chain = << >> THEN None
  ELSE LET c == CHOOSE k \in priced : k.model = chain[1] IN [model |-> c.model, cost |-> c.cost, epoch |-> c.epoch]

\* Of the cheapest candidate that is left, as many samples as fit into what remains.
Sample(acc, class, known, samples) ==
  LET c == CHOOSE k \in acc.rest : \A o \in acc.rest \ {k} : Cheaper(k, o)
      paired == c.cost + (IF known = None THEN 0 ELSE known.cost)
      fit == Max({n \in 0 .. samples : n * paired <= acc.left})
      trial == [candidate |-> c.model, class |-> class, cost |-> c.cost, epoch |-> c.epoch, incumbent |-> known]
  IN  [rest |-> acc.rest \ {c}, left |-> acc.left - fit * paired, trials |-> acc.trials \o [i \in 1 .. fit |-> trial]]

Sampled(candidates, class, known, plan) ==
  LET after[n \in 0 .. plan.candidates] ==
        IF n = 0 THEN [rest |-> candidates, left |-> plan.limit, trials |-> << >>]
        ELSE IF after[n - 1].rest = {} THEN after[n - 1] ELSE Sample(after[n - 1], class, known, plan.samples)
  IN  after[plan.candidates].trials

Trials(catalog, r, outcomes, sessions, t, plan) ==
  Sampled(Affordable(r, Priced(catalog, r, outcomes, sessions, t, TRUE)), r.class,
          Incumbent(Priced(catalog, r, outcomes, sessions, t, FALSE), Route(catalog, r, outcomes, sessions, t).chain), plan)
===============================================================================
