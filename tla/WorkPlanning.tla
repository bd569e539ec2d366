----------------------------- MODULE WorkPlanning -----------------------------
(***************************************************************************)
(* The planner of foundation-ai-work/v1 (ai_work.py): from a work request  *)
(* and a catalog of capability descriptors it derives a plan, without any  *)
(* state. The executor derives the plan again before it starts.            *)
(*                                                                         *)
(* Times are numbers. Two resources stand for the seven of the code: cpu   *)
(* adds up over attempts, ram is a peak. None is a field that is absent.   *)
(***************************************************************************)
EXTENDS FiniteSets, Integers, Sequences

CONSTANTS
  Capability,  \* identifiers of descriptors, numbers: the planner breaks ties by them
  None

ASSUME CapabilityAssumption == Capability \subseteq Nat /\ None \notin Int

Effect == {"LOCAL_READ", "LOCAL_WRITE", "EXTERNAL_WRITE", "PUBLISH", "DATA_TRANSFER", "SPEND"}
ExternalEffect == {"EXTERNAL_WRITE", "PUBLISH", "DATA_TRANSFER", "SPEND"}
DataClass == {"PUBLIC", "INTERNAL", "CONFIDENTIAL", "RESTRICTED"}
Risk == {"LOW", "MODERATE", "HIGH", "CRITICAL"}
Boundary == <<"PROCESS", "HOST", "LOCAL_NETWORK", "REMOTE", "UNKNOWN", "HUMAN">>
Resource == {"cpu", "ram"}

RangeOf(s) == {s[n] : n \in DOMAIN s}
Amount == Nat \cup {None}

(***************************************************************************)
(* Requests and descriptors. A request that is not valid is refused, a     *)
(* descriptor that is not valid is left out of the catalog.                *)
(***************************************************************************)
ValidRequest(r) ==
  /\ r.effects \subseteq Effect
  /\ r.functions # {}
  /\ r.boundaries # {} /\ r.boundaries \subseteq RangeOf(Boundary)
  /\ r.dataClass \in DataClass /\ r.risk \in Risk
  /\ r.remoteClasses \subseteq DataClass
  /\ r.floor \in 0 .. 100 \cup {None}  \* a percentage
  /\ r.deadline \in Amount /\ r.maxCost \in Amount
  /\ r.maxAttempts \in (Nat \ {0}) \cup {None}
  /\ r.limit \in [Resource -> Amount]
  /\ r.independent \in BOOLEAN /\ r.allowHuman \in BOOLEAN

\* What is not known carries no value, and health does not expire before it was checked.
ValidDescriptor(c) ==
  /\ c.functions # {} /\ c.classes # {} /\ c.classes \subseteq DataClass
  /\ c.boundary \in RangeOf(Boundary)
  /\ c.checked <= c.expires
  /\ c.success \in 0 .. 100 \cup {None} /\ (~c.measured => c.success = None)
  /\ c.cost \in Amount /\ (~c.quoted => c.cost = None)
  /\ c.usage \in [Resource -> Amount]
  /\ c.idempotent \in BOOLEAN

(***************************************************************************)
(* A raw catalog is a sequence of descriptors. An identifier that occurs   *)
(* more than once is left out with all its descriptors.                    *)
(***************************************************************************)
Catalog(raw) ==
  LET valid == {n \in DOMAIN raw : ValidDescriptor(raw[n])}
      alone == {n \in valid : \A m \in valid : raw[m].id = raw[n].id => m = n}
  IN  [id \in {raw[n].id : n \in alone} |-> raw[CHOOSE n \in alone : raw[n].id = id]]

(***************************************************************************)
(* Why a capability may not be used at a time; nobody may without reason.  *)
(***************************************************************************)
PolicyReason == {"REMOTE_DATA_NOT_AUTHORIZED", "CAPABILITY_AUTHORITY_MISSING",
                 "BOUNDARY_NOT_ALLOWED", "DATA_CLASS_NOT_SUPPORTED"}

Ineligibility(r, c, at) ==
  {reason \in PolicyReason \cup {"HEALTH_NOT_USABLE", "HEALTH_EXPIRED", "HEALTH_NOT_YET_VALID",
                                 "QUALITY_UNKNOWN", "QUALITY_FLOOR_NOT_MET",
                                 "COST_UNKNOWN", "COST_LIMIT_EXCEEDED",
                                 "RESOURCE_UNKNOWN", "RESOURCE_LIMIT_EXCEEDED"} :
    CASE reason = "HEALTH_NOT_USABLE" -> c.health \notin {"HEALTHY", "DEGRADED"}
      [] reason = "HEALTH_EXPIRED" -> c.expires <= at
      [] reason = "HEALTH_NOT_YET_VALID" -> c.checked > at
      [] reason = "BOUNDARY_NOT_ALLOWED" -> c.boundary \notin r.boundaries
      [] reason = "DATA_CLASS_NOT_SUPPORTED" -> r.dataClass \notin c.classes
      [] reason = "REMOTE_DATA_NOT_AUTHORIZED" ->
           c.boundary \in {"REMOTE", "UNKNOWN"} /\ r.dataClass \notin r.remoteClasses
      [] reason = "CAPABILITY_AUTHORITY_MISSING" -> ~(c.authorities \subseteq r.granted)
      [] reason = "QUALITY_UNKNOWN" -> r.floor # None /\ c.success = None
      [] reason = "QUALITY_FLOOR_NOT_MET" -> r.floor # None /\ c.success # None /\ c.success < r.floor
      [] reason = "COST_UNKNOWN" -> r.maxCost # None /\ c.cost = None
      [] reason = "COST_LIMIT_EXCEEDED" -> r.maxCost # None /\ c.cost # None /\ c.cost > r.maxCost
      [] reason = "RESOURCE_UNKNOWN" -> \E x \in Resource : r.limit[x] # None /\ c.usage[x] = None
      [] reason = "RESOURCE_LIMIT_EXCEEDED" ->
           \E x \in Resource : r.limit[x] # None /\ c.usage[x] # None /\ c.usage[x] > r.limit[x]}

Eligible(r, c, at) == Ineligibility(r, c, at) = {}

(***************************************************************************)
(* The order of preference: deterministic first, then known and low cost,  *)
(* low pressure on resources, near boundary, identifier. The pressure is   *)
(* the sum of usage / limit, here over the common denominator.             *)
(***************************************************************************)
OrElse(value, default) == IF value = None THEN default ELSE value

Divisor(r, x) == IF r.limit[x] \in {None, 0} THEN 1 ELSE r.limit[x]

Pressure(r, c) == OrElse(c.usage["cpu"], 0) * Divisor(r, "ram") + OrElse(c.usage["ram"], 0) * Divisor(r, "cpu")

Rank(r, c) ==
  <<IF c.deterministic THEN 0 ELSE 1,
    IF c.cost = None THEN 1 ELSE 0,
    OrElse(c.cost, 0),
    Pressure(r, c),
    CHOOSE n \in DOMAIN Boundary : Boundary[n] = c.boundary,
    c.id>>

Lexicographic(s, t) == \E n \in DOMAIN s : s[n] < t[n] /\ \A m \in 1 .. n - 1 : s[m] = t[m]

Preferred(r, catalog, ids) ==
  CHOOSE i \in ids : \A j \in ids \ {i} : Lexicographic(Rank(r, catalog[i]), Rank(r, catalog[j]))

(***************************************************************************)
(* The plan. A step has the preferred capability and the others that could *)
(* do it. An approval point before the work collects the reasons for which *)
(* somebody has to approve.                                                *)
(***************************************************************************)
EffectAuthority(effect) ==
  CASE effect = "LOCAL_READ" -> "filesystem:read"
    [] effect = "LOCAL_WRITE" -> "filesystem:write"
    [] effect = "EXTERNAL_WRITE" -> "external:write"
    [] effect = "PUBLISH" -> "publish"
    [] effect = "DATA_TRANSFER" -> "data:transfer"
    [] effect = "SPEND" -> "spend"

Workers(r, catalog, at) ==
  {i \in DOMAIN catalog : /\ r.functions \subseteq catalog[i].functions
                          /\ Eligible(r, catalog[i], at)
                          /\ catalog[i].kind # "HUMAN"}

\* If validation has to be independent, the preferred worker does not validate.
Validators(r, catalog, at) ==
  LET workers == Workers(r, catalog, at)
      able == {i \in DOMAIN catalog : /\ catalog[i].kind = "VALIDATOR"
                                      /\ r.scopes # {} /\ r.scopes \subseteq catalog[i].functions
                                      /\ Eligible(r, catalog[i], at)}
  IN  IF r.independent /\ workers # {} THEN able \ {Preferred(r, catalog, workers)} ELSE able

NeedsApproval(r) ==
  \/ r.risk \in {"HIGH", "CRITICAL"} /\ "approve:high_impact" \notin r.granted
  \/ r.effects \cap ExternalEffect # {}

\* The status before steps are made, in the order of the code: a later reason replaces "EXECUTABLE" only.
Feasibility(r, catalog, at) ==
  LET workers == Workers(r, catalog, at)
      manual == IF r.allowHuman THEN "MANUAL_REQUIRED" ELSE "UNAVAILABLE"
      refused == {i \in DOMAIN catalog : /\ r.functions \subseteq catalog[i].functions
                                         /\ Ineligibility(r, catalog[i], at) \cap PolicyReason # {}}
  IN  IF \/ r.deadline # None /\ r.deadline <= at
         \/ \E e \in r.effects : EffectAuthority(e) \notin r.granted
      THEN "BLOCKED"
      ELSE IF workers = {} THEN IF refused # {} THEN "BLOCKED" ELSE manual
      ELSE IF r.scopes # {} /\ Validators(r, catalog, at) = {} THEN manual
      ELSE "EXECUTABLE"

MinOf(S) == CHOOSE n \in S : \A m \in S : n <= m

Plan(r, catalog, at) ==
  LET workers == Workers(r, catalog, at)
      validators == Validators(r, catalog, at)
      chosen == {Preferred(r, catalog, S) : S \in {workers, validators} \ {{}}}
      feasible == Feasibility(r, catalog, at)
      gate == feasible = "EXECUTABLE" /\ NeedsApproval(r)
  IN  [status |-> IF gate /\ "approve:risk-boundary" \notin r.granted THEN "MANUAL_REQUIRED" ELSE feasible,
       steps |-> IF feasible # "EXECUTABLE" THEN << >>
                 ELSE <<[name |-> "work", candidates |-> workers]>>
                      \o IF r.scopes = {} THEN << >> ELSE <<[name |-> "validate", candidates |-> validators]>>,
       gate |-> gate,
       generated |-> at,
       validUntil |-> MinOf({at + 5} \cup {catalog[i].expires : i \in chosen}
                                     \cup (IF r.deadline = None THEN {} ELSE {r.deadline}))]
===============================================================================
