--------------------------- MODULE LockedStateProofs ---------------------------
(***************************************************************************)
(* Proofs about the two programs that keep a state in files which their    *)
(* processes lock: the model router (ModelRouting, RouterRuntime), first   *)
(* its prices and then its ledger, and the rule context cache              *)
(* (RuleContextCache).                                                     *)
(***************************************************************************)
EXTENDS RouterRuntime, RuleContextCache, DataTheorems

(***************************************************************************)
(* Days, clocks and weekdays.                                              *)
(***************************************************************************)
LEMMA Quotient ==
  ASSUME NEW n \in Nat \ {0}, NEW x \in Int
  PROVE  x % n \in 0 .. n - 1 /\ x \div n \in Int /\ x = n * (x \div n) + (x % n)
OBVIOUS

LEMMA QuotientIs ==
  ASSUME NEW n \in Nat \ {0}, NEW q \in Int, NEW r \in 0 .. n - 1
  PROVE  (n * q + r) % n = r /\ (n * q + r) \div n = q
OBVIOUS

LEMMA RestOfMultiple ==
  ASSUME NEW n \in Nat \ {0}, NEW x \in Int, NEW q \in Int
  PROVE  (x + n * q) % n = x % n
<1>1. x % n \in 0 .. n - 1 /\ x \div n \in Int /\ x = n * (x \div n) + (x % n)
  BY Quotient
<1>2. x + n * q = n * ((x \div n) + q) + (x % n) /\ (x \div n) + q \in Int
  BY <1>1
<1> QED
  BY ONLY <1>1, <1>2, QuotientIs, n \in Nat \ {0}

\* A weekday comes again within a week of any day.
LEMMA WeekdayAgain ==
  ASSUME NEW w \in Nat \ {0}, NEW x \in Int, NEW y \in Int
  PROVE  \E z \in x .. x + w - 1 : z % w = y % w
<1> DEFINE r == (y - x) % w
           q == (y - x) \div w
<1>0. y - x \in Int
  OBVIOUS
<1>1. r \in 0 .. w - 1 /\ q \in Int /\ y - x = w * q + r
  BY <1>0, Quotient
<1> HIDE DEF r, q
<1>2. x + r \in x .. x + w - 1
  BY <1>1
<1>3. y = (x + r) + w * q /\ x + r \in Int
  BY <1>1
<1>4. y % w = (x + r) % w
  BY <1>1, <1>3, RestOfMultiple
<1> QED
  BY <1>2, <1>4

LEMMA TimeOfDay ==
  ASSUME NEW t \in Int
  PROVE  /\ Day(t) \in Int /\ Clock(t) \in 0 .. SlotsPerDay - 1
         /\ t = SlotsPerDay * Day(t) + Clock(t)
BY RoutingAssumption, Quotient DEF Day, Clock

(***************************************************************************)
(* A schedule is active from its start on one of its days until it ends.   *)
(***************************************************************************)
Schedule(s) == {s.start, s.end} \subseteq 0 .. SlotsPerDay - 1
Lasts(s, day, t) == Weekday(day) \in s.days /\ Starts(s, day) <= t /\ t < Ends(s, day)

LEMMA Bounds ==
  ASSUME NEW s, Schedule(s), NEW day \in Int
  PROVE  /\ Starts(s, day) \in Int /\ Ends(s, day) \in Int
         /\ SlotsPerDay * day <= Starts(s, day) /\ Starts(s, day) < SlotsPerDay * (day + 1)
         /\ Starts(s, day) < Ends(s, day) /\ Ends(s, day) < SlotsPerDay * (day + 2)
         /\ s.start < s.end => Ends(s, day) < SlotsPerDay * (day + 1)
<1>1. s.start \in 0 .. SlotsPerDay - 1 /\ s.end \in 0 .. SlotsPerDay - 1 /\ SlotsPerDay \in Nat \ {0}
  BY RoutingAssumption DEF Schedule
<1>2. SlotsPerDay * (day + 1) = SlotsPerDay * day + SlotsPerDay
  BY <1>1
<1>3. SlotsPerDay * (day + 2) = SlotsPerDay * day + SlotsPerDay + SlotsPerDay
  BY <1>1
<1>4. (day + 1) * SlotsPerDay = SlotsPerDay * day + SlotsPerDay /\ day * SlotsPerDay = SlotsPerDay * day
  BY <1>1
<1>5. SlotsPerDay * day \in Int
  BY <1>1
<1> DEFINE base == SlotsPerDay * day
<1>6. Starts(s, day) = base + s.start
  BY <1>4 DEF Starts
<1>7. Ends(s, day) = IF s.end <= s.start THEN base + SlotsPerDay + s.end ELSE base + s.end
  BY <1>4 DEF Ends
<1> HIDE DEF base
<1>8. base \in Int /\ SlotsPerDay * day = base
  BY <1>5 DEF base
<1>9. SlotsPerDay * (day + 1) = base + SlotsPerDay /\ SlotsPerDay * (day + 2) = base + SlotsPerDay + SlotsPerDay
  BY <1>2, <1>3, <1>8
<1> QED
  BY ONLY <1>1, <1>6, <1>7, <1>8, <1>9

\* What lasts at a time has begun on that day or on the day before.
LEMMA LastsFromDay ==
  ASSUME NEW s, Schedule(s), NEW t \in Int, NEW day \in Int, Lasts(s, day, t)
  PROVE  day \in {Day(t) - 1, Day(t)}
<1> DEFINE n == SlotsPerDay
           d == Day(t)
<1>0. n \in Nat \ {0} /\ d \in Int /\ Clock(t) \in 0 .. n - 1 /\ t = n * d + Clock(t)
  BY TimeOfDay, RoutingAssumption
<1>2. n * day <= t /\ t < n * (day + 2)
  <2>1. n * day \in Int /\ n * (day + 2) \in Int
    BY <1>0
  <2>2. /\ Starts(s, day) \in Int /\ Ends(s, day) \in Int
        /\ n * day <= Starts(s, day) /\ Ends(s, day) < n * (day + 2)
    BY Bounds
  <2>3. Starts(s, day) <= t /\ t < Ends(s, day)
    BY DEF Lasts
  <2> HIDE DEF n
  <2> QED
    BY ONLY <2>1, <2>2, <2>3, t \in Int
<1> HIDE DEF n, d
<1>1. n \in Nat \ {0} /\ d \in Int /\ n * d <= t /\ t < n * d + n
  <2>1. n * d \in Int
    BY <1>0
  <2> QED
    BY ONLY <1>0, <2>1
<1>3. ~(day >= d + 1)
  <2> SUFFICES ASSUME day >= d + 1 PROVE FALSE
    OBVIOUS
  <2>1. n * day >= n * (d + 1)
    BY <1>1
  <2>2. n * (d + 1) = n * d + n
    BY <1>1
  <2>3. n * day \in Int /\ n * d \in Int
    BY <1>1
  <2> QED
    BY ONLY <1>1, <1>2, <2>1, <2>2, <2>3, t \in Int
<1>4. ~(day + 2 <= d)
  <2> SUFFICES ASSUME day + 2 <= d PROVE FALSE
    OBVIOUS
  <2>1. n * (day + 2) <= n * d
    BY <1>1
  <2>2. n * (day + 2) \in Int /\ n * d \in Int
    BY <1>1
  <2> QED
    BY ONLY <1>1, <1>2, <2>1, <2>2, t \in Int
<1>5. day = d - 1 \/ day = d
  BY <1>1, <1>3, <1>4
<1> QED
  BY <1>5 DEF d

LEMMA ActiveLasts ==
  ASSUME NEW s, Schedule(s), NEW t \in Int
  PROVE  ScheduleActive(s, t) <=> \E day \in Int : Lasts(s, day, t)
<1> DEFINE n == SlotsPerDay
           d == Day(t)
           c == Clock(t)
<1>1. n \in Nat \ {0} /\ d \in Int /\ c \in 0 .. n - 1 /\ t = n * d + c
  BY TimeOfDay, RoutingAssumption
<1>2. s.start \in 0 .. n - 1 /\ s.end \in 0 .. n - 1
  BY DEF Schedule
<1>3. ScheduleActive(s, t) <=>
        IF s.start < s.end THEN Weekday(d) \in s.days /\ s.start <= c /\ c < s.end
        ELSE (Weekday(d) \in s.days /\ s.start <= c) \/ (Weekday(d - 1) \in s.days /\ c < s.end)
  BY DEF ScheduleActive
<1>4. (\E day \in Int : Lasts(s, day, t)) <=> Lasts(s, d, t) \/ Lasts(s, d - 1, t)
  BY <1>1, LastsFromDay
<1>5. Lasts(s, d, t) <=> Weekday(d) \in s.days /\ s.start <= c /\ (s.start < s.end => c < s.end)
  <2>1. Starts(s, d) = n * d + s.start
    BY <1>1, <1>2 DEF Starts
  <2>2. Ends(s, d) = IF s.end <= s.start THEN n * d + n + s.end ELSE n * d + s.end
    BY <1>1, <1>2 DEF Ends
  <2>3. n * d \in Int
    BY <1>1
  <2> HIDE DEF n, d, c
  <2>4. (Starts(s, d) <= t <=> s.start <= c) /\ (t < Ends(s, d) <=> (s.start < s.end => c < s.end))
    BY ONLY <1>1, <1>2, <2>1, <2>2, <2>3
  <2> QED
    BY <2>4 DEF Lasts
<1>6. Lasts(s, d - 1, t) <=> Weekday(d - 1) \in s.days /\ ~(s.start < s.end) /\ c < s.end
  <2>1. Starts(s, d - 1) = n * d - n + s.start
    BY <1>1, <1>2 DEF Starts
  <2>2. Ends(s, d - 1) = IF s.end <= s.start THEN n * d + s.end ELSE n * d - n + s.end
    BY <1>1, <1>2 DEF Ends
  <2>3. n * d \in Int
    BY <1>1
  <2> HIDE DEF n, d, c
  <2>4. Starts(s, d - 1) <= t /\ (t < Ends(s, d - 1) <=> ~(s.start < s.end) /\ c < s.end)
    BY ONLY <1>1, <1>2, <2>1, <2>2, <2>3
  <2> QED
    BY <2>4 DEF Lasts
<1> HIDE DEF n, d, c
<1> QED
  BY <1>3, <1>4, <1>5, <1>6

(***************************************************************************)
(* Between two transitions of its schedules the price of a model stays.    *)
(***************************************************************************)
Unchanged(schedules, t, u) == \A b \in Transitions(schedules, t) : u < b

LEMMA BoundaryLater ==
  ASSUME NEW schedules, NEW s \in schedules, NEW t \in Int, NEW u \in Int, Unchanged(schedules, t, u),
         NEW day \in Day(t) - 1 .. Day(t) + DaysPerWeek + 1, Weekday(day) \in s.days
  PROVE  (Starts(s, day) > t => u < Starts(s, day)) /\ (Ends(s, day) > t => u < Ends(s, day))
<1>1. Starts(s, day) \in Boundaries(schedules, t) /\ Ends(s, day) \in Boundaries(schedules, t)
  BY DEF Boundaries, Days
<1> QED
  BY <1>1 DEF Unchanged, Transitions

LEMMA ActiveStays ==
  ASSUME NEW schedules, NEW s \in schedules, Schedule(s), NEW t \in Int, NEW u \in Int, t <= u, Unchanged(schedules, t, u)
  PROVE  ScheduleActive(s, u) <=> ScheduleActive(s, t)
<1> DEFINE d == Day(t)
           w == DaysPerWeek
<1>0. d \in Int /\ w \in Nat \ {0}
  BY TimeOfDay, RoutingAssumption
<1>1. ASSUME NEW day \in Int, Lasts(s, day, t)
      PROVE  Lasts(s, day, u)
  <2>1. day \in d - 1 .. d + w + 1
    BY <1>0, <1>1, LastsFromDay
  <2>2. Weekday(day) \in s.days /\ Starts(s, day) <= t /\ t < Ends(s, day)
    BY <1>1 DEF Lasts
  <2>3. Starts(s, day) \in Int /\ Ends(s, day) \in Int
    BY Bounds
  <2>4. u < Ends(s, day)
    BY <2>1, <2>2, <2>3, BoundaryLater
  <2> QED
    BY <2>2, <2>3, <2>4 DEF Lasts
<1>2. ASSUME NEW day \in Int, Lasts(s, day, u)
      PROVE  Lasts(s, day, t)
  <2>1. Weekday(day) \in s.days /\ Starts(s, day) <= u /\ u < Ends(s, day)
    BY <1>2 DEF Lasts
  <2>2. \A k \in Int : Starts(s, k) \in Int /\ Ends(s, k) \in Int
    BY Bounds
  <2>3. Starts(s, day) <= t
    <3> SUFFICES ASSUME t < Starts(s, day) PROVE FALSE
      BY <2>2
    <3>1. \A k \in d + 1 .. d + w : t < Starts(s, k)
      <4> TAKE k \in d + 1 .. d + w
      <4>1. k \in Int /\ k >= d + 1
        BY <1>0
      <4>2. SlotsPerDay * k <= Starts(s, k) /\ Starts(s, k) \in Int
        BY <4>1, Bounds
      <4>3. SlotsPerDay * k >= SlotsPerDay * (d + 1) /\ SlotsPerDay * (d + 1) = SlotsPerDay * d + SlotsPerDay
        BY <1>0, <4>1, RoutingAssumption
      <4>4. SlotsPerDay * k \in Int /\ SlotsPerDay * d \in Int /\ SlotsPerDay \in Int
        BY <1>0, <4>1, RoutingAssumption
      <4>5. t = SlotsPerDay * d + Clock(t) /\ Clock(t) \in 0 .. SlotsPerDay - 1
        BY TimeOfDay
      <4> QED
        BY ONLY <4>2, <4>3, <4>4, <4>5, t \in Int
    <3>2. day >= d
      <4>1. ~(day + 1 <= d)
        <5> SUFFICES ASSUME day + 1 <= d PROVE FALSE
          OBVIOUS
        <5>1. Starts(s, day) < SlotsPerDay * (day + 1)
          BY Bounds
        <5>2. SlotsPerDay * (day + 1) <= SlotsPerDay * d
          BY <1>0, RoutingAssumption
        <5>3. SlotsPerDay * (day + 1) \in Int /\ SlotsPerDay * d \in Int
          BY <1>0, RoutingAssumption
        <5>4. t = SlotsPerDay * d + Clock(t) /\ Clock(t) \in 0 .. SlotsPerDay - 1 /\ SlotsPerDay \in Int
          BY TimeOfDay, RoutingAssumption
        <5>5. Starts(s, day) \in Int
          BY <2>2
        <5> HIDE DEF d
        <5> QED
          BY ONLY <5>1, <5>2, <5>3, <5>4, <5>5, t \in Int, t < Starts(s, day)
      <4> QED
        BY <1>0, <4>1
    <3>3. CASE day <= d + w + 1
      <4>1. day \in d - 1 .. d + w + 1
        BY <1>0, <3>2, <3>3
      <4>2. u < Starts(s, day)
        BY <4>1, <2>1, BoundaryLater
      <4> QED
        BY <4>2, <2>1, <2>2
    <3>4. CASE day > d + w + 1
      <4>1. PICK k \in d + 1 .. d + 1 + w - 1 : k % w = day % w
        <5>1. d + 1 \in Int
          BY <1>0
        <5> QED
          BY <5>1, <1>0, WeekdayAgain
      <4>2. k \in d + 1 .. d + w /\ k \in d - 1 .. d + w + 1 /\ k \in Int /\ k + 1 <= day
        BY <1>0, <3>4, <4>1
      <4>3. Weekday(k) \in s.days
        BY <2>1, <4>1 DEF Weekday
      <4>4. u < Starts(s, k)
        BY <4>2, <4>3, <3>1, BoundaryLater
      <4>5. Starts(s, k) < SlotsPerDay * (k + 1) /\ SlotsPerDay * day <= Starts(s, day)
        BY <4>2, Bounds
      <4>6. SlotsPerDay * (k + 1) <= SlotsPerDay * day /\ SlotsPerDay * (k + 1) \in Int /\ SlotsPerDay * day \in Int
        BY <4>2, RoutingAssumption
      <4>7. Starts(s, k) \in Int /\ Starts(s, day) \in Int
        BY <4>2, <2>2
      <4> QED
        BY ONLY <2>1, <4>4, <4>5, <4>6, <4>7, u \in Int
    <3> QED
      BY <1>0, <3>3, <3>4
  <2>4. t < Ends(s, day)
    BY <2>1, <2>2
  <2> QED
    BY <2>1, <2>3, <2>4 DEF Lasts
<1> QED
  BY <1>1, <1>2, ActiveLasts

LEMMA SelectedStays ==
  ASSUME NEW schedules, \A s \in schedules : Schedule(s), NEW t \in Int, NEW u \in Int, t <= u, Unchanged(schedules, t, u)
  PROVE  Selected(schedules, u) = Selected(schedules, t)
<1>1. \A s \in schedules : ScheduleActive(s, u) <=> ScheduleActive(s, t)
  BY ActiveStays
<1>2. Active(schedules, u) = Active(schedules, t)
  BY <1>1 DEF Active
<1> QED
  BY <1>2 DEF Selected

LEMMA ValidSchedules ==
  ASSUME NEW catalog, ValidCatalog(catalog), NEW m \in DOMAIN catalog.models, catalog.models[m].pricing # None
  PROVE  \A s \in catalog.models[m].pricing.schedules : Schedule(s)
<1>1. ValidPricing(catalog.models[m].pricing)
  BY DEF ValidCatalog, ValidModel
<1> QED
  BY <1>1 DEF ValidPricing, Schedule

\* The candidates at two times between which none of the eligible models changes its price.
LEMMA PricedStays ==
  ASSUME NEW catalog, ValidCatalog(catalog), NEW r, NEW outcomesThen, NEW sessionsThen, NEW t \in Int, NEW u \in Int, t <= u,
         u < catalog.until, Affinity(sessionsThen, r, u) = Affinity(sessionsThen, r, t),
         \A m \in Eligible(catalog, r, outcomesThen, t, FALSE) : Unchanged(catalog.models[m].pricing.schedules, t, u)
  PROVE  Priced(catalog, r, outcomesThen, sessionsThen, u, FALSE) = Priced(catalog, r, outcomesThen, sessionsThen, t, FALSE)
<1>1. catalog.until \in Int /\ t < catalog.until
  BY DEF ValidCatalog
<1>2. \A m : Suitable(catalog, r, outcomesThen[<<m, r.class>>], m, u, FALSE) <=> Suitable(catalog, r, outcomesThen[<<m, r.class>>], m, t, FALSE)
  BY <1>1 DEF Suitable
<1> DEFINE E == Eligible(catalog, r, outcomesThen, t, FALSE)
<1>3. Eligible(catalog, r, outcomesThen, u, FALSE) = E
  BY <1>2 DEF Eligible
<1>4. ASSUME NEW m \in E, NEW session, NEW row
      PROVE  Candidate(catalog, r, row, session, m, u) = Candidate(catalog, r, row, session, m, t)
  <2>1. m \in DOMAIN catalog.models /\ catalog.models[m].pricing # None
    BY DEF Eligible, Suitable
  <2> DEFINE pricing == catalog.models[m].pricing
  <2>2. Selected(pricing.schedules, u) = Selected(pricing.schedules, t)
    BY <2>1, ValidSchedules, SelectedStays
  <2>3. Rates(pricing, u) = Rates(pricing, t) /\ Epoch(catalog, m, u) = Epoch(catalog, m, t)
    BY <2>2 DEF Rates, Epoch
  <2> QED
    BY <2>3 DEF Candidate
<1> HIDE DEF E
<1>5. {Candidate(catalog, r, outcomesThen[<<m, r.class>>], Affinity(sessionsThen, r, u), m, u) : m \in E}
        = {Candidate(catalog, r, outcomesThen[<<m, r.class>>], Affinity(sessionsThen, r, t), m, t) : m \in E}
  BY <1>4
<1> QED
  BY <1>3, <1>5 DEF Priced, E

LEMMA LeastIsMin ==
  ASSUME NEW S, S \subseteq Int, NEW x \in S, \A y \in S : x <= y
  PROVE  Min(S) \in S /\ \A y \in S : Min(S) <= y
BY DEF Min

LEMMA ExpiryIsFirst ==
  ASSUME NEW catalog, ValidCatalog(catalog), NEW eligible, NEW t \in Nat, eligible # {} => t < catalog.until,
         \A m \in eligible : Transitions(catalog.models[m].pricing.schedules, t) \subseteq Int
  PROVE  /\ Expiry(catalog, eligible, t) \in Int
         /\ Expiry(catalog, eligible, t) <= catalog.until
         /\ \A m \in eligible : \A b \in Transitions(catalog.models[m].pricing.schedules, t) : Expiry(catalog, eligible, t) <= b
<1> DEFINE S == {catalog.until} \cup UNION {Transitions(catalog.models[m].pricing.schedules, t) : m \in eligible}
<1>1. catalog.until \in Int
  BY DEF ValidCatalog
<1>2. S \subseteq Int
  BY <1>1
<1>3. \E x \in S : \A y \in S : x <= y
  <2>1. CASE eligible = {}
    BY <1>1, <2>1
  <2>2. CASE eligible # {}
    <3>1. S \in SUBSET Nat /\ S # {}
      BY <1>1, <1>2, <2>2 DEF Transitions
    <3> HIDE DEF S
    <3> QED
      BY <3>1, LeastNumber
  <2> QED
    BY <2>1, <2>2
<1>4. Min(S) \in S /\ \A y \in S : Min(S) <= y
  <2> HIDE DEF S
  <2> QED
    BY <1>2, <1>3, LeastIsMin
<1>5. Expiry(catalog, eligible, t) = Min(S)
  BY DEF Expiry
<1> QED
  BY <1>2, <1>4, <1>5

LEMMA TransitionsType ==
  ASSUME NEW schedules, \A s \in schedules : Schedule(s), NEW t \in Int
  PROVE  Transitions(schedules, t) \subseteq Int
<1>1. Day(t) - 1 .. Day(t) + DaysPerWeek + 1 \subseteq Int
  OBVIOUS
<1>2. \A s \in schedules : \A day \in Days(s, t) : Starts(s, day) \in Int /\ Ends(s, day) \in Int
  BY <1>1, Bounds DEF Days
<1> QED
  BY <1>2 DEF Transitions, Boundaries

\* Neither the chain that is found depends on when the decision expires, nor the other way round.
LEMMA SearchedParts ==
  ASSUME NEW r, NEW chains, NEW until
  PROVE  Searched(r, chains, until).until = until
<1>1. Searched(r, chains, until) = NoRoute(until) \/ \E w : Searched(r, chains, until) = Routed(w, until)
  <2> DEFINE admitted == Admitted(r, chains)
             best == {w \in admitted : \A o \in admitted \ {w} : Better(w, o)}
  <2>1. BestOf(admitted, until) = NoRoute(until) \/ BestOf(admitted, until) = Routed(CHOOSE w \in best : TRUE, until)
    BY Zenon DEF BestOf
  <2>2. Searched(r, chains, until) = NoRoute(until) \/ Searched(r, chains, until) = BestOf(admitted, until)
    BY DEF Searched
  <2> HIDE DEF admitted, best
  <2> QED
    BY <2>1, <2>2
<1> QED
  BY <1>1 DEF NoRoute, Routed

LEMMA SearchedChain ==
  ASSUME NEW r, NEW chains, NEW until, NEW other
  PROVE  Searched(r, chains, until).chain = Searched(r, chains, other).chain
<1> DEFINE admitted == Admitted(r, chains)
           best == {w \in admitted : \A o \in admitted \ {w} : Better(w, o)}
           w0 == CHOOSE w \in best : TRUE
<1>1. BestOf(admitted, until) = (IF best = {} THEN NoRoute(until) ELSE Routed(w0, until))
  BY Zenon DEF BestOf
<1>2. BestOf(admitted, other) = (IF best = {} THEN NoRoute(other) ELSE Routed(w0, other))
  BY Zenon DEF BestOf
<1>3. Searched(r, chains, until) = (IF Cardinality(chains) > MaxSearch THEN NoRoute(until) ELSE BestOf(admitted, until))
  BY DEF Searched
<1>4. Searched(r, chains, other) = (IF Cardinality(chains) > MaxSearch THEN NoRoute(other) ELSE BestOf(admitted, other))
  BY DEF Searched
<1> DEFINE many == Cardinality(chains) > MaxSearch
<1> HIDE DEF admitted, best, w0
<1>5. Routed(w0, until).chain = w0.models /\ Routed(w0, other).chain = w0.models
      /\ NoRoute(until).chain = << >> /\ NoRoute(other).chain = << >>
  BY DEF Routed, NoRoute
<1> QED
  BY <1>1, <1>2, <1>3, <1>4, <1>5

LEMMA RouteStays ==
  ASSUME NEW catalog, ValidCatalog(catalog), NEW r, NEW outcomesThen, NEW sessionsThen, NEW t \in Nat, NEW u \in Int, t <= u,
         u < Route(catalog, r, outcomesThen, sessionsThen, t).until,
         Affinity(sessionsThen, r, u) = Affinity(sessionsThen, r, t)
  PROVE  Route(catalog, r, outcomesThen, sessionsThen, u).chain = Route(catalog, r, outcomesThen, sessionsThen, t).chain
<1>1. CASE r.tier = "LOCAL"
  BY <1>1 DEF Route, LocalOnly
<1>2. CASE r.tier # "LOCAL"
  <2> DEFINE P(v) == Priced(catalog, r, outcomesThen, sessionsThen, v, FALSE)
             E == Eligible(catalog, r, outcomesThen, t, FALSE)
             X(v) == Expiry(catalog, Eligible(catalog, r, outcomesThen, v, FALSE), v)
             C(v) == Chains(r, Affordable(r, P(v)))
  <2>1. \A v : Route(catalog, r, outcomesThen, sessionsThen, v) = Searched(r, C(v), X(v))
    BY <1>2 DEF Route
  <2>2. Route(catalog, r, outcomesThen, sessionsThen, t).until = Expiry(catalog, E, t)
    <3>1. X(t) = Expiry(catalog, E, t)
      OBVIOUS
    <3>2. Route(catalog, r, outcomesThen, sessionsThen, t) = Searched(r, C(t), X(t))
      BY <2>1
    <3> HIDE DEF C, X, E
    <3> QED
      BY <3>1, <3>2, SearchedParts
  <2>3. \A m \in E : m \in DOMAIN catalog.models /\ catalog.models[m].pricing # None /\ t < catalog.until
    BY DEF Eligible, Suitable
  <2>4. \A m \in E : Transitions(catalog.models[m].pricing.schedules, t) \subseteq Int
    <3> TAKE m \in E
    <3>1. m \in DOMAIN catalog.models /\ catalog.models[m].pricing # None
      BY <2>3
    <3> HIDE DEF E
    <3>2. \A s \in catalog.models[m].pricing.schedules : Schedule(s)
      BY <3>1, ValidSchedules
    <3> QED
      BY <3>2, TransitionsType
  <2>5. /\ Expiry(catalog, E, t) \in Int /\ Expiry(catalog, E, t) <= catalog.until
        /\ \A m \in E : \A b \in Transitions(catalog.models[m].pricing.schedules, t) : Expiry(catalog, E, t) <= b
    <3> HIDE DEF E
    <3> QED
      BY <2>3, <2>4, ExpiryIsFirst
  <2>6. u < catalog.until /\ \A m \in E : Unchanged(catalog.models[m].pricing.schedules, t, u)
    <3>1. catalog.until \in Int
      BY DEF ValidCatalog
    <3>2. \A m \in E : \A b \in Transitions(catalog.models[m].pricing.schedules, t) : b \in Int
      BY <2>4
    <3> HIDE DEF E
    <3> QED
      BY <2>2, <2>5, <3>1, <3>2 DEF Unchanged
  <2>7. P(u) = P(t)
    <3>1. u < catalog.until /\ \A m \in Eligible(catalog, r, outcomesThen, t, FALSE) : Unchanged(catalog.models[m].pricing.schedules, t, u)
      BY <2>6
    <3>2. t \in Int /\ u \in Int /\ t <= u /\ ValidCatalog(catalog)
          /\ Affinity(sessionsThen, r, u) = Affinity(sessionsThen, r, t)
      OBVIOUS
    <3>3. Priced(catalog, r, outcomesThen, sessionsThen, u, FALSE) = Priced(catalog, r, outcomesThen, sessionsThen, t, FALSE)
      BY ONLY <3>1, <3>2, PricedStays, Zenon
    <3> QED
      BY <3>3
  <2>8. C(u) = C(t)
    BY <2>7
  <2> HIDE DEF C, X
  <2> QED
    BY <2>1, <2>8, SearchedChain
<1> QED
  BY <1>1, <1>2

(***************************************************************************)
(* A decision is made from a catalog that is valid, by the router.         *)
(***************************************************************************)
Real(d) ==
  /\ d.at \in Nat /\ d.at <= now /\ ValidCatalog(d.catalog)
  /\ d.result = Route(d.catalog, d.request, d.outcomes, d.sessions, d.at)
DecisionIsReal ==
  /\ now \in Nat /\ scenario \in DOMAIN Scenarios /\ ValidCatalog(served)
  /\ decision # None => Real(decision)

LEMMA DecidedIsReal ==
  ASSUME NEW catalog, ValidCatalog(catalog), NEW r, now \in Nat
  PROVE  Real(Decided(catalog, r))
BY DEF Real, Decided

LEMMA DecisionInit == RouterInit => DecisionIsReal
<1> SUFFICES ASSUME RouterInit PROVE DecisionIsReal
  OBVIOUS
<1>1. now = 0 /\ scenario \in DOMAIN Scenarios /\ served = Scenarios[scenario].catalog /\ decision = None
  BY DEF RouterInit
<1>2. ValidCatalog(Scenarios[scenario].catalog)
  BY <1>1, ScenariosAssumption
<1> QED
  BY <1>1, <1>2 DEF DecisionIsReal

LEMMA DecisionKept ==
  ASSUME DecisionIsReal, now' \in Nat, now <= now', UNCHANGED <<scenario, served, decision>>
  PROVE  DecisionIsReal'
<1>1. Real(decision) => Real(decision)'
  BY DEF DecisionIsReal, Real
<1> QED
  BY <1>1 DEF DecisionIsReal

LEMMA DecisionStep ==
  ASSUME DecisionIsReal, [RouterNext]_routerVars
  PROVE  DecisionIsReal'
<1>0. now \in Nat /\ now <= now
  BY DEF DecisionIsReal
<1>1. ASSUME NEW r, RouteOnServer(r)
      PROVE  DecisionIsReal'
  <2>1. ValidCatalog(served') /\ now' = now /\ scenario' = scenario
    BY <1>1 DEF RouteOnServer, DecisionIsReal
  <2>2. decision' = Decided(served', r)
    BY <1>1 DEF RouteOnServer
  <2>3. \A catalog : ValidCatalog(catalog) => Real(Decided(catalog, r))
    BY <1>0, DecidedIsReal
  <2>4. \A d : Real(d) => Real(d)'
    BY <2>1 DEF Real
  <2>5. Real(decision)'
    BY <2>1, <2>2, <2>3, <2>4
  <2> QED
    BY <2>1, <2>5 DEF DecisionIsReal
<1>2. ASSUME NEW c, NEW r, NEW given, RouteFragments(c, r, given)
      PROVE  DecisionIsReal'
  <2>1. now' = now /\ scenario' = scenario /\ served' = served
    BY <1>2 DEF RouteFragments, catalogs
  <2>2. \/ decision' = decision
        \/ \E catalog : ValidCatalog(catalog) /\ decision' = Decided(catalog, r)
    BY <1>2 DEF RouteFragments
  <2>3. \A catalog : ValidCatalog(catalog) => Real(Decided(catalog, r))
    BY <1>0, DecidedIsReal
  <2>4. \A d : Real(d) => Real(d)'
    BY <2>1 DEF Real
  <2>5. decision' # None => Real(decision)'
    BY <2>2, <2>3, <2>4 DEF DecisionIsReal
  <2> QED
    BY <2>1, <2>5 DEF DecisionIsReal
<1>3. CASE TimePasses
  <2>1. now' = now + 1 /\ UNCHANGED <<scenario, served, decision>>
    BY <1>3 DEF TimePasses, catalogs
  <2> QED
    BY <2>1, <1>0, DecisionKept
<1>4. CASE UNCHANGED <<now, scenario, served, decision>>
  BY <1>4, <1>0, DecisionKept
<1>5. ASSUME NEW c, StartSync(c) PROVE UNCHANGED <<now, scenario, served, decision>>
  BY <1>5 DEF StartSync
<1>6. ASSUME NEW c, FinishSync(c) PROVE UNCHANGED <<now, scenario, served, decision>>
  BY <1>6 DEF FinishSync
<1>7. ASSUME ReplaceCatalog PROVE UNCHANGED <<now, scenario, served, decision>>
  BY <1>7 DEF ReplaceCatalog
<1>8. ASSUME WriteIndex PROVE UNCHANGED <<now, scenario, served, decision>>
  BY <1>8 DEF WriteIndex, catalogs
<1>9. ASSUME NEW c, NEW r, NEW plan, PlanEvaluation(c, r, plan) PROVE UNCHANGED <<now, scenario, served, decision>>
  BY <1>9 DEF PlanEvaluation, catalogs
<1>10. ASSUME NEW c, Reserve(c) PROVE UNCHANGED <<now, scenario, served, decision>>
  BY <1>10 DEF Reserve, catalogs
<1>11. ASSUME NEW m, NEW class, NEW success, NEW latency, NEW s, NEW tokens, NEW epoch,
              RecordOutcome(m, class, success, latency, s, tokens, epoch)
       PROVE  UNCHANGED <<now, scenario, served, decision>>
  BY <1>11 DEF RecordOutcome, catalogs
<1>12. ASSUME NEW i, NEW class, NEW success, NEW cost, RecordEvaluation(i, class, success, cost)
       PROVE  UNCHANGED <<now, scenario, served, decision>>
  BY <1>12 DEF RecordEvaluation, catalogs
<1>13. CASE UNCHANGED routerVars
  BY <1>13, <1>4 DEF routerVars, catalogs
<1> QED
  BY <1>1, <1>2, <1>3, <1>4, <1>5, <1>6, <1>7, <1>8, <1>9, <1>10, <1>11, <1>12, <1>13 DEF RouterNext

\* Until it expires a decision holds (DecisionHolds): what route and route_v2 answered is what they would
\* answer again from the same catalog, outcomes and session, whatever schedules the prices follow.
THEOREM DecisionsHold == RouterSpec => []DecisionHolds
<1>1. DecisionIsReal => DecisionHolds
  <2> SUFFICES ASSUME DecisionIsReal, decision # None, now < decision.result.until,
                      Relevant(decision, now) = Relevant(decision, decision.at)
               PROVE  Again(decision).chain = decision.result.chain
    BY DEF DecisionHolds
  <2>1. Real(decision) /\ now \in Nat
    BY DEF DecisionIsReal
  <2> QED
    BY <2>1, RouteStays DEF Real, Again, Relevant
<1> QED
  BY <1>1, DecisionInit, DecisionStep, PTL DEF RouterSpec

(***************************************************************************)
(* What an attempt costs: never less than nothing, as no rate is negative  *)
(* and no more is cached than the context has.                             *)
(***************************************************************************)
LEMMA GreatestExists ==
  ASSUME NEW S, IsFiniteSet(S), S # {}, NEW f, \A x \in S : f[x] \in Int
  PROVE  \E x \in S : \A y \in S : f[y] <= f[x]
<1> DEFINE T == {s \in SUBSET S : s # {} /\ ~\E x \in s : \A y \in s : f[y] <= f[x]}
<1> SUFFICES ASSUME T # {} PROVE FALSE
  OBVIOUS
<1>1. PICK s \in T : \A x \in s : s \ {x} \notin T
  BY MinimalSubset
<1>2. PICK x \in s : TRUE
  BY <1>1
<1>3. CASE s \ {x} = {}
  BY <1>1, <1>2, <1>3
<1>4. CASE s \ {x} # {}
  <2>1. PICK z \in s \ {x} : \A y \in s \ {x} : f[y] <= f[z]
    BY <1>1, <1>2, <1>4
  <2>2. f[x] \in Int /\ f[z] \in Int /\ \A y \in s : f[y] \in Int
    BY <1>1, <1>2, <2>1
  <2>3. CASE f[x] <= f[z]
    BY <1>1, <2>1, <2>3
  <2>4. CASE f[z] <= f[x]
    BY <1>1, <1>2, <2>1, <2>2, <2>4
  <2> QED
    BY <2>2, <2>3, <2>4
<1> QED
  BY <1>3, <1>4

LEMMA HighestIsActive ==
  ASSUME NEW S, IsFiniteSet(S), S # {}, \A s \in S : s.priority \in Int /\ s.id \in Int
  PROVE  Highest(S) \in S
<1> DEFINE priority == [s \in S |-> s.priority]
           id == [s \in S |-> s.id]
<1>1. PICK x \in S : \A y \in S : priority[y] <= priority[x]
  <2>1. \A s \in S : priority[s] \in Int
    OBVIOUS
  <2> HIDE DEF priority
  <2> QED
    BY <2>1, GreatestExists
<1> DEFINE top == {s \in S : s.priority = x.priority}
<1>2. IsFiniteSet(top) /\ top # {} /\ \A s \in top : id[s] \in Int
  BY <1>1, FS_Subset
<1>3. PICK z \in top : \A y \in top : id[y] <= id[z]
  <2> HIDE DEF top, id
  <2> QED
    BY <1>2, GreatestExists
<1>4. \A o \in S : o.priority < z.priority \/ (o.priority = z.priority /\ o.id <= z.id)
  <2> TAKE o \in S
  <2>1. o.priority <= x.priority /\ z.priority = x.priority /\ z \in S
    BY <1>1, <1>3
  <2>2. o.priority = x.priority => o.id <= z.id
    BY <1>3
  <2> QED
    BY <2>1, <2>2
<1>5. \E s \in S : \A o \in S : o.priority < s.priority \/ (o.priority = s.priority /\ o.id <= s.id)
  BY <1>3, <1>4
<1> QED
  BY <1>5, Zenon DEF Highest

LEMMA RatesType ==
  ASSUME NEW pricing, ValidPricing(pricing), NEW t
  PROVE  Rates(pricing, t).input \in Nat /\ Rates(pricing, t).output \in Nat /\ Rates(pricing, t).cached \in Nat
<1> DEFINE s == Selected(pricing.schedules, t)
           given == IF s = None THEN pricing.base ELSE s.rates
<1>1. s = None \/ s \in pricing.schedules
  <2> DEFINE active == Active(pricing.schedules, t)
  <2>1. active \subseteq pricing.schedules
    BY DEF Active
  <2>2. IsFiniteSet(active) /\ \A o \in active : o.priority \in Int /\ o.id \in Int
    BY <2>1, FS_Subset DEF ValidPricing
  <2>3. active # {} => Highest(active) \in active
    <3> HIDE DEF active
    <3> QED
      BY <2>2, HighestIsActive
  <2> QED
    BY <2>1, <2>3 DEF Selected
<1>2. given.input \in Nat /\ given.output \in Nat /\ given.cached \in Nat \cup {None}
  <2>1. given \in {pricing.base} \cup {o.rates : o \in pricing.schedules}
    BY <1>1
  <2> HIDE DEF given
  <2> QED
    BY <2>1 DEF ValidPricing
<1>3. Rates(pricing, t) = [input |-> given.input, output |-> given.output,
                           cached |-> IF given.cached = None THEN given.input ELSE given.cached]
  BY DEF Rates
<1> HIDE DEF given
<1> QED
  BY <1>2, <1>3

LEMMA Product == ASSUME NEW a \in Nat, NEW b \in Nat PROVE a * b \in Nat
OBVIOUS

LEMMA MinOfTwo == ASSUME NEW a \in Int, NEW b \in Int PROVE Min({a, b}) \in {a, b} /\ Min({a, b}) <= a /\ Min({a, b}) <= b
<1>1. {a, b} \subseteq Int /\ \E x \in {a, b} : \A y \in {a, b} : x <= y
  <2>1. CASE a <= b
    BY <2>1
  <2>2. CASE b <= a
    BY <2>2
  <2> QED
    BY <2>1, <2>2
<1> QED
  BY <1>1, LeastIsMin

LEMMA MaxOfTwo == ASSUME NEW a \in Int, NEW b \in Int PROVE Max({a, b}) \in {a, b}
<1>1. \E x \in {a, b} : \A y \in {a, b} : x >= y
  <2>1. CASE a <= b
    BY <2>1
  <2>2. CASE b <= a
    BY <2>2
  <2> QED
    BY <2>1, <2>2
<1> QED
  BY <1>1 DEF Max

LEMMA CandidateType ==
  ASSUME NEW catalog, ValidCatalog(catalog), NEW m \in DOMAIN catalog.models, catalog.models[m].pricing # None,
         NEW r, ValidRequest(r), NEW row, NEW session, session # None => session.tokens \in Nat, NEW t
  PROVE  /\ Candidate(catalog, r, row, session, m, t).model = m
         /\ Candidate(catalog, r, row, session, m, t).cost \in Nat
<1> DEFINE model == catalog.models[m]
           rates == Rates(model.pricing, t)
           affine == IF session = None THEN FALSE ELSE session.model = m /\ session.epoch = Epoch(catalog, m, t)
           current == IF r.current = m THEN r.cached ELSE 0
           cached == IF affine THEN Max({current, Min({r.context, session.tokens})}) ELSE current
           cost == (r.context - cached) * rates.input + cached * rates.cached + r.output * rates.output + model.fixed
<1>1. rates.input \in Nat /\ rates.output \in Nat /\ rates.cached \in Nat
  <2>1. ValidPricing(model.pricing)
    BY DEF ValidCatalog, ValidModel
  <2> QED
    BY <2>1, RatesType
<1>2. r.context \in Nat /\ r.cached \in Nat /\ r.output \in Nat /\ r.cached <= r.context
  BY DEF ValidRequest
<1>3. model.fixed \in Nat
  BY DEF ValidCatalog, ValidModel
<1>4. current \in Nat /\ current <= r.context
  BY <1>2
<1>5. cached \in Nat /\ cached <= r.context
  <2> HIDE DEF current
  <2>1. CASE affine
    <3> DEFINE least == Min({r.context, session.tokens})
    <3>1. session.tokens \in Nat
      BY <2>1
    <3>2. least \in {r.context, session.tokens} /\ least <= r.context
      <4>1. r.context \in Int /\ session.tokens \in Int
        BY <1>2, <3>1
      <4> QED
        BY ONLY <4>1, MinOfTwo, Zenon
    <3>3. least \in Nat /\ least <= r.context
      BY <1>2, <3>1, <3>2
    <3>4. cached = Max({current, least})
      BY <2>1
    <3> HIDE DEF least, cached
    <3>5. Max({current, least}) \in {current, least}
      BY <1>4, <3>3, MaxOfTwo
    <3> QED
      BY <1>4, <3>3, <3>4, <3>5
  <2>2. CASE ~affine
    BY <1>4, <2>2
  <2> QED
    BY <2>1, <2>2
<1>6. /\ Candidate(catalog, r, row, session, m, t).model = m
      /\ Candidate(catalog, r, row, session, m, t).cost = cost
  BY DEF Candidate
<1>7. cost \in Nat
  <2> HIDE DEF cached, rates, model
  <2>1. (r.context - cached) \in Nat
    BY <1>2, <1>5
  <2>2. (r.context - cached) * rates.input \in Nat /\ cached * rates.cached \in Nat /\ r.output * rates.output \in Nat
    BY <2>1, <1>1, <1>2, <1>5, Product
  <2> QED
    BY <2>2, <1>3
<1> QED
  BY <1>6, <1>7

(***************************************************************************)
(* The trials that are planned are of candidates, of the class that is     *)
(* asked for, and each of them costs what its arms do.                     *)
(***************************************************************************)
Priceable(c) == c.model \in Model /\ c.cost \in Nat
Known(x) == x = None \/ Priceable(x)
TrialsOf(candidates, class, known) ==
  {[candidate |-> c.model, class |-> class, cost |-> c.cost, epoch |-> c.epoch, incumbent |-> known] : c \in candidates}
Sampling(acc, candidates, class, known) ==
  acc.rest \subseteq candidates /\ acc.left \in Nat /\ acc.trials \in Seq(TrialsOf(candidates, class, known))

LEMMA CheapestExists ==
  ASSUME NEW S, S # {}, \A c \in S : Priceable(c), \A c, o \in S : c.model = o.model => c = o
  PROVE  \E k \in S : \A o \in S \ {k} : Cheaper(k, o)
<1>1. PICK p \in {c.cost : c \in S} : \A q \in {c.cost : c \in S} : p <= q
  <2>1. {c.cost : c \in S} \subseteq Nat /\ {c.cost : c \in S} # {}
    BY DEF Priceable
  <2> QED
    BY <2>1, LeastNumber
<1> DEFINE cheap == {c \in S : c.cost = p}
           ids == {Identity[c.model] : c \in cheap}
<1>2. PICK i \in ids : \A j \in ids : i <= j
  <2>1. ids \subseteq Nat /\ ids # {}
    BY <1>1, RoutingAssumption DEF Priceable
  <2> HIDE DEF ids
  <2> QED
    BY <2>1, LeastNumber
<1>3. PICK k \in cheap : Identity[k.model] = i
  BY <1>2
<1>4. \A o \in S : p <= o.cost
  BY <1>1
<1>5. ASSUME NEW o \in S \ {k} PROVE Cheaper(k, o)
  <2>1. k.cost = p /\ k \in S /\ p \in Nat /\ o.cost \in Nat
    BY <1>1, <1>3 DEF Priceable
  <2>2. CASE o.cost = p
    <3>1. i <= Identity[o.model]
      BY <1>2, <2>2
    <3>2. k.model # o.model /\ k.model \in Model /\ o.model \in Model
      BY <1>3, <1>5 DEF Priceable
    <3>3. Identity[k.model] \in Nat /\ Identity[o.model] \in Nat /\ Identity[k.model] # Identity[o.model]
      BY <3>2, RoutingAssumption
    <3> QED
      BY <1>3, <2>1, <2>2, <3>1, <3>3 DEF Cheaper
  <2>3. CASE o.cost # p
    <3>1. p <= o.cost
      BY <1>4
    <3> QED
      BY <2>1, <2>3, <3>1 DEF Cheaper
  <2> QED
    BY <2>2, <2>3
<1> QED
  BY <1>3, <1>5

LEMMA SampleStep ==
  ASSUME NEW candidates, NEW class, NEW known, Known(known), NEW samples \in Nat, NEW acc,
         \A c \in candidates : Priceable(c), \A c, o \in candidates : c.model = o.model => c = o,
         Sampling(acc, candidates, class, known), acc.rest # {}
  PROVE  Sampling(Sample(acc, class, known, samples), candidates, class, known)
<1> DEFINE c == CHOOSE k \in acc.rest : \A o \in acc.rest \ {k} : Cheaper(k, o)
           paired == c.cost + (IF known = None THEN 0 ELSE known.cost)
           fits == {n \in 0 .. samples : n * paired <= acc.left}
           fit == Max(fits)
           trial == [candidate |-> c.model, class |-> class, cost |-> c.cost, epoch |-> c.epoch, incumbent |-> known]
           U == TrialsOf(candidates, class, known)
<1>1. acc.rest \subseteq candidates /\ acc.left \in Nat /\ acc.trials \in Seq(U)
  BY DEF Sampling
<1>2. c \in acc.rest
  <2>1. \E k \in acc.rest : \A o \in acc.rest \ {k} : Cheaper(k, o)
    BY <1>1, CheapestExists
  <2> QED
    BY <2>1
<1> HIDE DEF c
<1>3. paired \in Nat
  BY <1>1, <1>2 DEF Priceable, Known
<1> HIDE DEF paired
<1>4. fit \in Nat /\ fit * paired <= acc.left
  <2>1. 0 \in fits /\ fits \subseteq Int
    BY <1>1, <1>3
  <2>2. \E x \in fits : \A y \in fits : x >= y
    <3> DEFINE gaps == {samples - n : n \in fits}
    <3>1. gaps \subseteq Nat /\ gaps # {}
      BY <2>1
    <3>2. PICK g \in gaps : \A h \in gaps : g <= h
      <4> HIDE DEF gaps
      <4> QED
        BY <3>1, LeastNumber
    <3>3. PICK x \in fits : g = samples - x
      BY <3>2
    <3>4. ASSUME NEW y \in fits PROVE x >= y
      <4>1. samples - x <= samples - y /\ x \in Int /\ y \in Int
        BY <2>1, <3>2, <3>3
      <4> QED
        BY <4>1
    <3> QED
      BY <3>4
  <2>3. fit \in fits
    <3> HIDE DEF fits
    <3> QED
      BY <2>2 DEF Max
  <2> QED
    BY <2>3
<1> HIDE DEF fit
<1>5. trial \in U
  BY <1>1, <1>2 DEF TrialsOf
<1> HIDE DEF trial, U
<1>6. Sample(acc, class, known, samples)
        = [rest |-> acc.rest \ {c}, left |-> acc.left - fit * paired, trials |-> acc.trials \o [i \in 1 .. fit |-> trial]]
  BY Zenon DEF Sample, c, paired, fit, trial
<1>7. [i \in 1 .. fit |-> trial] \in Seq(U)
  BY <1>4, <1>5
<1>8. acc.trials \o [i \in 1 .. fit |-> trial] \in Seq(U)
  BY <1>1, <1>7
<1>9. acc.left - fit * paired \in Nat
  <2>1. fit * paired \in Nat
    BY <1>3, <1>4, Product
  <2> QED
    BY <1>1, <1>4, <2>1
<1> QED
  BY <1>1, <1>6, <1>8, <1>9 DEF Sampling, U

LEMMA SampledType ==
  ASSUME NEW candidates, NEW class, NEW known, Known(known), NEW plan, {plan.limit, plan.candidates, plan.samples} \subseteq Nat,
         \A c \in candidates : Priceable(c), \A c, o \in candidates : c.model = o.model => c = o
  PROVE  Sampled(candidates, class, known, plan) \in Seq(TrialsOf(candidates, class, known))
<1> DEFINE N == plan.candidates
           first == [rest |-> candidates, left |-> plan.limit, trials |-> << >>]
           Following(x) == IF x.rest = {} THEN x ELSE Sample(x, class, known, plan.samples)
           Body(f) == [n \in 0 .. N |-> IF n = 0 THEN first ELSE Following(f[n - 1])]
           after == CHOOSE f : f = Body(f)
           Upto(f, n) == f = [k \in 0 .. n |-> IF k = 0 THEN first ELSE Following(f[k - 1])]
<1>0. N \in Nat /\ plan.limit \in Nat /\ plan.samples \in Nat
  OBVIOUS
<1>1. Sampled(candidates, class, known, plan) = after[N].trials
  BY Zenon DEF Sampled
<1> HIDE DEF Following, first, N
<1>2. \A n \in Nat : \E f : Upto(f, n)
  <2> DEFINE Bad == {n \in Nat : ~\E f : Upto(f, n)}
  <2> SUFFICES ASSUME Bad # {} PROVE FALSE
    OBVIOUS
  <2>1. PICK n \in Bad : \A k \in Bad : n <= k
    <3> HIDE DEF Upto
    <3> QED
      BY LeastNumber
  <2>2. n # 0
    <3> DEFINE f == [k \in 0 .. 0 |-> first]
    <3>1. Upto(f, 0)
      OBVIOUS
    <3> QED
      BY <2>1, <3>1
  <2>3. n - 1 \in Nat /\ n - 1 \notin Bad /\ n \in Nat
    <3> HIDE DEF Upto
    <3> QED
      BY <2>1, <2>2
  <2>4. PICK f : Upto(f, n - 1)
    BY <2>3
  <2> DEFINE g == [k \in 0 .. n |-> IF k = n THEN Following(f[n - 1]) ELSE f[k]]
  <2>5. ASSUME NEW k \in 0 .. n
        PROVE  g[k] = IF k = 0 THEN first ELSE Following(g[k - 1])
    <3>1. CASE k = n
      BY <3>1, <2>2, <2>3
    <3>2. CASE k # n
      <4>1. k \in 0 .. n - 1 /\ g[k] = f[k]
        BY <2>3, <3>2
      <4>2. k # 0 => g[k - 1] = f[k - 1]
        BY <4>1, <2>3
      <4>3. f[k] = IF k = 0 THEN first ELSE Following(f[k - 1])
        BY <4>1, <2>4
      <4> QED
        BY <4>1, <4>2, <4>3
    <3> QED
      BY <3>1, <3>2
  <2>6. Upto(g, n)
    <3>1. g = [k \in 0 .. n |-> g[k]]
      OBVIOUS
    <3> HIDE DEF g
    <3> QED
      BY <2>5, <3>1
  <2> QED
    BY <2>1, <2>6
<1>3. after = Body(after)
  <2>1. \E f : f = Body(f)
    BY <1>0, <1>2
  <2> QED
    BY <2>1
<1> HIDE DEF after
<1>4. \A n \in 0 .. N : Sampling(after[n], candidates, class, known)
  <2> DEFINE Bad == {n \in 0 .. N : ~Sampling(after[n], candidates, class, known)}
  <2> SUFFICES ASSUME Bad # {} PROVE FALSE
    OBVIOUS
  <2>1. PICK n \in Bad : \A k \in Bad : n <= k
    <3>1. Bad \in SUBSET Nat
      BY <1>0
    <3> HIDE DEF Bad
    <3> QED
      BY <3>1, LeastNumber
  <2>2. n # 0
    <3>1. after[0] = first
      BY <1>0, <1>3
    <3>2. << >> \in Seq(TrialsOf(candidates, class, known))
      OBVIOUS
    <3>3. Sampling(first, candidates, class, known)
      BY <1>0, <3>2 DEF Sampling, first
    <3> QED
      BY <2>1, <3>1, <3>3
  <2>3. n - 1 \in 0 .. N /\ n - 1 \notin Bad /\ n \in 0 .. N
    BY <1>0, <2>1, <2>2
  <2>4. Sampling(after[n - 1], candidates, class, known)
    BY <2>3
  <2>5. after[n] = Following(after[n - 1])
    BY <1>3, <2>2, <2>3
  <2>6. Sampling(Following(after[n - 1]), candidates, class, known)
    <3>1. CASE after[n - 1].rest = {}
      BY <2>4, <3>1 DEF Following
    <3>2. CASE after[n - 1].rest # {}
      BY <1>0, <2>4, <3>2, SampleStep DEF Following
    <3> QED
      BY <3>1, <3>2
  <2> QED
    BY <2>1, <2>5, <2>6
<1> QED
  BY <1>0, <1>1, <1>4 DEF Sampling

Tokens(known) == \A s \in DOMAIN known : known[s].tokens \in Nat
OfModels(P) == (\A c \in P : Priceable(c)) /\ (\A c, o \in P : c.model = o.model => c = o)
Planned(x) == x.candidate \in Model /\ x.class \in Class /\ x.cost \in Nat /\ Known(x.incumbent)

LEMMA PricedType ==
  ASSUME NEW catalog, ValidCatalog(catalog), DOMAIN catalog.models \subseteq Model, NEW r, ValidRequest(r),
         NEW outcomesThen, NEW sessionsThen, Tokens(sessionsThen), NEW t
  PROVE  /\ OfModels(Priced(catalog, r, outcomesThen, sessionsThen, t, FALSE))
         /\ OfModels(Priced(catalog, r, outcomesThen, sessionsThen, t, TRUE))
<1> DEFINE session == Affinity(sessionsThen, r, t)
           C(m) == Candidate(catalog, r, outcomesThen[<<m, r.class>>], session, m, t)
<1>1. session # None => session.tokens \in Nat
  BY DEF Affinity, Tokens
<1>2. \A m \in DOMAIN catalog.models : catalog.models[m].pricing # None => C(m).model = m /\ C(m).cost \in Nat
  <2> HIDE DEF session
  <2> QED
    BY <1>1, CandidateType
<1>3. ASSUME NEW P, \A c \in P : \E m \in DOMAIN catalog.models : c = C(m) /\ catalog.models[m].pricing # None
      PROVE  OfModels(P)
  <2> HIDE DEF C
  <2>1. \A c \in P : Priceable(c)
    BY <1>2, <1>3 DEF Priceable
  <2>2. \A c, o \in P : c.model = o.model => c = o
    BY <1>2, <1>3
  <2> QED
    BY <2>1, <2>2 DEF OfModels
<1>4. \A c \in Priced(catalog, r, outcomesThen, sessionsThen, t, FALSE) :
        \E m \in DOMAIN catalog.models : c = C(m) /\ catalog.models[m].pricing # None
  BY DEF Priced, Eligible, Suitable
<1>5. \A c \in Priced(catalog, r, outcomesThen, sessionsThen, t, TRUE) :
        \E m \in DOMAIN catalog.models : c = C(m) /\ catalog.models[m].pricing # None
  BY DEF Priced, Eligible, Suitable
<1> HIDE DEF C
<1> QED
  BY <1>3, <1>4, <1>5

\* The first model of a chain is one of the candidates.
StartsWith(chain, P) == chain # << >> => \E k \in P : k.model = chain[1]

LEMMA ChainOfCandidates ==
  ASSUME NEW catalog, NEW r, NEW outcomesThen, NEW sessionsThen, NEW t
  PROVE  StartsWith(Route(catalog, r, outcomesThen, sessionsThen, t).chain, Priced(catalog, r, outcomesThen, sessionsThen, t, FALSE))
<1> DEFINE P == Priced(catalog, r, outcomesThen, sessionsThen, t, FALSE)
           chain == Route(catalog, r, outcomesThen, sessionsThen, t).chain
<1> SUFFICES ASSUME chain # << >> PROVE \E k \in P : k.model = chain[1]
  BY DEF StartsWith
<1> DEFINE candidates == Affordable(r, P)
           chains == Chains(r, candidates)
           until == Expiry(catalog, Eligible(catalog, r, outcomesThen, t, FALSE), t)
<1>1. r.tier # "LOCAL" /\ chain = Searched(r, chains, until).chain
  BY DEF Route, LocalOnly
<1>2. PICK w \in Admitted(r, chains) : chain = w.models
  <2> DEFINE admitted == Admitted(r, chains)
             best == {w \in admitted : \A o \in admitted \ {w} : Better(w, o)}
             w0 == CHOOSE w \in best : TRUE
  <2>1. BestOf(admitted, until) = (IF best = {} THEN NoRoute(until) ELSE Routed(w0, until))
    BY Zenon DEF BestOf
  <2>2. best # {} => w0 \in admitted
    BY Zenon
  <2>3. Searched(r, chains, until) = (IF Cardinality(chains) > MaxSearch THEN NoRoute(until) ELSE BestOf(admitted, until))
    BY DEF Searched
  <2> DEFINE many == Cardinality(chains) > MaxSearch
  <2> HIDE DEF admitted, best, w0, chains, until
  <2>4. NoRoute(until).chain = << >> /\ Routed(w0, until).chain = w0.models
    BY DEF NoRoute, Routed
  <2>5. best # {} /\ chain = w0.models
    BY <1>1, <2>1, <2>3, <2>4
  <2> QED
    BY <2>2, <2>5 DEF admitted
<1>3. PICK c \in chains : w = Worth(r, c)
  BY Zenon DEF Admitted
<1>4. \E n \in Nat : n >= 1 /\ c \in [1 .. n -> candidates]
  <2> HIDE DEF candidates
  <2> DEFINE longest == Min({Cardinality(candidates), r.fallbacks + 1})
  <2>1. PICK n \in 1 .. longest : c \in {k \in [1 .. n -> candidates] : \A i, j \in 1 .. n : k[i] = k[j] => i = j}
    BY <1>3, Zenon DEF Chains
  <2> HIDE DEF longest
  <2>2. n \in Nat /\ n >= 1
    OBVIOUS
  <2>3. c \in [1 .. n -> candidates]
    BY <2>1
  <2> QED
    BY <2>2, <2>3
<1>5. PICK n \in Nat : n >= 1 /\ c \in [1 .. n -> candidates]
  BY <1>4
<1>6. w.models = [i \in 1 .. Len(c) |-> c[i].model]
  BY <1>3 DEF Worth
<1> HIDE DEF candidates, chains, until
<1>7. Len(c) = n /\ c[1] \in candidates
  BY <1>5
<1>8. w.models[1] = c[1].model
  BY <1>5, <1>6, <1>7
<1> QED
  BY <1>2, <1>7, <1>8 DEF candidates, Affordable

LEMMA TrialsType ==
  ASSUME NEW catalog, ValidCatalog(catalog), DOMAIN catalog.models \subseteq Model, NEW r, ValidRequest(r), r.class \in Class,
         NEW outcomesThen, NEW sessionsThen, Tokens(sessionsThen), NEW t,
         NEW plan, {plan.limit, plan.candidates, plan.samples} \subseteq Nat
  PROVE  /\ Len(Trials(catalog, r, outcomesThen, sessionsThen, t, plan)) \in Nat
         /\ \A n \in 1 .. Len(Trials(catalog, r, outcomesThen, sessionsThen, t, plan)) :
              Planned(Trials(catalog, r, outcomesThen, sessionsThen, t, plan)[n])
<1> DEFINE unknown == Priced(catalog, r, outcomesThen, sessionsThen, t, TRUE)
           P == Priced(catalog, r, outcomesThen, sessionsThen, t, FALSE)
           chain == Route(catalog, r, outcomesThen, sessionsThen, t).chain
           known == Incumbent(P, chain)
           candidates == Affordable(r, unknown)
           U == TrialsOf(candidates, r.class, known)
           trials == Trials(catalog, r, outcomesThen, sessionsThen, t, plan)
<1>1. OfModels(unknown) /\ OfModels(P)
  BY PricedType
<1>2. StartsWith(chain, P)
  BY ChainOfCandidates
<1> HIDE DEF unknown, P, chain
<1>3. (\A c \in P : Priceable(c)) /\ (chain # << >> => \E k \in P : k.model = chain[1])
  BY <1>1, <1>2 DEF OfModels, StartsWith
<1>4. Known(known)
  <2>1. CASE chain = << >>
    BY <2>1 DEF Incumbent, Known
  <2>2. CASE chain # << >>
    <3> DEFINE c == CHOOSE k \in P : k.model = chain[1]
    <3>1. c \in P
      BY <1>3, <2>2
    <3>2. known = [model |-> c.model, cost |-> c.cost, epoch |-> c.epoch]
      BY <2>2, Zenon DEF Incumbent
    <3> HIDE DEF c, known
    <3> QED
      BY <1>3, <3>1, <3>2 DEF Known, Priceable
  <2> QED
    BY <2>1, <2>2
<1>5. (\A c \in candidates : Priceable(c)) /\ (\A c, o \in candidates : c.model = o.model => c = o)
  BY <1>1 DEF Affordable, OfModels
<1>6. trials = Sampled(candidates, r.class, known, plan)
  BY DEF Trials, unknown, P, chain
<1> HIDE DEF known, candidates, trials
<1>7. trials \in Seq(U)
  BY <1>4, <1>5, <1>6, SampledType
<1>8. \A x \in U : Planned(x)
  BY <1>4, <1>5 DEF TrialsOf, Planned, Priceable
<1> HIDE DEF U
<1>9. Len(trials) \in Nat /\ \A n \in 1 .. Len(trials) : trials[n] \in U
  BY <1>7
<1> QED
  BY <1>8, <1>9 DEF trials

(***************************************************************************)
(* The ledger, whatever its reservations R and its pairs P are: an arm     *)
(* that is reserved has not been settled, and its pair is active; what was *)
(* settled is what was spent, and each day is within a budget.             *)
(***************************************************************************)
ArmsIn(P) == {i \in (DOMAIN P) \X Arm : i[2] \in DOMAIN P[i[1]].arms}
SettledIn(P) == {i \in ArmsIn(P) : P[i[1]].arms[i[2]].settled}
CostsIn(P) == [i \in ArmsIn(P) |-> P[i[1]].arms[i[2]].cost]
SettledOn(P, day) == {i \in SettledIn(P) : P[i[1]].arms[i[2]].day = day}
SettledThen(P, day) == {i \in SettledIn(P) : P[i[1]].day = day /\ P[i[1]].arms[i[2]].day = day}
CompletedIn(P, k) == {p \in DOMAIN P : <<P[p].candidate, P[p].class>> = k /\ P[p].status = "COMPLETED"}

ArmState == [settled : BOOLEAN, cost : Nat, day : Nat]
IsPair(x) ==
  /\ x = [status |-> x.status, candidate |-> x.candidate, class |-> x.class, day |-> x.day, arms |-> x.arms]
  /\ x.status \in {"ACTIVE", "EXPIRED", "COMPLETED"} /\ x.candidate \in Model /\ x.class \in Class /\ x.day \in Nat
  /\ x.arms \in [DOMAIN x.arms -> ArmState]
  /\ x.status = "COMPLETED" <=> \A arm \in DOMAIN x.arms : x.arms[arm].settled

PairsAreSound(P) ==
  /\ IsFiniteSet(DOMAIN P) /\ DOMAIN P = 1 .. Cardinality(DOMAIN P)
  /\ \A p \in DOMAIN P : IsPair(P[p]) /\ DOMAIN P[p].arms \subseteq Arm

ReservationsAreSound(R, P) ==
  /\ DOMAIN R \subseteq ArmsIn(P) \ SettledIn(P)
  /\ \A i \in DOMAIN R : R[i].reserved \in Nat /\ R[i].day = P[i[1]].day /\ P[i[1]].status = "ACTIVE"
  /\ \A i, j \in DOMAIN R : i[1] = j[1] => R[i].until = R[j].until

WithinLimit(amount) == \E plan \in Scenarios[scenario].plans : amount <= plan.limit
BudgetsAreKept(R, P) ==
  \A p \in DOMAIN P : WithinLimit(Total(CostsIn(P), SettledThen(P, P[p].day)) + Reserved(R, P[p].day))

Accounts(spent, P) ==
  /\ IsFiniteSet(DOMAIN spent) /\ \A d \in DOMAIN spent : spent[d] \in Nat
  /\ \A d \in Nat : (IF d \in DOMAIN spent THEN spent[d] ELSE 0) = Total(CostsIn(P), SettledOn(P, d))
  /\ Total(spent, DOMAIN spent) = Total(CostsIn(P), SettledIn(P))
SpendIsSettled(P) == Accounts(spend, P)

IsRow(x) == x = [successes |-> x.successes, failures |-> x.failures, latency |-> x.latency, evaluations |-> x.evaluations]
Counted(rows, P) ==
  /\ DOMAIN rows = Model \X Class
  /\ \A k \in DOMAIN rows : IsRow(rows[k]) /\ rows[k].evaluations = Cardinality(CompletedIn(P, k))
EvaluationsAreCounted(P) == Counted(outcomes, P)

LedgerIsSound(R, P) == PairsAreSound(P) /\ ReservationsAreSound(R, P) /\ BudgetsAreKept(R, P)

IsPlan(x) ==
  /\ Len(x.trials) \in Nat /\ \A n \in 1 .. Len(x.trials) : Planned(x.trials[n])
  /\ x.at \in Nat /\ x.at <= now /\ x.limit \in {plan.limit : plan \in Scenarios[scenario].plans}

PlansAreReal ==
  /\ now \in Nat /\ scenario \in DOMAIN Scenarios
  /\ DOMAIN file.models \subseteq Model /\ Tokens(sessions)
  /\ DOMAIN plans = Client /\ \A c \in Client : plans[c] # None => IsPlan(plans[c])


(***************************************************************************)
(* What the arms of the pairs amount to, and when it is the same of other  *)
(* pairs.                                                                  *)
(***************************************************************************)
LEMMA ArmsAreFinite ==
  ASSUME NEW P, PairsAreSound(P)
  PROVE  /\ IsFiniteSet(ArmsIn(P)) /\ IsFiniteSet(SettledIn(P))
         /\ \A S : S \subseteq SettledIn(P) => IsFiniteSet(S)
         /\ \A i \in ArmsIn(P) : CostsIn(P)[i] \in Nat
<1>1. IsFiniteSet(DOMAIN P) /\ IsFiniteSet(Arm)
  <2>1. IsFiniteSet({"candidate"} \cup {"incumbent"})
    BY FS_Singleton, FS_AddElement
  <2>2. Arm = {"candidate"} \cup {"incumbent"}
    BY DEF Arm
  <2> QED
    BY <2>1, <2>2 DEF PairsAreSound
<1>2. IsFiniteSet((DOMAIN P) \X Arm)
  BY <1>1, FS_Product
<1>3. ArmsIn(P) \subseteq (DOMAIN P) \X Arm /\ SettledIn(P) \subseteq ArmsIn(P)
  BY DEF ArmsIn, SettledIn
<1>4. IsFiniteSet(ArmsIn(P)) /\ IsFiniteSet(SettledIn(P)) /\ \A S : S \subseteq SettledIn(P) => IsFiniteSet(S)
  BY <1>2, <1>3, FS_Subset
<1>5. ASSUME NEW i \in ArmsIn(P) PROVE CostsIn(P)[i] \in Nat
  <2>1. i[1] \in DOMAIN P /\ i[2] \in DOMAIN P[i[1]].arms
    BY DEF ArmsIn
  <2>2. P[i[1]].arms[i[2]] \in ArmState
    BY <2>1 DEF PairsAreSound, IsPair
  <2> QED
    BY <2>2 DEF CostsIn, ArmState
<1> QED
  BY <1>4, <1>5

KeepsSettled(P, Q) ==
  /\ SettledIn(Q) = SettledIn(P)
  /\ \A i \in SettledIn(P) : Q[i[1]].day = P[i[1]].day /\ Q[i[1]].arms[i[2]] = P[i[1]].arms[i[2]]
KeepsCompleted(P, Q) == \A k : CompletedIn(Q, k) = CompletedIn(P, k)

LEMMA SameSettled ==
  ASSUME NEW P, NEW Q, PairsAreSound(P), KeepsSettled(P, Q)
  PROVE  /\ \A d : SettledOn(Q, d) = SettledOn(P, d) /\ SettledThen(Q, d) = SettledThen(P, d)
         /\ \A S : S \subseteq SettledIn(P) => Total(CostsIn(Q), S) = Total(CostsIn(P), S)
         /\ \A d : SettledOn(P, d) \subseteq SettledIn(P) /\ SettledThen(P, d) \subseteq SettledIn(P)
<1>1. \A d : SettledOn(Q, d) = SettledOn(P, d) /\ SettledThen(Q, d) = SettledThen(P, d)
  BY DEF KeepsSettled, SettledOn, SettledThen
<1>2. ASSUME NEW S, S \subseteq SettledIn(P)
      PROVE  Total(CostsIn(Q), S) = Total(CostsIn(P), S)
  <2>1. IsFiniteSet(S)
    BY <1>2, ArmsAreFinite
  <2>2. \A i \in S : i \in ArmsIn(P) /\ i \in ArmsIn(Q)
    BY <1>2 DEF KeepsSettled, SettledIn
  <2>3. \A i \in S : CostsIn(Q)[i] = CostsIn(P)[i]
    BY <1>2, <2>2 DEF KeepsSettled, CostsIn
  <2> QED
    BY <2>1, <2>3, TotalSame
<1>3. \A d : SettledOn(P, d) \subseteq SettledIn(P) /\ SettledThen(P, d) \subseteq SettledIn(P)
  BY DEF SettledOn, SettledThen
<1> QED
  BY <1>1, <1>2, <1>3

LEMMA SameAccounts ==
  ASSUME NEW P, NEW Q, PairsAreSound(P), KeepsSettled(P, Q), KeepsCompleted(P, Q),
         SpendIsSettled(P), EvaluationsAreCounted(P)
  PROVE  SpendIsSettled(Q) /\ EvaluationsAreCounted(Q)
<1>1. \A d : Total(CostsIn(Q), SettledOn(Q, d)) = Total(CostsIn(P), SettledOn(P, d))
  BY SameSettled
<1>2. Total(CostsIn(Q), SettledIn(Q)) = Total(CostsIn(P), SettledIn(P))
  BY SameSettled DEF KeepsSettled
<1> QED
  BY <1>1, <1>2 DEF SpendIsSettled, Accounts, EvaluationsAreCounted, Counted, KeepsCompleted

(***************************************************************************)
(* What is reserved for a day.                                             *)
(***************************************************************************)
ReservedFor(R, day) == {i \in DOMAIN R : R[i].day = day}
AmountsIn(R) == [i \in DOMAIN R |-> R[i].reserved]

LEMMA ReservedIsTotal == ASSUME NEW R, NEW day PROVE Reserved(R, day) = Total(AmountsIn(R), ReservedFor(R, day))
BY DEF Reserved, ReservedFor, AmountsIn

LEMMA ReservedType ==
  ASSUME NEW R, NEW P, PairsAreSound(P), ReservationsAreSound(R, P), NEW day
  PROVE  /\ IsFiniteSet(DOMAIN R) /\ IsFiniteSet(ReservedFor(R, day))
         /\ \A i \in DOMAIN R : AmountsIn(R)[i] \in Nat
         /\ Reserved(R, day) \in Nat
<1>1. IsFiniteSet(DOMAIN R) /\ IsFiniteSet(ReservedFor(R, day))
  <2>1. DOMAIN R \subseteq ArmsIn(P) /\ ReservedFor(R, day) \subseteq ArmsIn(P)
    BY DEF ReservationsAreSound, ReservedFor
  <2> QED
    BY <2>1, ArmsAreFinite, FS_Subset
<1>2. \A i \in DOMAIN R : AmountsIn(R)[i] \in Nat
  BY DEF ReservationsAreSound, AmountsIn
<1>3. Reserved(R, day) \in Nat
  <2>1. \A i \in ReservedFor(R, day) : AmountsIn(R)[i] \in Nat
    BY <1>2 DEF ReservedFor
  <2> QED
    BY <1>1, <2>1, TotalNat, ReservedIsTotal
<1> QED
  BY <1>1, <1>2, <1>3

LEMMA ReservedLess ==
  ASSUME NEW R, NEW P, PairsAreSound(P), ReservationsAreSound(R, P), NEW day, NEW S, S \subseteq DOMAIN R
  PROVE  Reserved(Restrict(R, S), day) <= Reserved(R, day)
<1> DEFINE Q == Restrict(R, S)
<1>1. ReservedFor(Q, day) \subseteq ReservedFor(R, day) /\ \A i \in ReservedFor(Q, day) : AmountsIn(Q)[i] = AmountsIn(R)[i]
  BY DEF ReservedFor, AmountsIn, Restrict
<1>2. IsFiniteSet(ReservedFor(R, day)) /\ IsFiniteSet(ReservedFor(Q, day)) /\ \A i \in ReservedFor(R, day) : AmountsIn(R)[i] \in Nat
  BY <1>1, ReservedType, FS_Subset DEF ReservedFor
<1> HIDE DEF Q
<1>3. Total(AmountsIn(Q), ReservedFor(Q, day)) = Total(AmountsIn(R), ReservedFor(Q, day))
  BY <1>1, <1>2, TotalSame
<1>4. Total(AmountsIn(R), ReservedFor(Q, day)) <= Total(AmountsIn(R), ReservedFor(R, day))
  BY <1>1, <1>2, TotalSubset
<1>5. Reserved(Q, day) <= Reserved(R, day)
  BY <1>3, <1>4, ReservedIsTotal
<1> QED
  BY <1>5 DEF Q

(***************************************************************************)
(* The reservations that expire, and their pairs with them.                *)
(***************************************************************************)
LEMMA WithinLess ==
  ASSUME scenario \in DOMAIN Scenarios, NEW more \in Int, WithinLimit(more), NEW less \in Int, less <= more
  PROVE  WithinLimit(less)
<1>1. PICK plan \in Scenarios[scenario].plans : more <= plan.limit
  BY DEF WithinLimit
<1>2. plan.limit \in Nat
  BY ScenariosAssumption
<1> QED
  BY <1>1, <1>2 DEF WithinLimit

Good(ledger) ==
  LedgerIsSound(ledger.reservations, ledger.pairs) /\ SpendIsSettled(ledger.pairs) /\ EvaluationsAreCounted(ledger.pairs)

ExpiredPair(p, t) ==
  IF pairs[p].status = "ACTIVE" /\ \E i \in Expired(t) : i[1] = p THEN [pairs[p] EXCEPT !.status = "EXPIRED"] ELSE pairs[p]

LEMMA LedgerParts ==
  ASSUME NEW t
  PROVE  /\ Ledger(t).reservations = Restrict(reservations, DOMAIN reservations \ Expired(t))
         /\ Ledger(t).pairs = [p \in DOMAIN pairs |-> ExpiredPair(p, t)]
         /\ DOMAIN Ledger(t).reservations = DOMAIN reservations \ Expired(t)
         /\ \A i \in DOMAIN Ledger(t).reservations : Ledger(t).reservations[i] = reservations[i]
         /\ DOMAIN Ledger(t).pairs = DOMAIN pairs
         /\ \A p \in DOMAIN pairs : Ledger(t).pairs[p] = ExpiredPair(p, t)
<1>1. /\ Ledger(t).reservations = Restrict(reservations, DOMAIN reservations \ Expired(t))
      /\ Ledger(t).pairs = [p \in DOMAIN pairs |-> ExpiredPair(p, t)]
  BY DEF Ledger, ExpiredPair
<1> DEFINE S == Ledger(t).reservations
           Q == Ledger(t).pairs
<1>2. S = [i \in DOMAIN reservations \ Expired(t) |-> reservations[i]]
  BY <1>1 DEF Restrict
<1> HIDE DEF S, Q
<1>3. DOMAIN S = DOMAIN reservations \ Expired(t) /\ \A i \in DOMAIN S : S[i] = reservations[i]
  BY <1>2
<1>4. Q = [p \in DOMAIN pairs |-> ExpiredPair(p, t)]
  BY <1>1 DEF Q
<1>5. DOMAIN Q = DOMAIN pairs /\ \A p \in DOMAIN pairs : Q[p] = ExpiredPair(p, t)
  BY <1>4
<1> QED
  BY <1>1, <1>3, <1>5 DEF S, Q

LEMMA ExpiryKeepsPairs ==
  ASSUME PairsAreSound(pairs), NEW t
  PROVE  /\ PairsAreSound(Ledger(t).pairs) /\ KeepsSettled(pairs, Ledger(t).pairs) /\ KeepsCompleted(pairs, Ledger(t).pairs)
         /\ ArmsIn(Ledger(t).pairs) = ArmsIn(pairs)
<1> DEFINE Q == Ledger(t).pairs
<1>1. DOMAIN Q = DOMAIN pairs /\ \A p \in DOMAIN pairs : Q[p] = ExpiredPair(p, t)
  BY LedgerParts
<1> HIDE DEF Q
<1>2. ASSUME NEW p \in DOMAIN pairs
      PROVE  /\ IsPair(Q[p]) /\ DOMAIN Q[p].arms \subseteq Arm
             /\ Q[p].arms = pairs[p].arms /\ Q[p].day = pairs[p].day
             /\ Q[p].candidate = pairs[p].candidate /\ Q[p].class = pairs[p].class
             /\ Q[p].status = "COMPLETED" <=> pairs[p].status = "COMPLETED"
  <2> DEFINE x == pairs[p]
  <2>1. IsPair(x) /\ DOMAIN x.arms \subseteq Arm
    BY DEF PairsAreSound
  <2>2. CASE x.status = "ACTIVE" /\ \E i \in Expired(t) : i[1] = p
    <3>1. Q[p] = [x EXCEPT !.status = "EXPIRED"]
      BY <1>1, <2>2 DEF ExpiredPair
    <3>2. x = [status |-> x.status, candidate |-> x.candidate, class |-> x.class, day |-> x.day, arms |-> x.arms]
      BY <2>1 DEF IsPair
    <3> HIDE DEF x
    <3>3. Q[p] = [status |-> "EXPIRED", candidate |-> x.candidate, class |-> x.class, day |-> x.day, arms |-> x.arms]
      BY <3>1, <3>2
    <3> QED
      BY <2>1, <2>2, <3>3 DEF IsPair, x
  <2>3. CASE ~(x.status = "ACTIVE" /\ \E i \in Expired(t) : i[1] = p)
    BY <1>1, <2>1, <2>3 DEF ExpiredPair
  <2> QED
    BY <2>2, <2>3
<1>3. PairsAreSound(Q)
  BY <1>1, <1>2 DEF PairsAreSound
<1>4. ArmsIn(Q) = ArmsIn(pairs)
  BY <1>1, <1>2 DEF ArmsIn
<1>5. KeepsSettled(pairs, Q)
  <2>1. \A i \in ArmsIn(pairs) : Q[i[1]].arms = pairs[i[1]].arms /\ Q[i[1]].day = pairs[i[1]].day
    BY <1>2 DEF ArmsIn
  <2>2. SettledIn(Q) = SettledIn(pairs)
    BY <1>4, <2>1 DEF SettledIn
  <2>3. \A i \in SettledIn(pairs) : i \in ArmsIn(pairs)
    BY DEF SettledIn
  <2> QED
    BY <2>1, <2>2, <2>3 DEF KeepsSettled
<1>6. KeepsCompleted(pairs, Q)
  BY <1>1, <1>2 DEF KeepsCompleted, CompletedIn
<1> QED
  BY <1>3, <1>4, <1>5, <1>6 DEF Q

LEMMA ExpiryKeepsReservations ==
  ASSUME PairsAreSound(pairs), ReservationsAreSound(reservations, pairs), NEW t
  PROVE  ReservationsAreSound(Ledger(t).reservations, Ledger(t).pairs)
<1> DEFINE Q == Ledger(t).pairs
           S == Ledger(t).reservations
<1>0. \A p \in DOMAIN pairs : Q[p] = ExpiredPair(p, t)
  BY LedgerParts, Zenon
<1>1. ArmsIn(Q) = ArmsIn(pairs) /\ SettledIn(Q) = SettledIn(pairs)
  BY ExpiryKeepsPairs DEF KeepsSettled
<1>2. DOMAIN S = DOMAIN reservations \ Expired(t) /\ \A i \in DOMAIN S : S[i] = reservations[i]
  BY LedgerParts, Zenon
<1> HIDE DEF Q, S
<1>3. ASSUME NEW i \in DOMAIN S
      PROVE  Q[i[1]] = pairs[i[1]]
  <2>1. i \in DOMAIN reservations /\ i \notin Expired(t) /\ i[1] \in DOMAIN pairs
    BY <1>2 DEF ReservationsAreSound, ArmsIn
  <2>2. \A j \in Expired(t) : j[1] # i[1]
    <3> SUFFICES ASSUME NEW j \in Expired(t), j[1] = i[1] PROVE FALSE
      OBVIOUS
    <3>1. j \in DOMAIN reservations /\ reservations[j].until <= t
      BY DEF Expired
    <3>2. reservations[j].until = reservations[i].until
      BY <2>1, <3>1 DEF ReservationsAreSound
    <3> QED
      BY <2>1, <3>1, <3>2 DEF Expired
  <2> QED
    BY <1>0, <2>1, <2>2 DEF ExpiredPair
<1>4. DOMAIN S \subseteq ArmsIn(Q) \ SettledIn(Q)
  BY <1>1, <1>2 DEF ReservationsAreSound
<1>5. \A i \in DOMAIN S : S[i].reserved \in Nat /\ S[i].day = Q[i[1]].day /\ Q[i[1]].status = "ACTIVE"
  BY <1>2, <1>3 DEF ReservationsAreSound
<1>6. \A i, j \in DOMAIN S : i[1] = j[1] => S[i].until = S[j].until
  BY <1>2 DEF ReservationsAreSound
<1>7. ReservationsAreSound(S, Q)
  BY <1>4, <1>5, <1>6 DEF ReservationsAreSound
<1> QED
  BY <1>7 DEF S, Q

LEMMA ExpiryIsSound ==
  ASSUME scenario \in DOMAIN Scenarios, NEW t,
         LedgerIsSound(reservations, pairs), SpendIsSettled(pairs), EvaluationsAreCounted(pairs)
  PROVE  Good(Ledger(t))
<1> DEFINE Q == Ledger(t).pairs
           S == Ledger(t).reservations
<1>1. PairsAreSound(pairs) /\ ReservationsAreSound(reservations, pairs) /\ BudgetsAreKept(reservations, pairs)
  BY DEF LedgerIsSound
<1>2. PairsAreSound(Q) /\ KeepsSettled(pairs, Q) /\ KeepsCompleted(pairs, Q)
  BY <1>1, ExpiryKeepsPairs
<1>3. ReservationsAreSound(S, Q)
  BY <1>1, ExpiryKeepsReservations
<1>4. \A day : Reserved(S, day) <= Reserved(reservations, day)
  <2>1. S = Restrict(reservations, DOMAIN reservations \ Expired(t))
    BY LedgerParts
  <2> HIDE DEF S
  <2> QED
    BY <1>1, <2>1, ReservedLess
<1>5. \A p \in DOMAIN Q : p \in DOMAIN pairs /\ Q[p].day = pairs[p].day
  <2>1. \A p \in DOMAIN pairs : pairs[p] = [status |-> pairs[p].status, candidate |-> pairs[p].candidate, class |-> pairs[p].class,
                                            day |-> pairs[p].day, arms |-> pairs[p].arms]
    BY <1>1 DEF PairsAreSound, IsPair
  <2>2. \A p \in DOMAIN pairs : ExpiredPair(p, t).day = pairs[p].day
    BY <2>1 DEF ExpiredPair
  <2>3. DOMAIN Q = DOMAIN pairs /\ \A p \in DOMAIN pairs : Q[p] = ExpiredPair(p, t)
    BY LedgerParts, Zenon
  <2> QED
    BY <2>2, <2>3
<1> HIDE DEF S, Q
<1>6. ASSUME NEW p \in DOMAIN Q
      PROVE  WithinLimit(Total(CostsIn(Q), SettledThen(Q, Q[p].day)) + Reserved(S, Q[p].day))
  <2> DEFINE day == Q[p].day
             a == Total(CostsIn(pairs), SettledThen(pairs, day))
  <2>1. Total(CostsIn(Q), SettledThen(Q, day)) = a
    BY <1>1, <1>2, SameSettled
  <2>2. WithinLimit(a + Reserved(reservations, day))
    BY <1>1, <1>5 DEF BudgetsAreKept
  <2>3. a \in Nat
    <3>1. SettledThen(pairs, day) \subseteq SettledIn(pairs) /\ SettledIn(pairs) \subseteq ArmsIn(pairs)
      BY DEF SettledThen, SettledIn
    <3>2. IsFiniteSet(SettledThen(pairs, day)) /\ \A i \in SettledThen(pairs, day) : CostsIn(pairs)[i] \in Nat
      BY <1>1, <3>1, ArmsAreFinite
    <3> HIDE DEF day
    <3> QED
      BY <3>2, TotalNat
  <2>4. Reserved(reservations, day) \in Nat /\ Reserved(S, day) \in Nat
    BY <1>1, <1>2, <1>3, ReservedType
  <2> HIDE DEF a, day
  <2>5. WithinLimit(a + Reserved(S, day))
    <3>1. a + Reserved(S, day) \in Int /\ a + Reserved(reservations, day) \in Int
          /\ a + Reserved(S, day) <= a + Reserved(reservations, day)
      BY <1>4, <2>3, <2>4
    <3> QED
      BY ONLY <2>2, <3>1, scenario \in DOMAIN Scenarios, WithinLess, Zenon
  <2> QED
    BY <2>1, <2>5 DEF day
<1>7. SpendIsSettled(Q) /\ EvaluationsAreCounted(Q)
  BY <1>1, <1>2, SameAccounts
<1>8. LedgerIsSound(S, Q)
  BY <1>2, <1>3, <1>6 DEF LedgerIsSound, BudgetsAreKept
<1> QED
  BY <1>7, <1>8 DEF Good, S, Q

(***************************************************************************)
(* A pair that is reserved: P and R are what there was, Q and S are with   *)
(* pair p of the trial.                                                    *)
(***************************************************************************)
AddsPair(P, Q, p, trial, t) ==
  /\ p = Cardinality(DOMAIN P) + 1 /\ DOMAIN Q = DOMAIN P \cup {p}
  /\ Q[p] = Pair(trial, t) /\ \A q \in DOMAIN P : q # p => Q[q] = P[q]
AddsReservations(R, S, p, trial, t) ==
  /\ DOMAIN S = DOMAIN R \cup ({p} \X ArmsOf(trial))
  /\ \A arm \in ArmsOf(trial) : S[<<p, arm>>] = Reservation(Run(trial, arm), t)
  /\ \A i \in DOMAIN R : i[1] # p => S[i] = R[i]

LEMMA ReservedPairParts ==
  ASSUME NEW ledger, NEW trial, NEW t
  PROVE  LET p == Cardinality(DOMAIN ledger.pairs) + 1
         IN  /\ AddsPair(ledger.pairs, ReservePair(ledger, trial, t).pairs, p, trial, t)
             /\ AddsReservations(ledger.reservations, ReservePair(ledger, trial, t).reservations, p, trial, t)
<1> DEFINE p == Cardinality(DOMAIN ledger.pairs) + 1
           new == {p} \X ArmsOf(trial)
           R == ledger.reservations
           P == ledger.pairs
           S == ReservePair(ledger, trial, t).reservations
           Q == ReservePair(ledger, trial, t).pairs
<1>1. S = [i \in DOMAIN R \cup new |-> IF i \in new THEN Reservation(Run(trial, i[2]), t) ELSE R[i]]
  BY DEF ReservePair
<1>2. Q = [q \in DOMAIN P \cup {p} |-> IF q = p THEN Pair(trial, t) ELSE P[q]]
  BY DEF ReservePair
<1> HIDE DEF S, Q, R, P, p
<1>3. AddsReservations(R, S, p, trial, t)
  <2>1. \A arm \in ArmsOf(trial) : <<p, arm>> \in new /\ <<p, arm>>[2] = arm
    OBVIOUS
  <2>2. \A i \in new : i[1] = p
    OBVIOUS
  <2>3. \A arm \in ArmsOf(trial) : S[<<p, arm>>] = Reservation(Run(trial, arm), t)
    BY <1>1, <2>1
  <2>4. \A i \in DOMAIN R : i[1] # p => S[i] = R[i]
    BY <1>1, <2>2
  <2>5. DOMAIN S = DOMAIN R \cup new
    BY <1>1
  <2> QED
    BY <2>3, <2>4, <2>5 DEF AddsReservations
<1>4. DOMAIN Q = DOMAIN P \cup {p} /\ Q[p] = Pair(trial, t) /\ \A q \in DOMAIN P : q # p => Q[q] = P[q]
  BY <1>2
<1>5. AddsPair(P, Q, p, trial, t)
  BY <1>4 DEF AddsPair, p, P
<1> QED
  BY <1>3, <1>5 DEF S, Q, R, P, p

LEMMA PairIsAdded ==
  ASSUME NEW P, PairsAreSound(P), NEW trial, Planned(trial), NEW t \in Nat, NEW p, NEW Q, AddsPair(P, Q, p, trial, t)
  PROVE  /\ PairsAreSound(Q) /\ KeepsSettled(P, Q) /\ KeepsCompleted(P, Q)
         /\ p \notin DOMAIN P /\ ArmsIn(Q) = ArmsIn(P) \cup ({p} \X ArmsOf(trial))
<1> DEFINE n == Cardinality(DOMAIN P)
<1>1. n \in Nat /\ DOMAIN P = 1 .. n /\ IsFiniteSet(DOMAIN P)
  BY FS_CardinalityType DEF PairsAreSound
<1> HIDE DEF n
<1>2. p = n + 1 /\ DOMAIN Q = DOMAIN P \cup {p} /\ Q[p] = Pair(trial, t) /\ \A q \in DOMAIN P : q # p => Q[q] = P[q]
  BY DEF AddsPair, n
<1>3. p \notin DOMAIN P /\ \A q \in DOMAIN P : Q[q] = P[q]
  BY <1>1, <1>2
<1>4. DOMAIN Q = 1 .. n + 1 /\ IsFiniteSet(DOMAIN Q) /\ Cardinality(DOMAIN Q) = n + 1
  <2>1. DOMAIN Q = 1 .. n + 1
    BY <1>1, <1>2
  <2>2. IsFiniteSet(1 .. n + 1) /\ Cardinality(1 .. n + 1) = n + 1
    BY <1>1, FS_Interval
  <2> QED
    BY <2>1, <2>2
<1>5. ArmsOf(trial) \subseteq Arm /\ "candidate" \in ArmsOf(trial)
  BY DEF ArmsOf, Arm
<1>6. /\ Q[p] = [status |-> "ACTIVE", candidate |-> trial.candidate, class |-> trial.class, day |-> Day(t),
                 arms |-> [arm \in ArmsOf(trial) |-> [settled |-> FALSE, cost |-> 0, day |-> 0]]]
      /\ DOMAIN Q[p].arms = ArmsOf(trial)
      /\ \A arm \in ArmsOf(trial) : Q[p].arms[arm] = [settled |-> FALSE, cost |-> 0, day |-> 0]
  BY <1>2 DEF Pair
<1>7. Day(t) \in Nat
  BY RoutingAssumption DEF Day
<1>8. IsPair(Q[p]) /\ DOMAIN Q[p].arms \subseteq Arm
  <2>1. [settled |-> FALSE, cost |-> 0, day |-> 0] \in ArmState
    BY DEF ArmState
  <2>2. Q[p].arms \in [DOMAIN Q[p].arms -> ArmState]
    BY <1>6, <2>1
  <2>3. Q[p].status = "COMPLETED" <=> \A arm \in DOMAIN Q[p].arms : Q[p].arms[arm].settled
    BY <1>5, <1>6
  <2>4. Q[p].status = "ACTIVE" /\ Q[p].candidate \in Model /\ Q[p].class \in Class /\ Q[p].day \in Nat
    BY <1>6, <1>7 DEF Planned
  <2>5. Q[p] = [status |-> Q[p].status, candidate |-> Q[p].candidate, class |-> Q[p].class, day |-> Q[p].day, arms |-> Q[p].arms]
    BY <1>6
  <2> QED
    BY <1>5, <1>6, <2>2, <2>3, <2>4, <2>5 DEF IsPair
<1>9. PairsAreSound(Q)
  <2>1. \A q \in DOMAIN Q : IsPair(Q[q]) /\ DOMAIN Q[q].arms \subseteq Arm
    BY <1>2, <1>3, <1>8 DEF PairsAreSound
  <2> QED
    BY <1>4, <2>1 DEF PairsAreSound
<1>10. ArmsIn(Q) = ArmsIn(P) \cup ({p} \X ArmsOf(trial))
  <2>1. \A i \in (DOMAIN P) \X Arm : i \in ArmsIn(Q) <=> i \in ArmsIn(P)
    BY <1>2, <1>3 DEF ArmsIn
  <2>2. \A i \in {p} \X Arm : i \in ArmsIn(Q) <=> i \in {p} \X ArmsOf(trial)
    BY <1>2, <1>6 DEF ArmsIn
  <2>3. ArmsIn(P) \subseteq (DOMAIN P) \X Arm /\ ArmsIn(Q) \subseteq ((DOMAIN P) \X Arm) \cup ({p} \X Arm)
    BY <1>2 DEF ArmsIn
  <2>4. {p} \X ArmsOf(trial) \subseteq {p} \X Arm
    BY <1>5
  <2>5. ((DOMAIN P) \X Arm) \cap ({p} \X Arm) = {}
    BY <1>3
  <2> QED
    BY <2>1, <2>2, <2>3, <2>4, <2>5
<1>11. KeepsSettled(P, Q)
  <2>1. \A i \in ArmsIn(P) : i[1] \in DOMAIN P /\ Q[i[1]] = P[i[1]]
    BY <1>3 DEF ArmsIn
  <2>2. \A i \in {p} \X ArmsOf(trial) : ~Q[i[1]].arms[i[2]].settled
    BY <1>6
  <2>3. SettledIn(Q) = SettledIn(P)
    BY <1>10, <2>1, <2>2 DEF SettledIn
  <2> QED
    BY <2>1, <2>3 DEF KeepsSettled, SettledIn
<1>12. KeepsCompleted(P, Q)
  <2>1. Q[p].status # "COMPLETED"
    BY <1>6
  <2> QED
    BY <1>2, <1>3, <2>1 DEF KeepsCompleted, CompletedIn
<1> QED
  BY <1>3, <1>9, <1>10, <1>11, <1>12

LEMMA RunIsPriceable ==
  ASSUME NEW trial, Planned(trial), NEW arm \in ArmsOf(trial)
  PROVE  Run(trial, arm).cost \in Nat
BY DEF Planned, ArmsOf, Arm, Run, Known, Priceable

LEMMA ReservationsAreAdded ==
  ASSUME NEW P, PairsAreSound(P), NEW R, ReservationsAreSound(R, P), NEW trial, Planned(trial), NEW t \in Nat,
         NEW p, NEW Q, AddsPair(P, Q, p, trial, t), NEW S, AddsReservations(R, S, p, trial, t)
  PROVE  ReservationsAreSound(S, Q)
<1> DEFINE new == {p} \X ArmsOf(trial)
<1>1. p \notin DOMAIN P /\ ArmsIn(Q) = ArmsIn(P) \cup new /\ SettledIn(Q) = SettledIn(P)
  BY PairIsAdded DEF KeepsSettled
<1>2. \A i \in DOMAIN R : i \in ArmsIn(P) /\ i \notin SettledIn(P) /\ i[1] \in DOMAIN P /\ i[1] # p
  BY <1>1 DEF ReservationsAreSound, ArmsIn
<1>3. Q[p] = Pair(trial, t) /\ \A q \in DOMAIN P : q # p => Q[q] = P[q]
  BY DEF AddsPair
<1>4. \A i \in DOMAIN R : S[i] = R[i] /\ Q[i[1]] = P[i[1]]
  BY <1>2, <1>3 DEF AddsReservations
<1>5. \A i \in new : S[i] = Reservation(Run(trial, i[2]), t) /\ i[1] = p /\ i[2] \in ArmsOf(trial)
  <2>1. \A i \in new : i = <<p, i[2]>> /\ i[1] = p /\ i[2] \in ArmsOf(trial)
    OBVIOUS
  <2> QED
    BY <2>1 DEF AddsReservations
<1>6. \A i \in new : /\ S[i].reserved \in Nat /\ S[i].day = Q[p].day
                     /\ Q[p].status = "ACTIVE" /\ S[i].until = t + SlotsPerDay
  <2>1. Q[p].status = "ACTIVE" /\ Q[p].day = Day(t)
    BY <1>3 DEF Pair
  <2>2. ASSUME NEW arm \in ArmsOf(trial)
        PROVE  /\ Reservation(Run(trial, arm), t).reserved \in Nat /\ Reservation(Run(trial, arm), t).day = Day(t)
               /\ Reservation(Run(trial, arm), t).until = t + SlotsPerDay
    <3>1. Run(trial, arm).cost \in Nat
      BY RunIsPriceable
    <3> QED
      BY <3>1 DEF Reservation
  <2> HIDE DEF new
  <2> QED
    BY <1>5, <2>1, <2>2
<1>7. DOMAIN S = DOMAIN R \cup new
  BY DEF AddsReservations
<1>8. new \cap SettledIn(P) = {}
  BY <1>1 DEF SettledIn, ArmsIn
<1> HIDE DEF new
<1>9. DOMAIN S \subseteq ArmsIn(Q) \ SettledIn(Q)
  BY <1>1, <1>2, <1>7, <1>8
<1>10. \A i \in DOMAIN S : S[i].reserved \in Nat /\ S[i].day = Q[i[1]].day /\ Q[i[1]].status = "ACTIVE"
  BY <1>4, <1>5, <1>6, <1>7 DEF ReservationsAreSound
<1>11. \A i, j \in DOMAIN S : i[1] = j[1] => S[i].until = S[j].until
  BY <1>2, <1>4, <1>5, <1>6, <1>7 DEF ReservationsAreSound
<1> QED
  BY <1>9, <1>10, <1>11 DEF ReservationsAreSound

LEMMA ReservedWithPair ==
  ASSUME NEW P, PairsAreSound(P), NEW R, ReservationsAreSound(R, P), NEW trial, Planned(trial), NEW t \in Nat,
         NEW p, p \notin DOMAIN P, NEW S, AddsReservations(R, S, p, trial, t), NEW day
  PROVE  Reserved(S, day) = IF day = Day(t) THEN Reserved(R, day) + Amount(trial) ELSE Reserved(R, day)
<1> DEFINE f == AmountsIn(S)
           F == ReservedFor(R, day)
           c == <<p, "candidate">>
           n == <<p, "incumbent">>
<1>1. \A i \in DOMAIN R : i[1] # p
  BY DEF ReservationsAreSound, ArmsIn
<1>2. DOMAIN S = DOMAIN R \cup ({p} \X ArmsOf(trial)) /\ \A i \in DOMAIN R : S[i] = R[i]
  BY <1>1 DEF AddsReservations
<1>3. \A arm \in ArmsOf(trial) : /\ S[<<p, arm>>].day = Day(t) /\ S[<<p, arm>>].reserved = Run(trial, arm).cost
  <2>1. \A run : Reservation(run, t).day = Day(t) /\ Reservation(run, t).reserved = run.cost
    BY DEF Reservation
  <2>2. \A arm \in ArmsOf(trial) : S[<<p, arm>>] = Reservation(Run(trial, arm), t)
    BY DEF AddsReservations
  <2> QED
    BY <2>1, <2>2
<1>4. \A i \in F : i \in DOMAIN R /\ i \in DOMAIN S /\ f[i] = AmountsIn(R)[i] /\ AmountsIn(R)[i] \in Nat
  BY <1>2, ReservedType DEF AmountsIn, ReservedFor
<1>5. IsFiniteSet(F) /\ Reserved(R, day) \in Nat
  BY ReservedType
<1>6. Total(f, F) = Reserved(R, day)
  <2> HIDE DEF f, F
  <2>1. Total(f, F) = Total(AmountsIn(R), F)
    BY <1>4, <1>5, TotalSame
  <2> QED
    BY <2>1, ReservedIsTotal DEF F
<1>7. CASE day # Day(t)
  <2>1. ReservedFor(S, day) = F
    BY <1>2, <1>3, <1>7 DEF ReservedFor
  <2> QED
    BY <1>6, <1>7, <2>1, ReservedIsTotal
<1>8. CASE day = Day(t)
  <2>1. ReservedFor(S, day) = F \cup ({p} \X ArmsOf(trial))
    <3>1. \A i \in {p} \X ArmsOf(trial) : S[i].day = day
      BY <1>3, <1>8
    <3> QED
      BY <1>2, <3>1 DEF ReservedFor
  <2>2. c \notin F /\ n \notin F /\ c # n
    BY <1>1 DEF ReservedFor
  <2>3. "candidate" \in ArmsOf(trial) /\ Run(trial, "candidate").cost = trial.cost /\ trial.cost \in Nat
    BY DEF ArmsOf, Arm, Run, Planned
  <2>4. f[c] = trial.cost
    <3>1. c \in DOMAIN S
      BY <1>2, <2>3
    <3> QED
      BY <1>3, <2>3, <3>1 DEF AmountsIn
  <2>5. Total(f, F \cup {c}) = trial.cost + Reserved(R, day) /\ IsFiniteSet(F \cup {c})
    <3>1. \A x \in F \cup {c} : f[x] \in Int
      BY <1>4, <2>3, <2>4
    <3>2. IsFiniteSet(F \cup {c})
      BY <1>5, FS_AddElement
    <3> HIDE DEF f, F, c
    <3>3. Total(f, F \cup {c}) = f[c] + Total(f, F)
      BY <1>5, <2>2, <3>1, TotalAdd
    <3> QED
      BY <1>6, <2>4, <3>2, <3>3
  <2>6. CASE trial.incumbent = None
    <3>1. {p} \X ArmsOf(trial) = {c}
      BY <2>6 DEF ArmsOf
    <3>2. Amount(trial) = trial.cost
      BY <2>3, <2>6 DEF Amount
    <3>3. Reserved(S, day) = Total(f, F \cup {c})
      BY <2>1, <3>1, ReservedIsTotal
    <3> HIDE DEF f, F, c
    <3> QED
      BY <1>5, <1>8, <2>3, <2>5, <3>2, <3>3
  <2>7. CASE trial.incumbent # None
    <3>1. {p} \X ArmsOf(trial) = {c} \cup {n}
      BY <2>7 DEF ArmsOf, Arm
    <3>2. Amount(trial) = trial.cost + trial.incumbent.cost /\ trial.incumbent.cost \in Nat
      BY <2>7 DEF Amount, Planned, Known, Priceable
    <3>3. f[n] = trial.incumbent.cost
      <4>1. "incumbent" \in ArmsOf(trial) /\ Run(trial, "incumbent") = trial.incumbent
        BY <2>7 DEF ArmsOf, Arm, Run
      <4>2. n \in DOMAIN S
        BY <1>2, <4>1
      <4> QED
        BY <1>3, <4>1, <4>2 DEF AmountsIn
    <3>4. ReservedFor(S, day) = (F \cup {c}) \cup {n} /\ n \notin F \cup {c}
      BY <2>1, <2>2, <3>1
    <3>5. \A x \in (F \cup {c}) \cup {n} : f[x] \in Int
      BY <1>4, <2>3, <2>4, <3>2, <3>3
    <3>6. Reserved(S, day) = Total(f, ReservedFor(S, day))
      BY ReservedIsTotal
    <3> HIDE DEF f, F, c, n
    <3>7. Total(f, (F \cup {c}) \cup {n}) = f[n] + Total(f, F \cup {c})
      BY <2>5, <3>4, <3>5, TotalAdd
    <3> QED
      BY <1>5, <1>8, <2>3, <2>5, <3>2, <3>3, <3>4, <3>6, <3>7
  <2> QED
    BY <2>6, <2>7
<1> QED
  BY <1>7, <1>8

LEMMA SettledTotals ==
  ASSUME NEW P, PairsAreSound(P), NEW day
  PROVE  /\ Total(CostsIn(P), SettledThen(P, day)) \in Nat /\ Total(CostsIn(P), SettledOn(P, day)) \in Nat
         /\ Total(CostsIn(P), SettledThen(P, day)) <= Total(CostsIn(P), SettledOn(P, day))
<1>1. /\ SettledThen(P, day) \subseteq SettledOn(P, day) /\ SettledOn(P, day) \subseteq SettledIn(P)
      /\ SettledThen(P, day) \subseteq SettledIn(P) /\ SettledIn(P) \subseteq ArmsIn(P)
  BY DEF SettledThen, SettledOn, SettledIn
<1>2. /\ IsFiniteSet(SettledThen(P, day)) /\ IsFiniteSet(SettledOn(P, day))
      /\ \A i \in SettledOn(P, day) : CostsIn(P)[i] \in Nat
  BY <1>1, ArmsAreFinite
<1>3. \A i \in SettledThen(P, day) : CostsIn(P)[i] \in Nat
  BY <1>1, <1>2
<1> QED
  BY <1>1, <1>2, <1>3, TotalNat, TotalSubset

LEMMA ConsideredIsSound ==
  ASSUME scenario \in DOMAIN Scenarios, NEW ledger, Good(ledger), NEW trial, Planned(trial), NEW plan, plan.at \in Nat,
         plan.limit \in {given.limit : given \in Scenarios[scenario].plans}
  PROVE  Good(Considered(ledger, trial, plan))
<1> DEFINE P == ledger.pairs
           R == ledger.reservations
           t == plan.at
           p == Cardinality(DOMAIN P) + 1
           Q == ReservePair(ledger, trial, t).pairs
           S == ReservePair(ledger, trial, t).reservations
<1>0. plan.limit \in Nat
  BY ScenariosAssumption
<1>1. /\ PairsAreSound(P) /\ ReservationsAreSound(R, P) /\ BudgetsAreKept(R, P)
      /\ SpendIsSettled(P) /\ EvaluationsAreCounted(P)
  BY DEF Good, LedgerIsSound
<1>2. AddsPair(P, Q, p, trial, t) /\ AddsReservations(R, S, p, trial, t)
  BY ReservedPairParts
<1>3. Considered(ledger, trial, plan)
        = IF SpentOn(Day(t)) + Reserved(R, Day(t)) + Amount(trial) > plan.limit THEN ledger ELSE ReservePair(ledger, trial, t)
  BY DEF Considered
<1> SUFFICES ASSUME ~(SpentOn(Day(t)) + Reserved(R, Day(t)) + Amount(trial) > plan.limit)
             PROVE  LedgerIsSound(S, Q) /\ SpendIsSettled(Q) /\ EvaluationsAreCounted(Q)
  BY <1>3 DEF Good
<1> HIDE DEF P, R, p, Q, S, t
<1>4. t \in Nat /\ plan.at = t
  BY DEF t
<1>5. /\ PairsAreSound(Q) /\ KeepsSettled(P, Q) /\ KeepsCompleted(P, Q) /\ p \notin DOMAIN P
  BY <1>1, <1>2, <1>4, PairIsAdded
<1>6. ReservationsAreSound(S, Q)
  BY <1>1, <1>2, <1>4, ReservationsAreAdded
<1>7. SpendIsSettled(Q) /\ EvaluationsAreCounted(Q)
  BY <1>1, <1>5, SameAccounts
<1>8. Amount(trial) \in Nat
  BY DEF Amount, Planned, Known, Priceable
<1>9. DOMAIN Q = DOMAIN P \cup {p} /\ Q[p].day = Day(t) /\ \A q \in DOMAIN P : Q[q] = P[q]
  <2>1. \A q \in DOMAIN P : Q[q] = P[q]
    BY <1>2, <1>5 DEF AddsPair
  <2>2. DOMAIN Q = DOMAIN P \cup {p} /\ Q[p] = Pair(trial, t)
    BY <1>2 DEF AddsPair
  <2> QED
    BY <2>1, <2>2 DEF Pair
<1>10. ASSUME NEW q \in DOMAIN Q
       PROVE  WithinLimit(Total(CostsIn(Q), SettledThen(Q, Q[q].day)) + Reserved(S, Q[q].day))
  <2> DEFINE day == Q[q].day
             a == Total(CostsIn(P), SettledThen(P, day))
  <2>1. Total(CostsIn(Q), SettledThen(Q, day)) = a
    BY <1>1, <1>5, SameSettled
  <2>2. Reserved(S, day) = IF day = Day(t) THEN Reserved(R, day) + Amount(trial) ELSE Reserved(R, day)
    BY <1>1, <1>2, <1>4, <1>5, ReservedWithPair
  <2>3. a \in Nat /\ Total(CostsIn(P), SettledOn(P, day)) \in Nat /\ a <= Total(CostsIn(P), SettledOn(P, day))
    BY <1>1, SettledTotals
  <2>4. Reserved(R, day) \in Nat
    BY <1>1, ReservedType
  <2>5. day \in Nat
    BY <1>5 DEF PairsAreSound, IsPair
  <2>6. SpentOn(day) = Total(CostsIn(P), SettledOn(P, day))
    BY <1>1, <2>5 DEF SpendIsSettled, Accounts, SpentOn
  <2> HIDE DEF a, day
  <2>7. CASE day = Day(t)
    <3>1. a + Reserved(S, day) <= plan.limit
      BY <1>0, <1>8, <2>2, <2>3, <2>4, <2>6, <2>7
    <3>2. WithinLimit(a + Reserved(S, day))
      BY <3>1 DEF WithinLimit
    <3> QED
      BY <2>1, <3>2 DEF day
  <2>8. CASE day # Day(t)
    <3>1. q \in DOMAIN P /\ P[q].day = day
      BY <1>9, <2>8 DEF day
    <3>2. WithinLimit(a + Reserved(R, day))
      BY <1>1, <3>1 DEF BudgetsAreKept, a
    <3>3. WithinLimit(a + Reserved(S, day))
      BY <2>2, <2>8, <3>2
    <3> QED
      BY <2>1, <3>3 DEF day
  <2> QED
    BY <2>7, <2>8
<1>11. LedgerIsSound(S, Q)
  BY <1>5, <1>6, <1>10 DEF LedgerIsSound, BudgetsAreKept
<1> QED
  BY <1>7, <1>11

LEMMA ReserveAllIsSound ==
  ASSUME scenario \in DOMAIN Scenarios, NEW plan, IsPlan(plan),
         LedgerIsSound(reservations, pairs), SpendIsSettled(pairs), EvaluationsAreCounted(pairs)
  PROVE  Good(ReserveAll(plan))
<1> DEFINE N == Len(plan.trials)
           first == Ledger(plan.at)
           Following(n, x) == Considered(x, plan.trials[n], plan)
           Body(f) == [n \in 0 .. N |-> IF n = 0 THEN first ELSE Following(n, f[n - 1])]
           after == CHOOSE f : f = Body(f)
           Upto(f, n) == f = [k \in 0 .. n |-> IF k = 0 THEN first ELSE Following(k, f[k - 1])]
<1>0. /\ N \in Nat /\ plan.at \in Nat /\ plan.limit \in {given.limit : given \in Scenarios[scenario].plans}
      /\ \A n \in 1 .. N : Planned(plan.trials[n])
  BY DEF IsPlan
<1>1. ReserveAll(plan) = after[N]
  BY Zenon DEF ReserveAll
<1>2. Good(first)
  BY ExpiryIsSound
<1>3. ASSUME NEW n \in 1 .. N, NEW x, Good(x)
      PROVE  Good(Following(n, x))
  BY <1>0, <1>3, ConsideredIsSound
<1> HIDE DEF Following, first, N
<1>4. \A n \in Nat : \E f : Upto(f, n)
  <2> DEFINE Bad == {n \in Nat : ~\E f : Upto(f, n)}
  <2> SUFFICES ASSUME Bad # {} PROVE FALSE
    OBVIOUS
  <2>1. PICK n \in Bad : \A k \in Bad : n <= k
    <3> HIDE DEF Upto
    <3> QED
      BY LeastNumber
  <2>2. n # 0
    <3> DEFINE f == [k \in 0 .. 0 |-> first]
    <3>1. Upto(f, 0)
      OBVIOUS
    <3> QED
      BY <2>1, <3>1
  <2>3. n - 1 \in Nat /\ n - 1 \notin Bad /\ n \in Nat
    <3> HIDE DEF Upto
    <3> QED
      BY <2>1, <2>2
  <2>4. PICK f : Upto(f, n - 1)
    BY <2>3
  <2> DEFINE g == [k \in 0 .. n |-> IF k = n THEN Following(n, f[n - 1]) ELSE f[k]]
  <2>5. ASSUME NEW k \in 0 .. n
        PROVE  g[k] = IF k = 0 THEN first ELSE Following(k, g[k - 1])
    <3>1. CASE k = n
      BY <3>1, <2>2, <2>3
    <3>2. CASE k # n
      <4>1. k \in 0 .. n - 1 /\ g[k] = f[k]
        BY <2>3, <3>2
      <4>2. k # 0 => g[k - 1] = f[k - 1]
        BY <4>1, <2>3
      <4>3. f[k] = IF k = 0 THEN first ELSE Following(k, f[k - 1])
        BY <4>1, <2>4
      <4> QED
        BY <4>1, <4>2, <4>3
    <3> QED
      BY <3>1, <3>2
  <2>6. Upto(g, n)
    <3>1. g = [k \in 0 .. n |-> g[k]]
      OBVIOUS
    <3> HIDE DEF g
    <3> QED
      BY <2>5, <3>1
  <2> QED
    BY <2>1, <2>6
<1>5. after = Body(after)
  <2>1. \E f : f = Body(f)
    BY <1>0, <1>4
  <2> QED
    BY <2>1
<1> HIDE DEF after
<1>6. \A n \in 0 .. N : Good(after[n])
  <2> DEFINE Bad == {n \in 0 .. N : ~Good(after[n])}
  <2> SUFFICES ASSUME Bad # {} PROVE FALSE
    OBVIOUS
  <2>1. PICK n \in Bad : \A k \in Bad : n <= k
    <3>1. Bad \in SUBSET Nat
      BY <1>0
    <3> HIDE DEF Bad
    <3> QED
      BY <3>1, LeastNumber
  <2>2. n # 0
    <3>1. after[0] = first
      BY <1>0, <1>5
    <3> QED
      BY <2>1, <3>1, <1>2
  <2>3. n - 1 \in 0 .. N /\ n - 1 \notin Bad /\ n \in 1 .. N
    BY <1>0, <2>1, <2>2
  <2>4. Good(after[n - 1])
    BY <2>3
  <2>5. after[n] = Following(n, after[n - 1])
    BY <1>5, <2>2, <2>3
  <2> QED
    BY <2>1, <2>3, <2>4, <2>5, <1>3
<1> QED
  BY <1>0, <1>1, <1>6

(***************************************************************************)
(* The outcome of arm i: P and R are what there was, Q and S are with the  *)
(* arm settled at a cost on a day.                                         *)
(***************************************************************************)
Settles(P, Q, i, cost, day) ==
  /\ DOMAIN Q = DOMAIN P /\ \A q \in DOMAIN P : q # i[1] => Q[q] = P[q]
  /\ IsPair(Q[i[1]]) /\ Q[i[1]].candidate = P[i[1]].candidate /\ Q[i[1]].class = P[i[1]].class /\ Q[i[1]].day = P[i[1]].day
  /\ Q[i[1]].status \in {"ACTIVE", "COMPLETED"}
  /\ DOMAIN Q[i[1]].arms = DOMAIN P[i[1]].arms
  /\ \A arm \in DOMAIN P[i[1]].arms : arm # i[2] => Q[i[1]].arms[arm] = P[i[1]].arms[arm]
  /\ Q[i[1]].arms[i[2]] = [settled |-> TRUE, cost |-> cost, day |-> day]

Rows(m, class, success, latency) == [outcomes EXCEPT ![<<m, class>>] = Row(m, class, success, latency)]
Counts(rows, k, completed) == IF completed THEN [rows EXCEPT ![k].evaluations = @ + 1] ELSE rows

LEMMA RecordSettles ==
  ASSUME LedgerIsSound(reservations, pairs), now \in Nat, NEW i, NEW class, NEW success,
         NEW cost \in Nat, RecordEvaluation(i, class, success, cost)
  PROVE  /\ Settles(pairs, pairs', i, cost, Day(now)) /\ i \in ArmsIn(pairs) \ SettledIn(pairs) /\ pairs[i[1]].status = "ACTIVE"
         /\ outcomes' = Counts(Rows(reservations[i].model, class, success, None), <<pairs[i[1]].candidate, pairs[i[1]].class>>,
                               pairs'[i[1]].status = "COMPLETED")
<1> DEFINE p == i[1]
           x == pairs[p]
           arms == [x.arms EXCEPT ![i[2]] = [settled |-> TRUE, cost |-> cost, day |-> Day(now)]]
           pair == [x EXCEPT !.arms[i[2]] = [settled |-> TRUE, cost |-> cost, day |-> Day(now)]]
           done == IF Completes(pair) THEN [pair EXCEPT !.status = "COMPLETED"] ELSE pair
<1>1. /\ i \in ArmsIn(pairs) \ SettledIn(pairs) /\ p \in DOMAIN pairs /\ i[2] \in DOMAIN x.arms
      /\ IsPair(x) /\ DOMAIN x.arms \subseteq Arm
  <2>1. i \in DOMAIN reservations
    BY DEF RecordEvaluation
  <2> QED
    BY <2>1 DEF LedgerIsSound, PairsAreSound, ReservationsAreSound, ArmsIn
<1>2. pairs' = [pairs EXCEPT ![p] = done] /\ x.status = "ACTIVE"
  BY Zenon DEF RecordEvaluation
<1>3. pairs'[p] = done /\ DOMAIN pairs' = DOMAIN pairs /\ \A q \in DOMAIN pairs : q # p => pairs'[q] = pairs[q]
  <2> HIDE DEF done
  <2> QED
    BY <1>1, <1>2
<1>4. x = [status |-> x.status, candidate |-> x.candidate, class |-> x.class, day |-> x.day, arms |-> x.arms]
      /\ x.arms \in [DOMAIN x.arms -> ArmState]
  BY <1>1 DEF IsPair
<1>5. pair = [status |-> "ACTIVE", candidate |-> x.candidate, class |-> x.class, day |-> x.day, arms |-> arms]
  <2> DEFINE y == [settled |-> TRUE, cost |-> cost, day |-> Day(now)]
  <2> HIDE DEF x, y
  <2>1. [x EXCEPT !.arms[i[2]] = y] = [status |-> "ACTIVE", candidate |-> x.candidate, class |-> x.class, day |-> x.day,
                                       arms |-> [x.arms EXCEPT ![i[2]] = y]]
    BY <1>2, <1>4
  <2> QED
    BY <2>1 DEF y
<1>6. /\ DOMAIN arms = DOMAIN x.arms /\ arms[i[2]] = [settled |-> TRUE, cost |-> cost, day |-> Day(now)]
      /\ \A arm \in DOMAIN x.arms : arm # i[2] => arms[arm] = x.arms[arm]
      /\ arms \in [DOMAIN arms -> ArmState]
  <2>1. Day(now) \in Nat
    BY RoutingAssumption DEF Day
  <2>2. [settled |-> TRUE, cost |-> cost, day |-> Day(now)] \in ArmState
    BY <2>1 DEF ArmState
  <2> DEFINE y == [settled |-> TRUE, cost |-> cost, day |-> Day(now)]
  <2> HIDE DEF x, y
  <2> QED
    BY <1>1, <1>4, <2>2 DEF y
<1> DEFINE all == \A arm \in DOMAIN arms : arms[arm].settled
<1>7. Completes(pair) <=> all
  <2> HIDE DEF pair, arms
  <2>1. pair.arms = arms
    BY <1>5
  <2> QED
    BY <2>1 DEF Completes
<1>8. done = [status |-> IF all THEN "COMPLETED" ELSE "ACTIVE", candidate |-> x.candidate, class |-> x.class, day |-> x.day, arms |-> arms]
  <2> HIDE DEF pair, arms, all, x
  <2> QED
    BY <1>5, <1>7
<1>9. /\ IsPair(done) /\ done.candidate = x.candidate /\ done.class = x.class /\ done.day = x.day /\ done.arms = arms
      /\ done.status \in {"ACTIVE", "COMPLETED"}
  <2>1. x.candidate \in Model /\ x.class \in Class /\ x.day \in Nat
    BY <1>1 DEF IsPair
  <2>2. arms \in [DOMAIN arms -> ArmState]
    BY <1>6
  <2> HIDE DEF done, arms, x
  <2>3. /\ done.candidate = x.candidate /\ done.class = x.class /\ done.day = x.day /\ done.arms = arms
        /\ done.status = IF all THEN "COMPLETED" ELSE "ACTIVE"
        /\ done = [status |-> done.status, candidate |-> done.candidate, class |-> done.class, day |-> done.day, arms |-> done.arms]
    BY <1>8
  <2> QED
    BY <2>1, <2>2, <2>3 DEF IsPair
<1>11. outcomes' = Counts(Rows(reservations[i].model, class, success, None), <<x.candidate, x.class>>, done.status = "COMPLETED")
  <2>1. outcomes' = IF Completes(pair) THEN [Rows(reservations[i].model, class, success, None) EXCEPT ![<<pair.candidate, pair.class>>].evaluations = @ + 1]
                    ELSE Rows(reservations[i].model, class, success, None)
    BY Zenon DEF RecordEvaluation, Rows
  <2> HIDE DEF done, arms, all, pair, x
  <2>2. pair.candidate = x.candidate /\ pair.class = x.class
    BY <1>5
  <2>3. done.status = "COMPLETED" <=> all
    BY <1>8
  <2> QED
    BY <1>7, <2>1, <2>2, <2>3 DEF Counts
<1> HIDE DEF done, arms, all, pair, x
<1>10. Settles(pairs, pairs', i, cost, Day(now))
  BY <1>3, <1>6, <1>9 DEF Settles, x
<1> QED
  BY <1>1, <1>2, <1>3, <1>10, <1>11 DEF x

LEMMA SettledPairs ==
  ASSUME NEW P, PairsAreSound(P), NEW i \in ArmsIn(P) \ SettledIn(P), NEW cost \in Nat, NEW day \in Nat, NEW Q, Settles(P, Q, i, cost, day)
  PROVE  /\ PairsAreSound(Q) /\ ArmsIn(Q) = ArmsIn(P) /\ SettledIn(Q) = SettledIn(P) \cup {i}
         /\ \A q \in DOMAIN P : Q[q].day = P[q].day
         /\ \A j \in SettledIn(P) : CostsIn(Q)[j] = CostsIn(P)[j]
         /\ CostsIn(Q)[i] = cost
         /\ \A d : SettledOn(Q, d) = IF d = day THEN SettledOn(P, d) \cup {i} ELSE SettledOn(P, d)
         /\ \A d : SettledThen(Q, d) = IF d = day /\ P[i[1]].day = d THEN SettledThen(P, d) \cup {i} ELSE SettledThen(P, d)
<1>0. i[1] \in DOMAIN P /\ i[2] \in DOMAIN P[i[1]].arms /\ i = <<i[1], i[2]>>
  BY DEF ArmsIn
<1>1. DOMAIN Q = DOMAIN P /\ \A q \in DOMAIN P : DOMAIN Q[q].arms = DOMAIN P[q].arms /\ Q[q].day = P[q].day
  BY DEF Settles
<1>2. PairsAreSound(Q)
  BY <1>0, <1>1 DEF PairsAreSound, Settles
<1>3. ArmsIn(Q) = ArmsIn(P)
  BY <1>1 DEF ArmsIn
<1>4. ASSUME NEW j \in ArmsIn(P), j # i
      PROVE  Q[j[1]].arms[j[2]] = P[j[1]].arms[j[2]] /\ Q[j[1]].day = P[j[1]].day
  <2>1. j = <<j[1], j[2]>> /\ j[1] \in DOMAIN P /\ j[2] \in DOMAIN P[j[1]].arms
    BY DEF ArmsIn
  <2>2. j[1] # i[1] \/ j[2] # i[2]
    BY <1>0, <1>4, <2>1
  <2> QED
    BY <1>1, <2>1, <2>2 DEF Settles
<1>5. Q[i[1]].arms[i[2]].settled /\ Q[i[1]].arms[i[2]].cost = cost /\ Q[i[1]].arms[i[2]].day = day
  BY DEF Settles
<1>6. SettledIn(Q) = SettledIn(P) \cup {i}
  BY <1>3, <1>4, <1>5 DEF SettledIn
<1>7. \A j \in SettledIn(P) : j \in ArmsIn(P) /\ j # i
  BY DEF SettledIn
<1>8. \A j \in SettledIn(P) : CostsIn(Q)[j] = CostsIn(P)[j]
  BY <1>3, <1>4, <1>7 DEF CostsIn
<1>9. CostsIn(Q)[i] = cost
  BY <1>3, <1>5 DEF CostsIn
<1>10. \A d : SettledOn(Q, d) = IF d = day THEN SettledOn(P, d) \cup {i} ELSE SettledOn(P, d)
  BY <1>4, <1>5, <1>6, <1>7 DEF SettledOn
<1>11. \A d : SettledThen(Q, d) = IF d = day /\ P[i[1]].day = d THEN SettledThen(P, d) \cup {i} ELSE SettledThen(P, d)
  BY <1>0, <1>1, <1>4, <1>5, <1>6, <1>7 DEF SettledThen
<1> QED
  BY <1>1, <1>2, <1>3, <1>6, <1>8, <1>9, <1>10, <1>11

\* What the arms of a set amount to, with one more.
LEMMA SettledMore ==
  ASSUME NEW P, PairsAreSound(P), NEW i \in ArmsIn(P) \ SettledIn(P), NEW cost \in Nat, NEW day \in Nat, NEW Q, Settles(P, Q, i, cost, day),
         NEW A, A \subseteq SettledIn(P)
  PROVE  /\ Total(CostsIn(Q), A) = Total(CostsIn(P), A)
         /\ Total(CostsIn(Q), A \cup {i}) = Total(CostsIn(P), A) + cost
         /\ Total(CostsIn(P), A) \in Nat
<1>1. \A j \in A : CostsIn(Q)[j] = CostsIn(P)[j] /\ CostsIn(P)[j] \in Nat
  <2>1. \A j \in A : j \in SettledIn(P) /\ j \in ArmsIn(P)
    BY DEF SettledIn
  <2>2. \A j \in SettledIn(P) : CostsIn(Q)[j] = CostsIn(P)[j]
    BY ONLY SettledPairs, PairsAreSound(P), i \in ArmsIn(P) \ SettledIn(P), cost \in Nat, day \in Nat, Settles(P, Q, i, cost, day)
  <2>3. \A j \in ArmsIn(P) : CostsIn(P)[j] \in Nat
    BY ArmsAreFinite
  <2> QED
    BY ONLY <2>1, <2>2, <2>3
<1>2. IsFiniteSet(A) /\ i \notin A /\ CostsIn(Q)[i] = cost
  <2>1. IsFiniteSet(A)
    BY ArmsAreFinite
  <2>2. CostsIn(Q)[i] = cost
    BY ONLY SettledPairs, PairsAreSound(P), i \in ArmsIn(P) \ SettledIn(P), cost \in Nat, day \in Nat, Settles(P, Q, i, cost, day)
  <2> QED
    BY <2>1, <2>2
<1>3. Total(CostsIn(Q), A) = Total(CostsIn(P), A)
  BY <1>1, <1>2, TotalSame
<1>4. Total(CostsIn(P), A) \in Nat
  BY <1>1, <1>2, TotalNat
<1>5. Total(CostsIn(Q), A \cup {i}) = CostsIn(Q)[i] + Total(CostsIn(Q), A)
  <2>1. \A j \in A \cup {i} : CostsIn(Q)[j] \in Int
    BY <1>1, <1>2
  <2> QED
    BY <1>2, <2>1, TotalAdd
<1> QED
  BY <1>2, <1>3, <1>4, <1>5

LEMMA ReservedWithout ==
  ASSUME NEW P, PairsAreSound(P), NEW R, ReservationsAreSound(R, P), NEW i \in DOMAIN R, NEW day
  PROVE  Reserved(R, day) = Reserved(Restrict(R, DOMAIN R \ {i}), day) + (IF R[i].day = day THEN R[i].reserved ELSE 0)
<1> DEFINE S == Restrict(R, DOMAIN R \ {i})
           F == ReservedFor(R, day)
           f == AmountsIn(R)
<1>1. DOMAIN S = DOMAIN R \ {i} /\ \A j \in DOMAIN S : S[j] = R[j]
  BY DEF Restrict
<1> HIDE DEF S
<1>2. ReservedFor(S, day) = F \ {i} /\ \A j \in F \ {i} : AmountsIn(S)[j] = f[j]
  BY <1>1 DEF ReservedFor, AmountsIn
<1>3. IsFiniteSet(F) /\ IsFiniteSet(F \ {i}) /\ \A j \in F : f[j] \in Int
  <2>1. F \subseteq DOMAIN R /\ F \ {i} \subseteq F
    BY DEF ReservedFor
  <2> QED
    BY <2>1, ReservedType, FS_Subset
<1>4. f[i] = R[i].reserved /\ (i \in F <=> R[i].day = day)
  BY DEF AmountsIn, ReservedFor
<1>5. Reserved(S, day) = Total(AmountsIn(S), ReservedFor(S, day)) /\ Reserved(R, day) = Total(f, F)
  BY ReservedIsTotal
<1>6. Total(f, F) \in Nat
  BY <1>5, ReservedType
<1> HIDE DEF f, F
<1>7. Total(AmountsIn(S), F \ {i}) = Total(f, F \ {i})
  BY <1>2, <1>3, TotalSame
<1>8. CASE R[i].day = day
  <2>1. Total(f, F) = f[i] + Total(f, F \ {i})
    BY <1>3, <1>4, <1>8, TotalRemove
  <2>2. Total(f, F \ {i}) \in Int /\ f[i] \in Int
    BY <1>3, <1>4, <1>8, TotalType
  <2>3. Reserved(R, day) = Reserved(S, day) + R[i].reserved
    BY <1>2, <1>4, <1>5, <1>7, <2>1, <2>2
  <2> QED
    BY <1>8, <2>3 DEF S
<1>9. CASE R[i].day # day
  <2>1. F \ {i} = F
    BY <1>4, <1>9
  <2>2. Reserved(R, day) = Reserved(S, day) + 0
    BY <1>2, <1>5, <1>6, <1>7, <2>1
  <2> QED
    BY <1>9, <2>2 DEF S
<1> QED
  BY <1>8, <1>9

LEMMA SettlingKeepsReservations ==
  ASSUME NEW P, PairsAreSound(P), NEW R, ReservationsAreSound(R, P), NEW i \in DOMAIN R,
         NEW cost \in Nat, NEW day \in Nat, NEW Q, Settles(P, Q, i, cost, day)
  PROVE  ReservationsAreSound(Restrict(R, DOMAIN R \ {i}), Q)
<1> DEFINE S == Restrict(R, DOMAIN R \ {i})
<1>1. DOMAIN S = DOMAIN R \ {i} /\ \A j \in DOMAIN S : S[j] = R[j]
  BY DEF Restrict
<1>2. i \in ArmsIn(P) \ SettledIn(P)
  BY DEF ReservationsAreSound
<1>3. /\ PairsAreSound(Q) /\ ArmsIn(Q) = ArmsIn(P) /\ SettledIn(Q) = SettledIn(P) \cup {i}
      /\ \A q \in DOMAIN P : Q[q].day = P[q].day
  BY <1>2, SettledPairs
<1> HIDE DEF S
<1>4. DOMAIN S \subseteq ArmsIn(Q) \ SettledIn(Q)
  BY <1>1, <1>3 DEF ReservationsAreSound
<1>5. ASSUME NEW j \in DOMAIN S
      PROVE  S[j].reserved \in Nat /\ S[j].day = Q[j[1]].day /\ Q[j[1]].status = "ACTIVE"
  <2>1. j \in DOMAIN R /\ S[j] = R[j] /\ j[1] \in DOMAIN P
    BY <1>1 DEF ReservationsAreSound, ArmsIn
  <2>2. S[j].reserved \in Nat /\ S[j].day = Q[j[1]].day
    BY <1>3, <2>1 DEF ReservationsAreSound
  <2>3. CASE j[1] # i[1]
    BY <2>1, <2>2, <2>3 DEF ReservationsAreSound, Settles
  <2>4. CASE j[1] = i[1]
    <3>1. j[2] \in DOMAIN Q[i[1]].arms /\ ~Q[i[1]].arms[j[2]].settled
      BY <1>4, <2>4 DEF ArmsIn, SettledIn
    <3>2. Q[i[1]].status # "COMPLETED"
      BY <3>1 DEF Settles, IsPair
    <3>3. Q[i[1]].status = "ACTIVE"
      BY <3>2 DEF Settles
    <3> QED
      BY <2>2, <2>4, <3>3
  <2> QED
    BY <2>3, <2>4
<1>6. \A j, k \in DOMAIN S : j[1] = k[1] => S[j].until = S[k].until
  BY <1>1 DEF ReservationsAreSound
<1>7. ReservationsAreSound(S, Q)
  BY <1>4, <1>5, <1>6 DEF ReservationsAreSound
<1> QED
  BY <1>7 DEF S

LEMMA SettlingKeepsLedger ==
  ASSUME scenario \in DOMAIN Scenarios, NEW P, NEW R, LedgerIsSound(R, P), NEW i \in DOMAIN R,
         NEW cost \in Nat, cost <= R[i].reserved, NEW day \in Nat, NEW Q, Settles(P, Q, i, cost, day)
  PROVE  LedgerIsSound(Restrict(R, DOMAIN R \ {i}), Q)
<1> DEFINE S == Restrict(R, DOMAIN R \ {i})
<1>1. PairsAreSound(P) /\ ReservationsAreSound(R, P) /\ BudgetsAreKept(R, P)
  BY DEF LedgerIsSound
<1>2. i \in ArmsIn(P) \ SettledIn(P) /\ i[1] \in DOMAIN P /\ R[i].day = P[i[1]].day /\ R[i].reserved \in Nat
  BY <1>1 DEF ReservationsAreSound, ArmsIn
<1>3. /\ PairsAreSound(Q) /\ DOMAIN Q = DOMAIN P /\ \A q \in DOMAIN P : Q[q].day = P[q].day
      /\ \A d : SettledThen(Q, d) = IF d = day /\ P[i[1]].day = d THEN SettledThen(P, d) \cup {i} ELSE SettledThen(P, d)
  BY <1>1, <1>2, SettledPairs DEF Settles
<1>4. ReservationsAreSound(S, Q)
  BY <1>1, SettlingKeepsReservations
<1>5. \A d : Reserved(R, d) = Reserved(S, d) + (IF R[i].day = d THEN R[i].reserved ELSE 0)
  BY <1>1, ReservedWithout
<1> HIDE DEF S
<1>6. ASSUME NEW q \in DOMAIN Q
      PROVE  WithinLimit(Total(CostsIn(Q), SettledThen(Q, Q[q].day)) + Reserved(S, Q[q].day))
  <2> DEFINE d == Q[q].day
             A == SettledThen(P, d)
             a == Total(CostsIn(P), A)
             b == Total(CostsIn(Q), SettledThen(Q, d))
  <2>1. q \in DOMAIN P /\ P[q].day = d
    BY <1>3
  <2>2. WithinLimit(a + Reserved(R, d))
    BY <1>1, <2>1 DEF BudgetsAreKept
  <2>3. A \subseteq SettledIn(P)
    BY DEF SettledThen
  <2>4. Total(CostsIn(Q), A) = a /\ Total(CostsIn(Q), A \cup {i}) = a + cost /\ a \in Nat
    <3> HIDE DEF A
    <3>1. Settles(P, Q, i, cost, day) /\ cost \in Nat /\ day \in Nat /\ i \in ArmsIn(P) \ SettledIn(P)
      BY <1>2
    <3>2. /\ Total(CostsIn(Q), A) = Total(CostsIn(P), A)
          /\ Total(CostsIn(Q), A \cup {i}) = Total(CostsIn(P), A) + cost
          /\ Total(CostsIn(P), A) \in Nat
      BY <1>1, <2>3, <3>1, SettledMore, Zenon
    <3> QED
      BY <3>2
  <2>5. Reserved(R, d) \in Nat /\ Reserved(S, d) \in Nat
    BY <1>1, <1>3, <1>4, ReservedType
  <2>6. Reserved(R, d) = Reserved(S, d) + (IF R[i].day = d THEN R[i].reserved ELSE 0)
    BY <1>5
  <2>7. b = IF d = day /\ P[i[1]].day = d THEN a + cost ELSE a
    BY <1>3, <2>4
  <2> HIDE DEF A, a, b, d
  <2>8. b + Reserved(S, d) <= a + Reserved(R, d) /\ b + Reserved(S, d) \in Int /\ a + Reserved(R, d) \in Int
    <3>1. CASE d = day /\ P[i[1]].day = d
      <4>1. b = a + cost /\ Reserved(R, d) = Reserved(S, d) + R[i].reserved
        BY <1>2, <2>6, <2>7, <3>1
      <4> QED
        BY <1>2, <2>4, <2>5, <4>1
    <3>2. CASE ~(d = day /\ P[i[1]].day = d)
      <4>1. b = a /\ Reserved(S, d) <= Reserved(R, d)
        BY <1>2, <2>5, <2>6, <2>7, <3>2
      <4> QED
        BY <2>4, <2>5, <4>1
    <3> QED
      BY <3>1, <3>2
  <2>9. WithinLimit(b + Reserved(S, d))
    BY ONLY <2>2, <2>8, scenario \in DOMAIN Scenarios, WithinLess, Zenon
  <2> QED
    BY <2>9 DEF b, d
<1>7. LedgerIsSound(S, Q)
  BY <1>3, <1>4, <1>6 DEF LedgerIsSound, BudgetsAreKept
<1> QED
  BY <1>7 DEF S

LEMMA SettlingIsSpent ==
  ASSUME NEW P, PairsAreSound(P), SpendIsSettled(P), NEW i \in ArmsIn(P) \ SettledIn(P), NEW cost \in Nat, NEW n \in Nat,
         NEW Q, Settles(P, Q, i, cost, n),
         spend' = [d \in DOMAIN spend \cup {n} |-> IF d = n THEN SpentOn(d) + cost ELSE spend[d]]
  PROVE  Accounts(spend', Q)
<1> DEFINE rest == DOMAIN spend \ {n}
<1>0. /\ SettledIn(Q) = SettledIn(P) \cup {i}
      /\ \A d : SettledOn(Q, d) = IF d = n THEN SettledOn(P, d) \cup {i} ELSE SettledOn(P, d)
  BY SettledPairs
<1>1. /\ IsFiniteSet(DOMAIN spend) /\ \A d \in DOMAIN spend : spend[d] \in Nat
      /\ \A d \in Nat : SpentOn(d) = Total(CostsIn(P), SettledOn(P, d))
      /\ Total(spend, DOMAIN spend) = Total(CostsIn(P), SettledIn(P))
  BY DEF SpendIsSettled, Accounts, SpentOn
<1>2. \A d : SpentOn(d) \in Nat
  BY <1>1 DEF SpentOn
<1>3. DOMAIN spend' = DOMAIN spend \cup {n} /\ DOMAIN spend' = rest \cup {n} /\ n \notin rest
  OBVIOUS
<1>4. spend'[n] = SpentOn(n) + cost /\ \A d \in rest : spend'[d] = spend[d] /\ spend[d] \in Nat
  BY <1>1
<1>5. IsFiniteSet(DOMAIN spend') /\ IsFiniteSet(rest) /\ \A d \in DOMAIN spend' : spend'[d] \in Nat
  <2>1. rest \subseteq DOMAIN spend
    OBVIOUS
  <2> QED
    BY <1>1, <1>2, <1>3, <1>4, <2>1, FS_Subset, FS_AddElement
<1>6. \A d : (IF d \in DOMAIN spend' THEN spend'[d] ELSE 0) = IF d = n THEN SpentOn(d) + cost ELSE SpentOn(d)
  BY <1>3, <1>4 DEF SpentOn
<1>7. \A d \in Nat : (IF d \in DOMAIN spend' THEN spend'[d] ELSE 0) = Total(CostsIn(Q), SettledOn(Q, d))
  <2> TAKE d \in Nat
  <2>1. SettledOn(P, d) \subseteq SettledIn(P)
    BY DEF SettledOn
  <2>2. /\ Total(CostsIn(Q), SettledOn(P, d)) = Total(CostsIn(P), SettledOn(P, d))
        /\ Total(CostsIn(Q), SettledOn(P, d) \cup {i}) = Total(CostsIn(P), SettledOn(P, d)) + cost
    BY <2>1, SettledMore
  <2> QED
    BY <1>0, <1>1, <1>6, <2>2
<1>8. Total(CostsIn(Q), SettledIn(Q)) = Total(CostsIn(P), SettledIn(P)) + cost
  BY <1>0, SettledMore
<1>9. Total(spend', DOMAIN spend') = Total(spend, DOMAIN spend) + cost
  <2>1. Total(spend', rest) = Total(spend, rest)
    BY <1>4, <1>5, TotalSame
  <2>2. Total(spend', rest \cup {n}) = spend'[n] + Total(spend', rest)
    <3>1. \A d \in rest \cup {n} : spend'[d] \in Int
      <4> HIDE DEF rest
      <4> QED
        BY ONLY <1>3, <1>5
    <3> QED
      BY <1>3, <1>5, <3>1, TotalAdd
  <2>3. Total(spend, DOMAIN spend) = SpentOn(n) + Total(spend, rest) /\ Total(spend, rest) \in Nat
    <3>1. Total(spend, rest) \in Nat
      BY <1>4, <1>5, TotalNat
    <3>2. CASE n \in DOMAIN spend
      <4>1. Total(spend, DOMAIN spend) = spend[n] + Total(spend, rest)
        BY <1>1, <3>2, TotalRemove
      <4> QED
        BY <3>1, <3>2, <4>1 DEF SpentOn
    <3>3. CASE n \notin DOMAIN spend
      <4>1. rest = DOMAIN spend /\ SpentOn(n) = 0
        BY <3>3 DEF SpentOn
      <4> QED
        BY <3>1, <4>1
    <3> QED
      BY <3>2, <3>3
  <2>4. SpentOn(n) \in Nat
    BY <1>2
  <2> HIDE DEF rest
  <2> QED
    BY <1>3, <1>4, <2>1, <2>2, <2>3, <2>4
<1> QED
  BY <1>1, <1>5, <1>7, <1>8, <1>9 DEF Accounts

LEMMA RowsType ==
  ASSUME \A k \in DOMAIN outcomes : IsRow(outcomes[k]), NEW m, NEW class, NEW success, NEW latency
  PROVE  /\ DOMAIN Rows(m, class, success, latency) = DOMAIN outcomes
         /\ \A k \in DOMAIN outcomes : IsRow(Rows(m, class, success, latency)[k])
         /\ \A k \in DOMAIN outcomes : Rows(m, class, success, latency)[k].evaluations = outcomes[k].evaluations
<1> DEFINE row == Row(m, class, success, latency)
<1>1. IsRow(row) /\ row.evaluations = outcomes[<<m, class>>].evaluations
  BY DEF IsRow, Row
<1> HIDE DEF row
<1>2. Rows(m, class, success, latency) = [outcomes EXCEPT ![<<m, class>>] = row]
  BY DEF Rows, row
<1>3. DOMAIN Rows(m, class, success, latency) = DOMAIN outcomes
  BY <1>2
<1>4. \A k \in DOMAIN outcomes : Rows(m, class, success, latency)[k] = IF k = <<m, class>> THEN row ELSE outcomes[k]
  BY <1>2
<1> QED
  BY <1>1, <1>3, <1>4

LEMMA SettlingIsCounted ==
  ASSUME NEW P, PairsAreSound(P), EvaluationsAreCounted(P), NEW i \in ArmsIn(P) \ SettledIn(P), P[i[1]].status = "ACTIVE",
         NEW cost \in Nat, NEW day \in Nat, NEW Q, Settles(P, Q, i, cost, day),
         NEW m, NEW class, NEW success,
         outcomes' = Counts(Rows(m, class, success, None), <<P[i[1]].candidate, P[i[1]].class>>, Q[i[1]].status = "COMPLETED")
  PROVE  Counted(outcomes', Q)
<1> DEFINE p == i[1]
           own == <<P[p].candidate, P[p].class>>
           rows == Rows(m, class, success, None)
           completed == Q[p].status = "COMPLETED"
<1>1. DOMAIN rows = Model \X Class /\ DOMAIN outcomes = Model \X Class
      /\ \A k \in Model \X Class : IsRow(rows[k]) /\ rows[k].evaluations = Cardinality(CompletedIn(P, k))
  <2>1. /\ DOMAIN outcomes = Model \X Class /\ \A k \in DOMAIN outcomes : IsRow(outcomes[k])
        /\ \A k \in DOMAIN outcomes : outcomes[k].evaluations = Cardinality(CompletedIn(P, k))
    BY DEF EvaluationsAreCounted, Counted
  <2>2. /\ DOMAIN rows = DOMAIN outcomes
        /\ \A k \in DOMAIN outcomes : IsRow(rows[k])
        /\ \A k \in DOMAIN outcomes : rows[k].evaluations = outcomes[k].evaluations
    <3>1. PICK latency : latency = None
      OBVIOUS
    <3>2. rows = Rows(m, class, success, latency)
      BY <3>1
    <3> HIDE DEF rows
    <3> QED
      BY ONLY <2>1, <3>2, RowsType
  <2> HIDE DEF rows
  <2> QED
    BY <2>1, <2>2
<1>2. p \in DOMAIN P /\ own \in Model \X Class /\ IsFiniteSet(DOMAIN P)
  BY DEF ArmsIn, PairsAreSound, IsPair
<1>3. /\ DOMAIN Q = DOMAIN P /\ \A q \in DOMAIN P : Q[q].candidate = P[q].candidate /\ Q[q].class = P[q].class
      /\ \A q \in DOMAIN P : q # p => Q[q].status = P[q].status
  BY DEF Settles
<1>4. \A k : CompletedIn(Q, k) = IF completed /\ k = own THEN CompletedIn(P, k) \cup {p} ELSE CompletedIn(P, k)
  BY <1>2, <1>3 DEF CompletedIn
<1>5. p \notin CompletedIn(P, own) /\ IsFiniteSet(CompletedIn(P, own))
  <2>1. CompletedIn(P, own) \subseteq DOMAIN P
    BY DEF CompletedIn
  <2>2. p \notin CompletedIn(P, own)
    BY DEF CompletedIn
  <2> QED
    BY <1>2, <2>1, <2>2, FS_Subset
<1>6. Cardinality(CompletedIn(P, own) \cup {p}) = Cardinality(CompletedIn(P, own)) + 1
  BY <1>5, FS_AddElement
<1>7. outcomes' = IF completed THEN [rows EXCEPT ![own].evaluations = @ + 1] ELSE rows
  BY DEF Counts
<1> HIDE DEF rows, own, completed
<1>8. CASE ~completed
  BY <1>1, <1>4, <1>7, <1>8 DEF Counted
<1>9. CASE completed
  <2> DEFINE row == [rows[own] EXCEPT !.evaluations = @ + 1]
  <2>1. rows[own] = [successes |-> rows[own].successes, failures |-> rows[own].failures, latency |-> rows[own].latency,
                     evaluations |-> rows[own].evaluations]
    BY <1>1, <1>2 DEF IsRow
  <2>2. row = [successes |-> rows[own].successes, failures |-> rows[own].failures, latency |-> rows[own].latency,
               evaluations |-> rows[own].evaluations + 1]
    BY <2>1
  <2>3. outcomes' = [rows EXCEPT ![own] = row]
    BY <1>7, <1>9
  <2> HIDE DEF row
  <2>4. IsRow(row) /\ row.evaluations = rows[own].evaluations + 1
    BY <2>2 DEF IsRow
  <2>5. DOMAIN outcomes' = Model \X Class /\ \A k \in Model \X Class : outcomes'[k] = IF k = own THEN row ELSE rows[k]
    BY <1>1, <1>2, <2>3
  <2>6. row.evaluations = Cardinality(CompletedIn(Q, own))
    BY <1>1, <1>2, <1>4, <1>6, <1>9, <2>4
  <2> QED
    BY <1>1, <1>4, <2>4, <2>5, <2>6 DEF Counted
<1> QED
  BY <1>8, <1>9

(***************************************************************************)
(* The ledger is sound and balanced whoever reserves, records, dies or is  *)
(* late.                                                                   *)
(***************************************************************************)
LedgerInvariant ==
  PlansAreReal /\ LedgerIsSound(reservations, pairs) /\ SpendIsSettled(pairs) /\ EvaluationsAreCounted(pairs)

LEMMA LedgerInit == RouterInit => LedgerInvariant
<1> SUFFICES ASSUME RouterInit PROVE LedgerInvariant
  OBVIOUS
<1>1. /\ now = 0 /\ scenario \in DOMAIN Scenarios /\ file = Scenarios[scenario].catalog
      /\ plans = [c \in Client |-> None] /\ sessions = [s \in {} |-> None]
      /\ outcomes = [k \in Model \X Class |-> [successes |-> 0, failures |-> 0, latency |-> None, evaluations |-> 0]]
      /\ DOMAIN reservations = {} /\ DOMAIN pairs = {} /\ DOMAIN spend = {}
  BY DEF RouterInit
<1>2. PlansAreReal
  <2>1. DOMAIN Scenarios[scenario].catalog.models \subseteq Model
    BY <1>1, ScenariosAssumption
  <2> QED
    BY <1>1, <2>1 DEF PlansAreReal, Tokens
<1>3. IsFiniteSet({}) /\ Cardinality({}) = 0
  BY FS_EmptySet
<1>4. LedgerIsSound(reservations, pairs)
  <2>1. PairsAreSound(pairs)
    BY <1>1, <1>3 DEF PairsAreSound
  <2> QED
    BY <1>1, <2>1 DEF LedgerIsSound, ReservationsAreSound, BudgetsAreKept
<1>5. SettledIn(pairs) = {} /\ \A d : SettledOn(pairs, d) = {}
  BY <1>1 DEF SettledIn, ArmsIn, SettledOn
<1>6. SpendIsSettled(pairs)
  <2>1. \A d : SpentOn(d) = 0
    BY <1>1 DEF SpentOn
  <2>2. \A f : Total(f, {}) = 0
    BY TotalEmpty
  <2> QED
    BY <1>1, <1>3, <1>5, <2>1, <2>2 DEF SpendIsSettled, Accounts
<1>7. EvaluationsAreCounted(pairs)
  <2>1. \A k : CompletedIn(pairs, k) = {}
    BY <1>1 DEF CompletedIn
  <2>2. IsRow([successes |-> 0, failures |-> 0, latency |-> None, evaluations |-> 0])
    BY DEF IsRow
  <2>3. DOMAIN outcomes = Model \X Class
    BY <1>1
  <2>4. \A k \in Model \X Class : outcomes[k] = [successes |-> 0, failures |-> 0, latency |-> None, evaluations |-> 0]
    BY <1>1
  <2> QED
    BY <1>3, <2>1, <2>2, <2>3, <2>4 DEF EvaluationsAreCounted, Counted
<1> QED
  BY <1>2, <1>4, <1>6, <1>7 DEF LedgerInvariant

LedgerStays == UNCHANGED <<scenario, reservations, pairs, spend>>

\* A step that only adds outcomes, or nothing at all, to what the ledger is about.
LEMMA LedgerKept ==
  ASSUME LedgerInvariant, LedgerStays, outcomes' = outcomes
  PROVE  LedgerIsSound(reservations, pairs)' /\ SpendIsSettled(pairs)' /\ EvaluationsAreCounted(pairs)'
<1>1. LedgerIsSound(reservations, pairs)'
  BY DEF LedgerInvariant, LedgerIsSound, ReservationsAreSound, BudgetsAreKept, WithinLimit, LedgerStays
<1>2. SpendIsSettled(pairs)'
  BY DEF LedgerInvariant, SpendIsSettled, SpentOn, LedgerStays
<1>3. EvaluationsAreCounted(pairs)'
  BY DEF LedgerInvariant, EvaluationsAreCounted, LedgerStays
<1> QED
  BY <1>1, <1>2, <1>3

(***************************************************************************)
(* The plans that are about to be reserved, and what they were made from.  *)
(***************************************************************************)
LEMMA PlansKept ==
  ASSUME PlansAreReal, now' \in Nat, now <= now', scenario' = scenario, DOMAIN file'.models \subseteq Model, Tokens(sessions)',
         DOMAIN plans' = Client, \A c \in Client : plans'[c] \in {plans[c], None} \/ IsPlan(plans'[c])
  PROVE  PlansAreReal'
<1>1. \A x : IsPlan(x) => IsPlan(x)'
  BY DEF PlansAreReal, IsPlan
<1>2. \A c \in Client : plans'[c] # None => IsPlan(plans'[c])
  BY DEF PlansAreReal
<1> QED
  BY <1>1, <1>2 DEF PlansAreReal

LEMMA SyncedModels ==
  ASSUME NEW previous, NEW profiles, NEW published, NEW t
  PROVE  DOMAIN SyncCatalog(previous, profiles, published, t).models \subseteq published.discovered \cup DOMAIN published.prices
BY DEF SyncCatalog

LEMMA PlansUnchanged ==
  ASSUME PlansAreReal, UNCHANGED <<now, scenario, file, sessions, plans>>
  PROVE  PlansAreReal'
<1>1. /\ now' \in Nat /\ now <= now' /\ scenario' = scenario /\ DOMAIN file'.models \subseteq Model
      /\ DOMAIN plans' = Client /\ \A c \in Client : plans'[c] = plans[c]
  BY DEF PlansAreReal
<1>2. Tokens(sessions)'
  BY DEF PlansAreReal, Tokens
<1> QED
  BY <1>1, <1>2, PlansKept

LEMMA PlanningIsReal ==
  ASSUME PlansAreReal, NEW c, NEW r \in Scenarios[scenario].requests, NEW plan \in Scenarios[scenario].plans, PlanEvaluation(c, r, plan)
  PROVE  PlansAreReal'
<1> DEFINE trials == Trials(file, r, outcomes, sessions, now, plan)
           new == [trials |-> trials, limit |-> plan.limit, at |-> now]
<1>1. /\ ValidRequest(r) /\ ValidCatalog(file) /\ plans' = [plans EXCEPT ![c] = new]
      /\ now' = now /\ scenario' = scenario /\ file' = file /\ sessions' = sessions
  BY DEF PlanEvaluation, catalogs, runtime
<1>2. /\ now \in Nat /\ scenario \in DOMAIN Scenarios /\ DOMAIN file.models \subseteq Model /\ Tokens(sessions) /\ DOMAIN plans = Client
  BY DEF PlansAreReal
<1>3. r.class \in Class /\ {plan.limit, plan.candidates, plan.samples} \subseteq Nat
  BY <1>2, ScenariosAssumption
<1>4. Len(trials) \in Nat /\ \A n \in 1 .. Len(trials) : Planned(trials[n])
  BY <1>1, <1>2, <1>3, TrialsType
<1>5. IsPlan(new)
  <2> HIDE DEF trials
  <2> QED
    BY <1>2, <1>4 DEF IsPlan
<1> HIDE DEF new
<1>6. DOMAIN plans' = Client /\ \A k \in Client : plans'[k] = plans[k] \/ plans'[k] = new
  BY <1>1, <1>2
<1>7. Tokens(sessions)'
  BY <1>1, <1>2 DEF Tokens
<1> QED
  BY <1>1, <1>2, <1>5, <1>6, <1>7, PlansKept

(***************************************************************************)
(* The operations of the evaluators.                                       *)
(***************************************************************************)
LEMMA ReserveKeepsLedger ==
  ASSUME LedgerInvariant, NEW c \in Client, Reserve(c)
  PROVE  LedgerInvariant'
<1>1. PlansAreReal'
  <2>1. /\ now' = now /\ scenario' = scenario /\ file' = file /\ sessions' = sessions
        /\ plans' = [plans EXCEPT ![c] = None] /\ plans[c] # None
    BY DEF Reserve, catalogs
  <2>2. /\ now' \in Nat /\ now <= now' /\ DOMAIN file'.models \subseteq Model
        /\ DOMAIN plans' = Client /\ \A k \in Client : plans'[k] \in {plans[k], None}
    BY <2>1 DEF LedgerInvariant, PlansAreReal
  <2>3. Tokens(sessions)'
    BY <2>1 DEF LedgerInvariant, PlansAreReal, Tokens
  <2> QED
    BY <2>1, <2>2, <2>3, PlansKept DEF LedgerInvariant
<1>2. UNCHANGED <<scenario, outcomes, spend>>
  BY DEF Reserve
<1>3. CASE UNCHANGED <<reservations, pairs>>
  BY <1>1, <1>2, <1>3, LedgerKept DEF LedgerStays, LedgerInvariant
<1>4. CASE reservations' = ReserveAll(plans[c]).reservations /\ pairs' = ReserveAll(plans[c]).pairs
  <2>1. IsPlan(plans[c]) /\ scenario \in DOMAIN Scenarios
    BY DEF Reserve, LedgerInvariant, PlansAreReal
  <2>2. Good(ReserveAll(plans[c]))
    BY <2>1, ReserveAllIsSound DEF LedgerInvariant
  <2> DEFINE S == ReserveAll(plans[c]).reservations
             Q == ReserveAll(plans[c]).pairs
  <2>3. LedgerIsSound(S, Q) /\ SpendIsSettled(Q) /\ EvaluationsAreCounted(Q)
    BY <2>2 DEF Good
  <2> HIDE DEF S, Q
  <2>4. reservations' = S /\ pairs' = Q
    BY <1>4 DEF S, Q
  <2>5. LedgerIsSound(reservations, pairs)'
    BY <1>2, <2>3, <2>4 DEF LedgerIsSound, ReservationsAreSound, PairsAreSound, BudgetsAreKept, WithinLimit
  <2>6. SpendIsSettled(pairs)'
    BY <1>2, <2>3, <2>4 DEF SpendIsSettled, Accounts, SpentOn
  <2>7. EvaluationsAreCounted(pairs)'
    BY <1>2, <2>3, <2>4 DEF EvaluationsAreCounted, Counted
  <2> QED
    BY <1>1, <2>5, <2>6, <2>7 DEF LedgerInvariant
<1> QED
  BY <1>3, <1>4 DEF Reserve

LEMMA RecordKeepsLedger ==
  ASSUME LedgerInvariant, NEW i \in DOMAIN reservations, NEW class, NEW success, NEW cost \in {0, reservations[i].reserved},
         RecordEvaluation(i, class, success, cost)
  PROVE  LedgerInvariant'
<1>1. /\ PlansAreReal /\ LedgerIsSound(reservations, pairs) /\ SpendIsSettled(pairs) /\ EvaluationsAreCounted(pairs)
      /\ now \in Nat /\ scenario \in DOMAIN Scenarios /\ PairsAreSound(pairs) /\ reservations[i].reserved \in Nat
  BY DEF LedgerInvariant, PlansAreReal, LedgerIsSound, ReservationsAreSound
<1>2. cost \in Nat /\ cost <= reservations[i].reserved /\ Day(now) \in Nat
  BY <1>1, RoutingAssumption DEF Day
<1>3. /\ Settles(pairs, pairs', i, cost, Day(now)) /\ i \in ArmsIn(pairs) \ SettledIn(pairs) /\ pairs[i[1]].status = "ACTIVE"
      /\ outcomes' = Counts(Rows(reservations[i].model, class, success, None), <<pairs[i[1]].candidate, pairs[i[1]].class>>,
                            pairs'[i[1]].status = "COMPLETED")
  BY <1>1, <1>2, RecordSettles
<1>4. /\ UNCHANGED <<now, scenario, file, sessions, plans>>
      /\ reservations' = Restrict(reservations, DOMAIN reservations \ {i})
      /\ spend' = [d \in DOMAIN spend \cup {Day(now)} |-> IF d = Day(now) THEN SpentOn(d) + cost ELSE spend[d]]
  BY DEF RecordEvaluation, catalogs
<1>5. PlansAreReal'
  BY <1>1, <1>4, PlansUnchanged
<1>6. PICK P, Q : P = pairs /\ Q = pairs'
  OBVIOUS
<1>7. PICK n \in Nat : n = Day(now)
  BY <1>2
<1>8. PICK m, latency : m = reservations[i].model /\ latency = None
  OBVIOUS
<1>9. Settles(pairs, Q, i, cost, n)
  BY <1>3, <1>6, <1>7
<1>10. LedgerIsSound(Restrict(reservations, DOMAIN reservations \ {i}), Q)
  BY <1>1, <1>2, <1>9, SettlingKeepsLedger
<1>11. Accounts(spend', Q)
  <2>1. PairsAreSound(P) /\ SpendIsSettled(P) /\ i \in ArmsIn(P) \ SettledIn(P)
    BY <1>1, <1>3, <1>6
  <2>2. Settles(P, Q, i, cost, n)
    BY <1>6, <1>9
  <2>3. spend' = [d \in DOMAIN spend \cup {n} |-> IF d = n THEN SpentOn(d) + cost ELSE spend[d]]
    BY <1>4, <1>7
  <2> QED
    BY <1>2, <2>1, <2>2, <2>3, SettlingIsSpent
<1>12. Counted(outcomes', Q)
  <2>1. PairsAreSound(P) /\ EvaluationsAreCounted(P) /\ i \in ArmsIn(P) \ SettledIn(P) /\ P[i[1]].status = "ACTIVE"
    BY <1>1, <1>3, <1>6
  <2>2. Settles(P, Q, i, cost, n)
    BY <1>6, <1>9
  <2>3. outcomes' = Counts(Rows(m, class, success, None), <<P[i[1]].candidate, P[i[1]].class>>, Q[i[1]].status = "COMPLETED")
    BY <1>3, <1>6, <1>8
  <2> QED
    BY <1>2, <2>1, <2>2, <2>3, SettlingIsCounted
<1>13. LedgerIsSound(reservations, pairs)'
  BY <1>4, <1>6, <1>10 DEF LedgerIsSound, ReservationsAreSound, PairsAreSound, BudgetsAreKept, WithinLimit
<1>14. SpendIsSettled(pairs)'
  BY <1>6, <1>11 DEF SpendIsSettled
<1>15. EvaluationsAreCounted(pairs)'
  BY <1>6, <1>12 DEF EvaluationsAreCounted
<1> QED
  BY <1>5, <1>13, <1>14, <1>15 DEF LedgerInvariant

LEMMA OutcomeKeepsLedger ==
  ASSUME LedgerInvariant, NEW m, NEW class, NEW success, NEW latency, NEW s, NEW tokens \in Nat, NEW epoch,
         RecordOutcome(m, class, success, latency, s, tokens, epoch)
  PROVE  LedgerInvariant'
<1>1. /\ outcomes' = Rows(m, class, success, latency) /\ sessions' = Remembered(s, m, tokens, epoch)
      /\ UNCHANGED <<now, scenario, reservations, pairs, spend, file, plans>>
  BY DEF RecordOutcome, catalogs, Rows
<1>2. /\ PlansAreReal /\ LedgerIsSound(reservations, pairs) /\ SpendIsSettled(pairs) /\ EvaluationsAreCounted(pairs)
  BY DEF LedgerInvariant
<1>3. Tokens(sessions)'
  <2>1. Tokens(sessions)
    BY <1>2 DEF PlansAreReal
  <2>2. \A t \in DOMAIN sessions' : sessions'[t].tokens \in Nat
    <3>1. CASE s = None
      BY <1>1, <2>1, <3>1 DEF Remembered, Tokens
    <3>2. CASE s # None
      <4> DEFINE new == [model |-> m, tokens |-> tokens, epoch |-> epoch, until |-> now + SlotsPerDay \div 2]
      <4>1. sessions' = [t \in DOMAIN sessions \cup {s} |-> IF t = s THEN new ELSE sessions[t]]
        BY <1>1, <3>2 DEF Remembered
      <4>2. new.tokens \in Nat
        OBVIOUS
      <4> HIDE DEF new
      <4> QED
        BY <2>1, <4>1, <4>2 DEF Tokens
    <3> QED
      BY <3>1, <3>2
  <2> QED
    BY <2>2 DEF Tokens
<1>4. PlansAreReal'
  <2>1. /\ now' \in Nat /\ now <= now' /\ scenario' = scenario /\ DOMAIN file'.models \subseteq Model
        /\ DOMAIN plans' = Client /\ \A k \in Client : plans'[k] = plans[k]
    BY <1>1, <1>2 DEF PlansAreReal
  <2> QED
    BY <1>2, <1>3, <2>1, PlansKept
<1>5. EvaluationsAreCounted(pairs)'
  <2>1. /\ DOMAIN outcomes = Model \X Class /\ \A k \in DOMAIN outcomes : IsRow(outcomes[k])
        /\ \A k \in DOMAIN outcomes : outcomes[k].evaluations = Cardinality(CompletedIn(pairs, k))
    BY <1>2 DEF EvaluationsAreCounted, Counted
  <2>2. /\ DOMAIN outcomes' = DOMAIN outcomes /\ \A k \in DOMAIN outcomes : IsRow(outcomes'[k])
        /\ \A k \in DOMAIN outcomes : outcomes'[k].evaluations = outcomes[k].evaluations
    BY <1>1, <2>1, RowsType
  <2>3. pairs' = pairs
    BY <1>1
  <2> QED
    BY <2>1, <2>2, <2>3 DEF EvaluationsAreCounted, Counted
<1>6. LedgerIsSound(reservations, pairs)' /\ SpendIsSettled(pairs)'
  BY <1>1, <1>2 DEF LedgerIsSound, ReservationsAreSound, PairsAreSound, BudgetsAreKept, WithinLimit, SpendIsSettled, Accounts, SpentOn
<1> QED
  BY <1>4, <1>5, <1>6 DEF LedgerInvariant

\* The other steps do not touch the ledger.
LEMMA OthersKeepLedger ==
  ASSUME LedgerInvariant, PlansAreReal', LedgerStays, outcomes' = outcomes
  PROVE  LedgerInvariant'
BY LedgerKept DEF LedgerInvariant

LEMMA LedgerStep ==
  ASSUME LedgerInvariant, [RouterNext]_routerVars
  PROVE  LedgerInvariant'
<1>0. /\ PlansAreReal /\ now \in Nat /\ now <= now /\ scenario \in DOMAIN Scenarios
      /\ DOMAIN file.models \subseteq Model /\ Tokens(sessions) /\ DOMAIN plans = Client
  BY DEF LedgerInvariant, PlansAreReal
<1>1. ASSUME UNCHANGED <<now, scenario, file, sessions, plans>>, LedgerStays, outcomes' = outcomes
      PROVE  LedgerInvariant'
  BY <1>0, <1>1, PlansUnchanged, OthersKeepLedger
<1>2. ASSUME UNCHANGED <<now, scenario, runtime, plans>>, DOMAIN file'.models \subseteq Model
      PROVE  LedgerInvariant'
  <2>1. /\ now' = now /\ scenario' = scenario /\ sessions' = sessions /\ plans' = plans
        /\ LedgerStays /\ outcomes' = outcomes
    BY <1>2 DEF runtime, LedgerStays
  <2>2. Tokens(sessions)'
    BY <1>0, <2>1 DEF Tokens
  <2>3. PlansAreReal'
    BY <1>0, <1>2, <2>1, <2>2, PlansKept
  <2> QED
    BY <2>1, <2>3, OthersKeepLedger
<1>3. ASSUME NEW c, StartSync(c) PROVE LedgerInvariant'
  BY <1>1, <1>3 DEF StartSync, runtime, LedgerStays
<1>4. ASSUME NEW c, FinishSync(c) PROVE LedgerInvariant'
  <2>1. PICK published \in Scenarios[scenario].published \cup {None} :
          file' = IF published = None THEN file ELSE SyncCatalog(syncs[c].previous, syncs[c].profiles, published, now)
    BY <1>4 DEF FinishSync
  <2>2. DOMAIN file'.models \subseteq Model
    <3>1. CASE published = None
      BY <1>0, <2>1, <3>1
    <3>2. CASE published # None
      <4>1. published.discovered \cup DOMAIN published.prices \subseteq Model
        BY <1>0, <3>2, ScenariosAssumption
      <4>2. DOMAIN SyncCatalog(syncs[c].previous, syncs[c].profiles, published, now).models
              \subseteq published.discovered \cup DOMAIN published.prices
        BY SyncedModels
      <4> QED
        BY <2>1, <3>2, <4>1, <4>2
    <3> QED
      BY <3>1, <3>2
  <2> QED
    BY <1>2, <1>4, <2>2 DEF FinishSync
<1>5. ASSUME ReplaceCatalog PROVE LedgerInvariant'
  <2>1. file' \in Scenarios[scenario].others
    BY <1>5 DEF ReplaceCatalog
  <2>2. DOMAIN file'.models \subseteq Model
    BY <1>0, <2>1, ScenariosAssumption
  <2> QED
    BY <1>2, <1>5, <2>2 DEF ReplaceCatalog
<1>6. ASSUME NEW r, RouteOnServer(r) PROVE LedgerInvariant'
  BY <1>1, <1>6 DEF RouteOnServer, runtime, LedgerStays
<1>7. ASSUME NEW c, NEW r, NEW given, RouteFragments(c, r, given) PROVE LedgerInvariant'
  BY <1>1, <1>7 DEF RouteFragments, runtime, catalogs, LedgerStays
<1>8. ASSUME WriteIndex PROVE LedgerInvariant'
  BY <1>1, <1>8 DEF WriteIndex, runtime, catalogs, LedgerStays
<1>9. ASSUME NEW c, NEW r \in Scenarios[scenario].requests, NEW plan \in Scenarios[scenario].plans, PlanEvaluation(c, r, plan)
      PROVE  LedgerInvariant'
  <2>1. LedgerStays /\ outcomes' = outcomes
    BY <1>9 DEF PlanEvaluation, runtime, LedgerStays
  <2>2. PlansAreReal'
    BY <1>0, <1>9, PlanningIsReal
  <2> QED
    BY <2>1, <2>2, OthersKeepLedger
<1>10. ASSUME NEW c \in Client, Reserve(c) PROVE LedgerInvariant'
  BY <1>10, ReserveKeepsLedger
<1>11. ASSUME NEW m, NEW class, NEW success, NEW s,
              RecordOutcome(m, class, success, Scenarios[scenario].latency, s, Scenarios[scenario].tokens, Scenarios[scenario].epoch)
       PROVE  LedgerInvariant'
  <2>1. Scenarios[scenario].tokens \in Nat
    BY <1>0, ScenariosAssumption
  <2> QED
    BY <1>11, <2>1, OutcomeKeepsLedger
<1>12. ASSUME NEW i \in DOMAIN reservations, NEW class, NEW success, NEW cost \in {0, reservations[i].reserved},
              RecordEvaluation(i, class, success, cost)
       PROVE  LedgerInvariant'
  BY <1>12, RecordKeepsLedger
<1>13. ASSUME TimePasses PROVE LedgerInvariant'
  <2>1. /\ now' = now + 1 /\ scenario' = scenario /\ file' = file /\ sessions' = sessions /\ plans' = plans
        /\ LedgerStays /\ outcomes' = outcomes
    BY <1>13 DEF TimePasses, runtime, catalogs, LedgerStays
  <2>2. now' \in Nat /\ now <= now'
    BY <1>0, <2>1
  <2>3. Tokens(sessions)'
    BY <1>0, <2>1 DEF Tokens
  <2>4. PlansAreReal'
    BY <1>0, <2>1, <2>2, <2>3, PlansKept
  <2> QED
    BY <2>1, <2>4, OthersKeepLedger
<1>14. CASE UNCHANGED routerVars
  BY <1>1, <1>14 DEF routerVars, runtime, catalogs, LedgerStays
<1> QED
  BY <1>3, <1>4, <1>5, <1>6, <1>7, <1>8, <1>9, <1>10, <1>11, <1>12, <1>13, <1>14 DEF RouterNext

(***************************************************************************)
(* What the invariant says of the operators of RouterRuntime.              *)
(***************************************************************************)
LEMMA LedgerOperators ==
  /\ Arms = ArmsIn(pairs) /\ Settled = SettledIn(pairs) /\ Costs = CostsIn(pairs)
  /\ \A d : ReservedThen(d) = SettledThen(pairs, d)
  /\ \A k : Completed(k) = CompletedIn(pairs, k)
<1>1. Arms = ArmsIn(pairs)
  BY DEF Arms, ArmsIn
<1>2. Settled = SettledIn(pairs) /\ Costs = CostsIn(pairs)
  BY <1>1 DEF Settled, SettledIn, Costs, CostsIn
<1>3. \A d : ReservedThen(d) = SettledThen(pairs, d)
  BY <1>2 DEF ReservedThen, SettledThen
<1>4. \A k : Completed(k) = CompletedIn(pairs, k)
  BY DEF Completed, CompletedIn
<1> QED
  BY <1>1, <1>2, <1>3, <1>4

LEMMA KeptIsWithinBudget == LedgerInvariant => WithinBudget
<1> SUFFICES ASSUME LedgerInvariant, NEW p \in DOMAIN pairs
             PROVE  \E plan \in Scenarios[scenario].plans :
                      Total(Costs, ReservedThen(pairs[p].day)) + Reserved(reservations, pairs[p].day) <= plan.limit
  BY DEF WithinBudget
<1>1. WithinLimit(Total(CostsIn(pairs), SettledThen(pairs, pairs[p].day)) + Reserved(reservations, pairs[p].day))
  BY DEF LedgerInvariant, LedgerIsSound, BudgetsAreKept
<1>2. WithinLimit(Total(Costs, ReservedThen(pairs[p].day)) + Reserved(reservations, pairs[p].day))
  BY <1>1, LedgerOperators
<1> QED
  BY <1>2 DEF WithinLimit

LEMMA SoundBalances == LedgerInvariant => LedgerBalances
<1> SUFFICES ASSUME LedgerInvariant PROVE LedgerBalances
  OBVIOUS
<1>0. PairsAreSound(pairs) /\ ReservationsAreSound(reservations, pairs) /\ Accounts(spend, pairs) /\ Counted(outcomes, pairs)
  BY DEF LedgerInvariant, LedgerIsSound, SpendIsSettled, EvaluationsAreCounted
<1>1. Total(spend, DOMAIN spend) = Total(Costs, Settled)
  BY <1>0, LedgerOperators DEF Accounts
<1>2. \A i \in Arms : i \in DOMAIN reservations => i \notin Settled /\ pairs[i[1]].status = "ACTIVE"
  BY <1>0, LedgerOperators DEF ReservationsAreSound
<1>3. ASSUME NEW p \in DOMAIN pairs
      PROVE  pairs[p].status = "COMPLETED" <=> \A arm \in DOMAIN pairs[p].arms : <<p, arm>> \in Settled
  <2>1. IsPair(pairs[p]) /\ DOMAIN pairs[p].arms \subseteq Arm
    BY <1>0, <1>3 DEF PairsAreSound
  <2>2. ASSUME NEW arm \in DOMAIN pairs[p].arms
        PROVE  <<p, arm>> \in Settled <=> pairs[p].arms[arm].settled
    <3>1. <<p, arm>> \in Arms
      BY <1>3, <2>1, <2>2 DEF Arms
    <3> QED
      BY <3>1 DEF Settled
  <2>3. pairs[p].status = "COMPLETED" <=> \A arm \in DOMAIN pairs[p].arms : pairs[p].arms[arm].settled
    BY <2>1 DEF IsPair
  <2> QED
    BY <2>2, <2>3
<1>4. \A k \in DOMAIN outcomes : outcomes[k].evaluations = Cardinality(Completed(k))
  BY <1>0, LedgerOperators DEF Counted
<1> QED
  BY <1>1, <1>2, <1>3, <1>4 DEF LedgerBalances

\* The budget of a day is kept: what reserve_evaluation_plan reserved and what record_evaluation settled
\* on the day they were reserved never exceed, together, the limit of a plan that was reserved that day.
THEOREM BudgetsHold == RouterSpec => []WithinBudget
<1> QED
  BY LedgerInit, LedgerStep, KeptIsWithinBudget, PTL DEF RouterSpec

\* What record_evaluation adds to a day's spend is what it settles the arms of pairs for; a reservation is
\* of an unsettled arm of an active pair, and a pair counts for its candidate only once all its arms settle.
THEOREM BalancesHold == RouterSpec => []LedgerBalances
<1> QED
  BY LedgerInit, LedgerStep, SoundBalances, PTL DEF RouterSpec

(***************************************************************************)
(* What is reached in a graph. The closure of some nodes is what a         *)
(* repeated step has come to after as many steps as there are nodes: it    *)
(* stays inside every set that is closed, and is closed itself.            *)
(***************************************************************************)
Reach(graph, S) == S \cup UNION {graph[p] : p \in S \cap DOMAIN graph}
Reaches(F, graph, paths) == F = [n \in Nat |-> IF n = 0 THEN paths ELSE Reach(graph, F[n - 1])]

LEMMA ClosureIsReached ==
  ASSUME NEW graph, NEW paths
  PROVE  Closure(graph, paths) = (CHOOSE F : Reaches(F, graph, paths))[Cardinality(DOMAIN graph)]
BY DEF Closure, Reaches, Reach

LEMMA ClosureSteps ==
  ASSUME NEW graph, NEW paths
  PROVE  \E F : /\ Closure(graph, paths) = F[Cardinality(DOMAIN graph)]
                /\ F[0] = paths
                /\ \A n \in Nat : F[n + 1] = Reach(graph, F[n])
<1> DEFINE U == paths \cup UNION {graph[p] : p \in DOMAIN graph}
           step == [S \in SUBSET U |-> Reach(graph, S)]
<1>1. step \in [SUBSET U -> SUBSET U] /\ paths \in SUBSET U
  BY DEF Reach
<1>2. PICK G \in [Nat -> SUBSET U] : Iteration(G, step, paths)
  <2> HIDE DEF step, U
  <2> QED
    BY <1>1, IterationExists
<1>3. \A n \in Nat : G[n + 1] = Reach(graph, G[n])
  BY <1>2 DEF Iteration
<1>4. Reaches(G, graph, paths)
  <2>1. \A n \in Nat : G[n] = IF n = 0 THEN paths ELSE Reach(graph, G[n - 1])
    <3> TAKE n \in Nat
    <3>1. CASE n = 0
      BY <1>2, <3>1 DEF Iteration
    <3>2. CASE n # 0
      <4>1. n - 1 \in Nat /\ (n - 1) + 1 = n
        BY <3>2
      <4>2. G[(n - 1) + 1] = Reach(graph, G[n - 1])
        BY <1>3, <4>1
      <4> QED
        BY <3>2, <4>1, <4>2
    <3> QED
      BY <3>1, <3>2
  <2>2. G = [n \in Nat |-> G[n]]
    BY <1>2
  <2> QED
    BY <2>1, <2>2 DEF Reaches
<1> DEFINE F == CHOOSE H : Reaches(H, graph, paths)
<1>5. Reaches(F, graph, paths)
  BY <1>4
<1>6. Closure(graph, paths) = F[Cardinality(DOMAIN graph)]
  BY ClosureIsReached
<1> HIDE DEF F
<1>7. F[0] = paths /\ \A n \in Nat : F[n + 1] = Reach(graph, F[n])
  BY <1>5 DEF Reaches
<1> QED
  BY <1>6, <1>7

LEMMA ClosureStays ==
  ASSUME NEW graph, NEW paths, NEW U, IsFiniteSet(DOMAIN graph),
         paths \subseteq U, \A p \in U \cap DOMAIN graph : graph[p] \subseteq U
  PROVE  Closure(graph, paths) \subseteq U
<1>1. PICK F : /\ Closure(graph, paths) = F[Cardinality(DOMAIN graph)]
               /\ F[0] = paths
               /\ \A n \in Nat : F[n + 1] = Reach(graph, F[n])
  BY ClosureSteps
<1> DEFINE Bad == {n \in Nat : ~(F[n] \subseteq U)}
<1>2. Bad = {}
  <2> SUFFICES ASSUME Bad # {} PROVE FALSE
    OBVIOUS
  <2>1. PICK n \in Bad : \A m \in Bad : n <= m
    BY LeastNumber
  <2>2. n \in Nat /\ n # 0
    BY <1>1, <2>1
  <2>3. n - 1 \in Nat /\ n - 1 \notin Bad /\ (n - 1) + 1 = n
    BY <2>1, <2>2
  <2>4. F[n - 1] \subseteq U
    BY <2>3
  <2>5. F[n] = Reach(graph, F[n - 1])
    BY <1>1, <2>3
  <2>6. Reach(graph, F[n - 1]) \subseteq U
    BY <2>4 DEF Reach
  <2> QED
    BY <2>1, <2>5, <2>6
<1>3. Cardinality(DOMAIN graph) \in Nat
  BY FS_CardinalityType
<1> QED
  BY <1>1, <1>2, <1>3

LEMMA ClosureCloses ==
  ASSUME NEW graph, NEW paths, IsFiniteSet(DOMAIN graph),
         paths \subseteq DOMAIN graph, \A p \in DOMAIN graph : graph[p] \subseteq DOMAIN graph
  PROVE  /\ paths \subseteq Closure(graph, paths)
         /\ \A p \in Closure(graph, paths) : graph[p] \subseteq Closure(graph, paths)
<1>1. PICK F : /\ Closure(graph, paths) = F[Cardinality(DOMAIN graph)]
               /\ F[0] = paths
               /\ \A n \in Nat : F[n + 1] = Reach(graph, F[n])
  BY ClosureSteps
<1> DEFINE D == DOMAIN graph
           N == Cardinality(D)
           G == [n \in Nat |-> D \ F[n]]
           M == Cardinality(G[0])
           Leaves == {n \in Nat : ~(F[n] \subseteq D) \/ ~(paths \subseteq F[n])}
           Moves == {n \in Nat : n >= M /\ F[n + 1] # F[n]}
<1>2. Leaves = {}
  <2> SUFFICES ASSUME Leaves # {} PROVE FALSE
    OBVIOUS
  <2>1. PICK n \in Leaves : \A m \in Leaves : n <= m
    BY LeastNumber
  <2>2. n \in Nat /\ n # 0
    BY <1>1, <2>1
  <2>3. n - 1 \in Nat /\ n - 1 \notin Leaves /\ (n - 1) + 1 = n
    BY <2>1, <2>2
  <2>4. F[n - 1] \subseteq D /\ paths \subseteq F[n - 1]
    BY <2>3
  <2>5. F[n] = Reach(graph, F[n - 1])
    BY <1>1, <2>3
  <2>6. Reach(graph, F[n - 1]) \subseteq D /\ paths \subseteq Reach(graph, F[n - 1])
    BY <2>4 DEF Reach
  <2> QED
    BY <2>1, <2>5, <2>6
<1>3. \A n \in Nat : F[n] \subseteq D /\ paths \subseteq F[n]
  BY <1>2
<1>4. \A n \in Nat : F[n + 1] = F[n] => F[n + 2] = F[n + 1]
  <2> TAKE n \in Nat
  <2>1. n + 1 \in Nat /\ n + 2 = (n + 1) + 1
    OBVIOUS
  <2>2. F[n + 1] = Reach(graph, F[n]) /\ F[n + 2] = Reach(graph, F[n + 1])
    BY <1>1, <2>1
  <2> QED
    BY <2>2
<1>5. \A n \in Nat : G[n + 1] \subseteq G[n]
  BY <1>1 DEF Reach
<1>6. \A n \in Nat : G[n + 1] = G[n] => F[n + 1] = F[n]
  <2> TAKE n \in Nat
  <2>1. n + 1 \in Nat /\ G[n + 1] = D \ F[n + 1] /\ G[n] = D \ F[n]
    OBVIOUS
  <2>2. F[n + 1] \subseteq D /\ F[n] \subseteq D
    BY <1>3, <2>1
  <2> HIDE DEF G
  <2> QED
    BY <2>1, <2>2
<1>7. \A n \in Nat : G[n + 1] = G[n] => G[n + 2] = G[n + 1]
  <2> SUFFICES ASSUME NEW n \in Nat, G[n + 1] = G[n] PROVE G[n + 2] = G[n + 1]
    OBVIOUS
  <2>1. n + 1 \in Nat /\ n + 2 \in Nat
    OBVIOUS
  <2>2. F[n + 2] = F[n + 1]
    BY <1>4, <1>6
  <2> QED
    BY <2>1, <2>2
<1>8. IsFiniteSet(G[0]) /\ M \in Nat /\ N \in Nat /\ M <= N
  BY FS_Subset, FS_CardinalityType
<1>9. G[M + 1] = G[M]
  <2> HIDE DEF G
  <2> QED
    BY <1>5, <1>7, <1>8, DescentRests
<1> HIDE DEF M, N, G
<1>10. F[M + 1] = F[M]
  BY <1>6, <1>8, <1>9
<1>11. Moves = {}
  <2> SUFFICES ASSUME Moves # {} PROVE FALSE
    OBVIOUS
  <2>1. PICK n \in Moves : \A m \in Moves : n <= m
    BY LeastNumber
  <2>2. n \in Nat /\ n # M /\ n > M
    BY <1>8, <1>10, <2>1
  <2>3. n - 1 \in Nat /\ n - 1 \notin Moves /\ (n - 1) + 1 = n /\ n - 1 >= M /\ (n - 1) + 2 = n + 1
    BY <1>8, <2>1, <2>2
  <2>4. F[(n - 1) + 1] = F[n - 1]
    BY <2>3
  <2>5. F[(n - 1) + 2] = F[(n - 1) + 1]
    BY <1>4, <2>3, <2>4
  <2> QED
    BY <2>1, <2>3, <2>5
<1>12. F[N + 1] = F[N] /\ F[N + 1] = Reach(graph, F[N]) /\ F[N] \subseteq D /\ paths \subseteq F[N]
  BY <1>1, <1>3, <1>8, <1>11
<1>13. \A p \in F[N] : graph[p] \subseteq F[N]
  BY <1>12 DEF Reach
<1> QED
  BY <1>1, <1>12, <1>13 DEF N

(***************************************************************************)
(* The comparison. In a record that is keyed the key of each source is     *)
(* that of its text, and of what the record says it refers to; what a      *)
(* comparison of two such records lets be used again has the same key in   *)
(* both.                                                                   *)
(***************************************************************************)
Texts(r) == [p \in DOMAIN r.sources |-> r.sources[p].print.text]
Dependencies(r) == [p \in DOMAIN r.sources |-> r.sources[p].dependencies]
Keyed(r) ==
  \A p \in DOMAIN r.sources :
    r.sources[p].key = AnalysisKey(ScopeContext(r.cwd, r.discovery, r.chain, Texts(r)), Dependencies(r), Texts(r), p)
Complete(r) ==
  /\ \A p \in DOMAIN r.sources : r.sources[p].dependencies \subseteq DOMAIN r.sources
  /\ \A i \in DOMAIN r.chain : r.chain[i] \in DOMAIN r.sources

LEMMA RecordIsKeyed ==
  ASSUME NEW o, NEW found, NEW prints, DOMAIN prints = DOMAIN found.graph,
         found.graph = [p \in DOMAIN found.graph |-> found.graph[p]]
  PROVE  /\ Keyed(Record(o, found, prints))
         /\ DOMAIN Record(o, found, prints).sources = DOMAIN found.graph
         /\ \A p \in DOMAIN found.graph : Record(o, found, prints).sources[p].print = prints[p]
         /\ "intact" \in DOMAIN Record(o, found, prints)
<1> DEFINE r == Record(o, found, prints)
           text == [p \in DOMAIN prints |-> prints[p].text]
<1>1. /\ DOMAIN r.sources = DOMAIN found.graph /\ "intact" \in DOMAIN r
      /\ \A p \in DOMAIN found.graph : r.sources[p].print = prints[p] /\ r.sources[p].dependencies = found.graph[p]
  BY DEF Record
<1>2. \A p \in DOMAIN found.graph : r.sources[p].key = AnalysisKey(ScopeContext(r.cwd, r.discovery, r.chain, text), found.graph, text, p)
  BY DEF Record
<1>3. Texts(r) = text
  BY <1>1 DEF Texts
<1>4. Dependencies(r) = found.graph
  BY <1>1 DEF Dependencies
<1> HIDE DEF r, text
<1>5. Keyed(r)
  BY <1>1, <1>2, <1>3, <1>4 DEF Keyed
<1> QED
  BY <1>1, <1>5 DEF r

LEMMA ValidIsKeyed ==
  ASSUME NEW r, ValidRecord(r)
  PROVE  Keyed(r) /\ Complete(r)
<1>1. Keyed(r)
  BY DEF ValidRecord, Keyed, Texts, Dependencies
<1>2. \A p \in DOMAIN r.sources : r.sources[p].dependencies \subseteq DOMAIN r.sources
  BY DEF ValidRecord
<1>3. Range(r.chain) \subseteq DOMAIN r.sources
  BY DEF ValidRecord
<1>4. \A i \in DOMAIN r.chain : r.chain[i] \in DOMAIN r.sources
  BY <1>3 DEF Range
<1> QED
  BY <1>1, <1>2, <1>4 DEF Complete

\* Keys are the same where the text of a source, and of what it refers to, is.
LEMMA SameKey ==
  ASSUME NEW context, NEW graph, NEW old, NEW new, NEW p, NEW U, IsFiniteSet(DOMAIN graph),
         p \in U \cap DOMAIN graph, \A q \in U \cap DOMAIN graph : graph[q] \subseteq U, \A q \in U : old[q] = new[q]
  PROVE  AnalysisKey(context, graph, old, p) = AnalysisKey(context, graph, new, p)
<1>1. Closure(graph, graph[p]) \subseteq U
  BY ClosureStays
<1>2. TransitiveDependencies(graph, p) \subseteq U
  BY <1>1 DEF TransitiveDependencies
<1>3. [d \in TransitiveDependencies(graph, p) |-> <<old[d], graph[d]>>] = [d \in TransitiveDependencies(graph, p) |-> <<new[d], graph[d]>>]
  BY <1>2
<1> QED
  BY <1>3 DEF AnalysisKey

Changed(old, new) == ContentChanged(old.sources, new.sources) \cup GitChanged(old.sources, new.sources)
Reusable(old, new) == DOMAIN new.sources \ DependentClosure(Changed(old, new), new.sources)

LEMMA ComparisonReuses ==
  ASSUME NEW old, NEW new
  PROVE  \/ Compare(old, new).reuse = {}
         \/ /\ SameBinding(old, new) /\ SameGraph(old, new)
            /\ Compare(old, new).reuse = Reusable(old, new)
            /\ Compare(old, new).previous = old /\ Compare(old, new).current = new
            /\ Changed(old, new) \cap Range(new.chain) = {}
BY DEF Compare, Miss, Reusable, Changed

\* What does not depend on a change refers to nothing that does.
LEMMA UnchangedIsClosed ==
  ASSUME NEW old, NEW new, IsFiniteSet(DOMAIN new.sources), NEW p \in Reusable(old, new),
         NEW d \in new.sources[p].dependencies, d \in DOMAIN new.sources
  PROVE  d \in Reusable(old, new)
<1> DEFINE D == DOMAIN new.sources
           changed == Changed(old, new)
           graph == [q \in D |-> {r \in D : q \in new.sources[r].dependencies}]
<1>1. changed \subseteq D
  BY DEF Changed, ContentChanged, GitChanged
<1>2. Closure(graph, changed) = DependentClosure(changed, new.sources)
  BY DEF DependentClosure
<1>3. \A q \in Closure(graph, changed) : graph[q] \subseteq Closure(graph, changed)
  <2>1. DOMAIN graph = D /\ \A q \in D : graph[q] \subseteq D
    OBVIOUS
  <2> HIDE DEF graph, changed
  <2> QED
    BY <1>1, <2>1, ClosureCloses
<1>4. p \in D /\ p \notin Closure(graph, changed)
  BY <1>2 DEF Reusable
<1>5. p \in graph[d]
  BY <1>4
<1> HIDE DEF graph, changed
<1>6. d \notin Closure(graph, changed)
  BY <1>3, <1>4, <1>5
<1> QED
  BY <1>2, <1>6 DEF Reusable, changed

LEMMA UnchangedText ==
  ASSUME NEW old, NEW new, IsFiniteSet(DOMAIN new.sources), SameGraph(old, new)
  PROVE  \A p \in Reusable(old, new) : Texts(old)[p] = Texts(new)[p]
<1> DEFINE D == DOMAIN new.sources
           changed == Changed(old, new)
           graph == [q \in D |-> {r \in D : q \in new.sources[r].dependencies}]
<1>1. changed \subseteq D
  BY DEF Changed, ContentChanged, GitChanged
<1>2. Closure(graph, changed) = DependentClosure(changed, new.sources)
  BY DEF DependentClosure
<1>3. changed \subseteq Closure(graph, changed)
  <2>1. DOMAIN graph = D /\ \A q \in D : graph[q] \subseteq D
    OBVIOUS
  <2> HIDE DEF graph, changed
  <2> QED
    BY <1>1, <2>1, ClosureCloses
<1>4. \A p \in Reusable(old, new) : p \in D /\ p \notin changed
  BY <1>2, <1>3 DEF Reusable
<1>5. \A p \in D : p \notin changed => old.sources[p].print.text = new.sources[p].print.text
  BY DEF Changed, ContentChanged
<1>6. DOMAIN old.sources = D
  BY DEF SameGraph
<1> QED
  BY <1>4, <1>5, <1>6 DEF Texts

LEMMA ReusedKeysAgree ==
  ASSUME NEW old, NEW new, Keyed(old), Complete(old), Keyed(new), IsFiniteSet(DOMAIN new.sources),
         NEW p \in Compare(old, new).reuse
  PROVE  Compare(old, new).previous.sources[p].key = Compare(old, new).current.sources[p].key
<1>1. /\ SameBinding(old, new) /\ SameGraph(old, new) /\ Compare(old, new).reuse = Reusable(old, new)
      /\ Compare(old, new).previous = old /\ Compare(old, new).current = new
      /\ Changed(old, new) \cap Range(new.chain) = {}
  BY ComparisonReuses
<1> DEFINE graph == Dependencies(new)
           U == Reusable(old, new)
           context(r) == ScopeContext(r.cwd, r.discovery, r.chain, Texts(r))
<1>2. p \in U /\ U \subseteq DOMAIN new.sources /\ DOMAIN old.sources = DOMAIN new.sources /\ DOMAIN graph = DOMAIN new.sources
  BY <1>1 DEF Reusable, SameGraph, Dependencies
<1>3. Dependencies(old) = graph
  BY <1>1 DEF SameGraph, Dependencies
<1>4. \A q \in U : Texts(old)[q] = Texts(new)[q]
  BY <1>1, UnchangedText
<1>5. \A q \in U \cap DOMAIN graph : graph[q] \subseteq U
  <2> SUFFICES ASSUME NEW q \in U, NEW d \in graph[q] PROVE d \in U
    BY Zenon
  <2>1. graph[q] = new.sources[q].dependencies /\ graph[q] = old.sources[q].dependencies
    BY <1>1, <1>2 DEF Dependencies, SameGraph
  <2>2. d \in DOMAIN new.sources
    BY <1>2, <2>1 DEF Complete
  <2> QED
    BY <1>2, <2>1, <2>2, UnchangedIsClosed
<1>6. context(old) = context(new)
  <2>1. old.cwd = new.cwd /\ old.discovery = new.discovery /\ old.chain = new.chain
    BY <1>1 DEF SameBinding
  <2>2. \A i \in DOMAIN new.chain : Texts(old)[new.chain[i]] = Texts(new)[new.chain[i]]
    <3> TAKE i \in DOMAIN new.chain
    <3>1. new.chain[i] \in DOMAIN new.sources /\ new.chain[i] \in Range(new.chain)
      BY <1>2, <2>1 DEF Complete, Range
    <3>2. new.chain[i] \notin Changed(old, new)
      BY <1>1, <3>1
    <3>3. old.sources[new.chain[i]].print.text = new.sources[new.chain[i]].print.text
      BY <3>1, <3>2 DEF Changed, ContentChanged
    <3> QED
      BY <1>2, <3>1, <3>3 DEF Texts
  <2> QED
    BY <2>1, <2>2 DEF ScopeContext
<1>7. IsFiniteSet(DOMAIN graph)
  BY <1>2
<1>8. /\ old.sources[p].key = AnalysisKey(context(old), graph, Texts(old), p)
      /\ new.sources[p].key = AnalysisKey(context(new), graph, Texts(new), p)
  BY <1>2, <1>3 DEF Keyed
<1> HIDE DEF graph, U, context
<1>9. AnalysisKey(context(new), graph, Texts(old), p) = AnalysisKey(context(new), graph, Texts(new), p)
  BY <1>2, <1>4, <1>5, <1>7, SameKey
<1> QED
  BY <1>1, <1>6, <1>8, <1>9

(***************************************************************************)
(* Moments: what the repository may be at an instant. It only advances,    *)
(* and no file returns to what it was, so a file with the same fingerprint *)
(* at two instants has it at each between them.                            *)
(***************************************************************************)
VersionsOf == {v \in [Path -> UNION {DOMAIN Setups[setup].files[p] : p \in Path}] :
                 \A p \in Path : v[p] \in DOMAIN Setups[setup].files[p]}
Moments == VersionsOf \X VersionsOf \X VersionsOf
PrintAt(p, at) == Fingerprint(p, At(at[1], p), At(at[2], p), At(at[3], p))

\* A fingerprint that was taken of a file no later than a moment; and no earlier, until now.
TakenBy(p, print, moment_) ==
  \E at \in Moments : Later(moment_, at) /\ At(at[1], p) # None /\ print = PrintAt(p, at)
TakenSince(p, print, moment_) ==
  \E at \in Moments : Later(at, moment_) /\ Later(repository, at) /\ At(at[1], p) # None /\ print = PrintAt(p, at)
RecordBy(record, moment_) ==
  \A p \in DOMAIN record.sources : p \in Path /\ TakenBy(p, record.sources[p].print, moment_)

(***************************************************************************)
(* The inductive invariant. First the repository; then the records, that   *)
(* are of moments that were; then each operation, by where it is, with the *)
(* moment it works with; then the locks.                                   *)
(***************************************************************************)
RepositoryIsReal ==
  /\ setup \in DOMAIN Setups
  /\ repository \in Moments
  /\ \A p \in Path : head[p] <= index[p]

StoreIsReal ==
  /\ store = [s \in Scope |-> [record |-> store[s].record, locked |-> store[s].locked, moment |-> store[s].moment]]
  /\ \A s \in Scope :
       /\ store[s].locked \in BOOLEAN
       /\ store[s].record # None =>
            /\ "intact" \in DOMAIN store[s].record
            /\ store[s].moment \in Moments /\ Later(repository, store[s].moment)

IdleOK(r, m) ==
  r.at = "idle" =>
    /\ Reused(r.answer) # {} => \E o \in Setups[setup].options : r.answer.current = Snapshot(o, m)
    /\ \A p \in Reused(r.answer) : r.answer.previous.sources[p].key = r.answer.current.sources[p].key

DiscoverOK(r) ==
  r.at = "discover" =>
    /\ r.options \in Setups[setup].options /\ r.nth \in 1 .. 4
    /\ r.nth \in {2, 4} => RecordBy(r.first, repository)

ReadOK(r, m) ==
  r.at = "read" =>
    /\ {"at", "options", "nth", "first", "found", "prints"} \subseteq DOMAIN r
    /\ r.prints = [p \in DOMAIN r.prints |-> r.prints[p]]
    /\ r.options \in Setups[setup].options /\ r.nth \in 1 .. 4
    /\ m \in Moments /\ Later(repository, m)
    /\ r.found = Discovery(r.options, Tree(m[1]))
    /\ DOMAIN r.prints \subseteq DOMAIN r.found.graph
    /\ \A p \in DOMAIN r.prints : p \in Path /\ TakenBy(p, r.prints[p], repository) /\ TakenSince(p, r.prints[p], m)
    /\ r.nth \in {2, 4} => RecordBy(r.first, m)

SettledOK(r, m) ==
  r.at \in {"lock", "write", "release"} =>
    /\ r.options \in Setups[setup].options
    /\ m \in Moments /\ Later(repository, m)
    /\ r.initial = Snapshot(r.options, m)
    /\ r.nth = IF r.at = "lock" THEN 2 ELSE 4
    /\ r.at = "write" => {"at", "options", "nth", "initial"} \subseteq DOMAIN r

CallOK(r, m) ==
  /\ r.at \in {"idle", "discover", "read", "lock", "write", "release"}
  /\ IdleOK(r, m) /\ DiscoverOK(r) /\ ReadOK(r, m) /\ SettledOK(r, m)

CallsAreReal ==
  /\ call = [c \in Caller |-> call[c]] /\ moment = [c \in Caller |-> moment[c]]
  /\ \A c \in Caller : CallOK(call[c], moment[c])

Holds(r) == (r.at \in {"discover", "read"} /\ r.nth \in {3, 4}) \/ r.at \in {"write", "release"}
\* An operation that looked at the repository after it had taken the lock is not behind the record.
UpToDate(r, m) ==
  (r.at = "read" /\ r.nth \in {3, 4}) \/ r.at = "write" =>
    (store[r.options.cwd].record # None => Later(m, store[r.options.cwd].moment))

LocksAreExclusive ==
  /\ \A c \in Caller : Holds(call[c]) => store[call[c].options.cwd].locked
  /\ \A c, d \in Caller : c # d /\ Holds(call[c]) /\ Holds(call[d]) => call[c].options.cwd # call[d].options.cwd
  /\ \A c \in Caller : UpToDate(call[c], moment[c])

CacheInvariant == RepositoryIsReal /\ StoreIsReal /\ CallsAreReal /\ LocksAreExclusive

(***************************************************************************)
(* Facts about moments.                                                    *)
(***************************************************************************)
LEMMA FileVersions ==
  ASSUME setup \in DOMAIN Setups, NEW p \in Path
  PROVE  /\ DOMAIN Setups[setup].files[p] \subseteq Nat
         /\ \A i, j \in DOMAIN Setups[setup].files[p] :
              Content(Setups[setup].files[p][i]) = Content(Setups[setup].files[p][j]) => i = j
<1>1. Versions(Setups[setup].files[p])
  BY SetupsAssumption DEF Path
<1> QED
  BY <1>1 DEF Versions

LEMMA MomentVersions ==
  ASSUME setup \in DOMAIN Setups, NEW m \in Moments
  PROVE  /\ m = <<m[1], m[2], m[3]>>
         /\ \A p \in Path :
              /\ m[1][p] \in DOMAIN Setups[setup].files[p] /\ m[1][p] \in Nat
              /\ m[2][p] \in DOMAIN Setups[setup].files[p] /\ m[2][p] \in Nat
              /\ m[3][p] \in DOMAIN Setups[setup].files[p] /\ m[3][p] \in Nat
<1>1. /\ m = <<m[1], m[2], m[3]>>
      /\ m[1] \in VersionsOf /\ m[2] \in VersionsOf /\ m[3] \in VersionsOf
  BY DEF Moments
<1>2. \A v \in VersionsOf : \A p \in Path : v[p] \in DOMAIN Setups[setup].files[p] /\ v[p] \in Nat
  BY FileVersions DEF VersionsOf
<1> QED
  BY <1>1, <1>2

LEMMA LaterIs ==
  ASSUME NEW a, NEW b
  PROVE  Later(a, b) <=> \A p \in Path : a[1][p] >= b[1][p] /\ a[2][p] >= b[2][p] /\ a[3][p] >= b[3][p]
<1>1. 1 .. 3 = {1, 2, 3}
  OBVIOUS
<1> QED
  BY <1>1, Zenon DEF Later

LEMMA LaterTransitive ==
  ASSUME setup \in DOMAIN Setups, NEW a \in Moments, NEW b \in Moments, NEW c \in Moments, Later(a, b), Later(b, c)
  PROVE  Later(a, c)
<1>1. \A p \in Path : a[1][p] >= b[1][p] /\ a[2][p] >= b[2][p] /\ a[3][p] >= b[3][p]
  BY LaterIs
<1>2. \A p \in Path : b[1][p] >= c[1][p] /\ b[2][p] >= c[2][p] /\ b[3][p] >= c[3][p]
  BY LaterIs
<1>3. \A p \in Path : a[1][p] >= c[1][p] /\ a[2][p] >= c[2][p] /\ a[3][p] >= c[3][p]
  <2> TAKE p \in Path
  <2>1. \A m \in Moments : m[1][p] \in Nat /\ m[2][p] \in Nat /\ m[3][p] \in Nat
    BY MomentVersions
  <2> QED
    BY <1>1, <1>2, <2>1
<1> QED
  BY <1>3, LaterIs

LEMMA LaterReflexive ==
  ASSUME setup \in DOMAIN Setups, NEW a \in Moments
  PROVE  Later(a, a)
<1>1. \A p \in Path : a[1][p] \in Nat /\ a[2][p] \in Nat /\ a[3][p] \in Nat
  BY MomentVersions
<1> QED
  BY <1>1, LaterIs

\* Versions with the same content, and what lies between them, are one.
LEMMA SameVersion ==
  ASSUME setup \in DOMAIN Setups, NEW p \in Path, NEW a, NEW m, NEW b,
         a[p] \in DOMAIN Setups[setup].files[p], m[p] \in DOMAIN Setups[setup].files[p], b[p] \in DOMAIN Setups[setup].files[p],
         b[p] >= m[p], m[p] >= a[p], Content(At(a, p)) = Content(At(b, p))
  PROVE  At(m, p) = At(b, p)
<1>1. a[p] = b[p]
  BY FileVersions DEF At
<1>2. a[p] \in Nat /\ b[p] \in Nat /\ m[p] \in Nat
  BY FileVersions
<1>3. m[p] = b[p]
  BY <1>1, <1>2
<1> QED
  BY <1>3 DEF At

LEMMA SamePrint ==
  ASSUME setup \in DOMAIN Setups, NEW p \in Path, NEW a \in Moments, NEW m \in Moments, NEW b \in Moments,
         Later(m, a), Later(b, m), At(a[1], p) # None, At(b[1], p) # None, PrintAt(p, a) = PrintAt(p, b)
  PROVE  PrintAt(p, m) = PrintAt(p, b)
<1>1. \A n \in Moments : /\ n[1][p] \in DOMAIN Setups[setup].files[p]
                         /\ n[2][p] \in DOMAIN Setups[setup].files[p]
                         /\ n[3][p] \in DOMAIN Setups[setup].files[p]
  BY MomentVersions
<1>2. /\ m[1][p] >= a[1][p] /\ m[2][p] >= a[2][p] /\ m[3][p] >= a[3][p]
      /\ b[1][p] >= m[1][p] /\ b[2][p] >= m[2][p] /\ b[3][p] >= m[3][p]
  BY LaterIs
<1>3. /\ At(a[1], p).raw = At(b[1], p).raw
      /\ GitFingerprint(p, At(a[1], p).raw, Content(At(a[2], p)), Content(At(a[3], p)))
           = GitFingerprint(p, At(b[1], p).raw, Content(At(b[2], p)), Content(At(b[3], p)))
  BY DEF PrintAt, Fingerprint
<1>4. At(m[1], p) = At(b[1], p)
  <2>1. Content(At(a[1], p)) = Content(At(b[1], p))
    BY <1>3 DEF Content
  <2> QED
    BY <1>1, <1>2, <2>1, SameVersion
<1>5. CASE p[1] = Global
  BY <1>4, <1>5 DEF PrintAt, Fingerprint, GitFingerprint
<1>6. CASE p[1] # Global
  <2>1. Content(At(a[2], p)) = Content(At(b[2], p)) /\ Content(At(a[3], p)) = Content(At(b[3], p))
    BY <1>3, <1>6 DEF GitFingerprint
  <2>2. At(m[2], p) = At(b[2], p)
    BY <1>1, <1>2, <2>1, SameVersion
  <2>3. At(m[3], p) = At(b[3], p)
    BY <1>1, <1>2, <2>1, SameVersion
  <2> QED
    BY <1>4, <2>2, <2>3 DEF PrintAt
<1> QED
  BY <1>5, <1>6

\* A record of fingerprints that were the same before and after a moment is the snapshot of that moment.
LEMMA AgreedIsSnapshot ==
  ASSUME setup \in DOMAIN Setups, NEW o, NEW m \in Moments, NEW prints, NEW found,
         found = Discovery(o, Tree(m[1])), prints = [p \in DOMAIN prints |-> prints[p]],
         DOMAIN prints = DOMAIN found.graph, \A p \in DOMAIN prints : p \in Path /\ TakenBy(p, prints[p], m) /\ TakenSince(p, prints[p], m)
  PROVE  Record(o, found, prints) = Snapshot(o, m)
<1>1. \A p \in DOMAIN prints : prints[p] = PrintAt(p, m)
  <2> TAKE p \in DOMAIN prints
  <2>1. PICK a \in Moments : Later(m, a) /\ At(a[1], p) # None /\ prints[p] = PrintAt(p, a)
    BY DEF TakenBy
  <2>2. PICK b \in Moments : Later(b, m) /\ At(b[1], p) # None /\ prints[p] = PrintAt(p, b)
    BY DEF TakenSince
  <2> QED
    BY <2>1, <2>2, SamePrint
<1>2. prints = [p \in DOMAIN found.graph |-> Fingerprint(p, Tree(m[1])[p], Tree(m[2])[p], Tree(m[3])[p])]
  <2>1. \A p \in DOMAIN prints : PrintAt(p, m) = Fingerprint(p, Tree(m[1])[p], Tree(m[2])[p], Tree(m[3])[p])
    BY DEF PrintAt, Tree
  <2> QED
    BY <1>1, <2>1
<1> QED
  BY <1>2 DEF Snapshot, Captured

(***************************************************************************)
(* What holds of the moments of an operation goes on to hold while the     *)
(* repository advances.                                                    *)
(***************************************************************************)
Advances == setup' = setup /\ repository' \in Moments /\ Later(repository', repository)

LEMMA Unmoved ==
  ASSUME setup' = setup
  PROVE  /\ Path' = Path /\ Scope' = Scope /\ Moments' = Moments
         /\ \A v, p : At(v, p)' = At(v, p)
         /\ \A p, m : PrintAt(p, m)' = PrintAt(p, m)
         /\ \A a, b : Later(a, b)' <=> Later(a, b)
         /\ \A v : Tree(v)' = Tree(v)
         /\ \A o, m : Snapshot(o, m)' = Snapshot(o, m)
<1>1. Path' = Path /\ Scope' = Scope /\ \A v, p : At(v, p)' = At(v, p)
  BY DEF Path, Scope, At
<1>2. Moments' = Moments
  BY DEF Moments, VersionsOf, Path
<1>3. \A a, b : Later(a, b)' <=> Later(a, b)
  BY <1>1 DEF Later
<1>4. \A v : Tree(v)' = Tree(v)
  BY <1>1 DEF Tree
<1>5. \A o, m : Snapshot(o, m)' = Snapshot(o, m)
  BY <1>4 DEF Snapshot
<1>6. \A p, m : PrintAt(p, m)' = PrintAt(p, m)
  BY <1>1 DEF PrintAt
<1> QED
  BY <1>1, <1>2, <1>3, <1>4, <1>5, <1>6

LEMMA AdvancesAgain ==
  ASSUME RepositoryIsReal, Advances
  PROVE  \A m : m \in Moments /\ Later(repository, m) => Later(repository', m)
<1> USE DEF RepositoryIsReal, Advances
<1>1. repository \in Moments /\ repository' \in Moments /\ Later(repository', repository) /\ setup \in DOMAIN Setups
  OBVIOUS
<1> HIDE DEF repository
<1> QED
  BY <1>1, LaterTransitive

LEMMA TakenByGrows ==
  ASSUME setup \in DOMAIN Setups, NEW p, NEW print, NEW m \in Moments, NEW n \in Moments, Later(n, m), TakenBy(p, print, m)
  PROVE  TakenBy(p, print, n)
<1>1. PICK at \in Moments : Later(m, at) /\ At(at[1], p) # None /\ print = PrintAt(p, at)
  BY DEF TakenBy
<1>2. Later(n, at)
  BY <1>1, LaterTransitive
<1> QED
  BY <1>1, <1>2 DEF TakenBy

LEMMA TakenStays ==
  ASSUME RepositoryIsReal, Advances
  PROVE  /\ \A p, print, m : TakenBy(p, print, m)' <=> TakenBy(p, print, m)
         /\ \A p, print, m : TakenSince(p, print, m) => TakenSince(p, print, m)'
         /\ \A r, m : RecordBy(r, m)' <=> RecordBy(r, m)
<1>1. setup' = setup
  BY DEF Advances
<1>2. \A p, print, m : TakenBy(p, print, m)' <=> TakenBy(p, print, m)
  BY <1>1, Unmoved DEF TakenBy
<1>3. \A p, print, m : TakenSince(p, print, m) => TakenSince(p, print, m)'
  <2> SUFFICES ASSUME NEW p, NEW print, NEW m, TakenSince(p, print, m) PROVE TakenSince(p, print, m)'
    OBVIOUS
  <2>1. PICK at \in Moments : Later(at, m) /\ Later(repository, at) /\ At(at[1], p) # None /\ print = PrintAt(p, at)
    BY DEF TakenSince
  <2>2. Later(repository', at)
    BY <2>1, AdvancesAgain
  <2>3. at \in Moments' /\ Later(at, m)' /\ Later(repository, at)' /\ At(at[1], p)' # None /\ print = PrintAt(p, at)'
    <3> HIDE DEF repository
    <3> QED
      BY <1>1, <2>1, <2>2, Unmoved
  <2> QED
    BY <2>3 DEF TakenSince
<1>4. \A r, m : RecordBy(r, m)' <=> RecordBy(r, m)
  BY <1>1, <1>2, Unmoved DEF RecordBy
<1> QED
  BY <1>2, <1>3, <1>4

LEMMA RecordByGrows ==
  ASSUME setup \in DOMAIN Setups, NEW r, NEW m \in Moments, NEW n \in Moments, Later(n, m), RecordBy(r, m)
  PROVE  RecordBy(r, n)
BY TakenByGrows DEF RecordBy

LEMMA CallStays ==
  ASSUME RepositoryIsReal, Advances, NEW r, NEW m, CallOK(r, m)
  PROVE  CallOK(r, m)'
<1>1. setup' = setup /\ setup \in DOMAIN Setups
  BY DEF Advances, RepositoryIsReal
<1>2. repository \in Moments /\ repository' \in Moments /\ Later(repository', repository)
  BY DEF RepositoryIsReal, Advances
<1>3. m \in Moments /\ Later(repository, m) => m \in Moments' /\ Later(repository, m)'
  <2>1. m \in Moments /\ Later(repository, m) => Later(repository', m)
    BY AdvancesAgain
  <2>2. Later(repository', m) => Later(repository, m)'
    BY <1>1 DEF Later, Path
  <2> QED
    BY <1>1, <2>1, <2>2, Unmoved
<1> HIDE DEF repository
<1>4. IdleOK(r, m)'
  <2>1. IdleOK(r, m)
    BY DEF CallOK
  <2> QED
    BY <1>1, <2>1, Unmoved DEF IdleOK
<1>5. DiscoverOK(r)'
  <2>1. DiscoverOK(r)
    BY DEF CallOK
  <2>2. RecordBy(r.first, repository) => RecordBy(r.first, repository)'
    <3>1. RecordBy(r.first, repository) => RecordBy(r.first, repository')
      BY <1>1, <1>2, RecordByGrows
    <3>2. RecordBy(r.first, repository') => RecordBy(r.first, repository)'
      BY <1>1, Unmoved DEF RecordBy, TakenBy
    <3> QED
      BY <3>1, <3>2
  <2> QED
    BY <1>1, <2>1, <2>2 DEF DiscoverOK
<1>6. ReadOK(r, m)'
  <2>1. ReadOK(r, m)
    BY DEF CallOK
  <2>2. CASE r.at # "read"
    BY <2>2 DEF ReadOK
  <2>3. CASE r.at = "read"
    <3>1. /\ {"at", "options", "nth", "first", "found", "prints"} \subseteq DOMAIN r
          /\ r.prints = [p \in DOMAIN r.prints |-> r.prints[p]]
          /\ r.options \in Setups[setup].options /\ r.nth \in 1 .. 4
          /\ m \in Moments /\ Later(repository, m)
          /\ r.found = Discovery(r.options, Tree(m[1]))
          /\ DOMAIN r.prints \subseteq DOMAIN r.found.graph
          /\ \A p \in DOMAIN r.prints : p \in Path /\ TakenBy(p, r.prints[p], repository) /\ TakenSince(p, r.prints[p], m)
          /\ r.nth \in {2, 4} => RecordBy(r.first, m)
      BY <2>1, <2>3 DEF ReadOK
    <3>2. Tree(m[1])' = Tree(m[1]) /\ Path' = Path
      BY <1>1, Unmoved
    <3>3. (RecordBy(r.first, m)' <=> RecordBy(r.first, m)) /\ \A p : TakenSince(p, r.prints[p], m) => TakenSince(p, r.prints[p], m)'
      BY TakenStays
    <3>4. \A p : TakenBy(p, r.prints[p], repository) => TakenBy(p, r.prints[p], repository)'
      <4> SUFFICES ASSUME NEW p, TakenBy(p, r.prints[p], repository) PROVE TakenBy(p, r.prints[p], repository)'
        OBVIOUS
      <4>1. TakenBy(p, r.prints[p], repository')
        BY <1>1, <1>2, TakenByGrows
      <4> QED
        BY <1>1, <4>1, Unmoved DEF TakenBy
    <3> QED
      BY <1>1, <1>3, <3>1, <3>2, <3>3, <3>4 DEF ReadOK
  <2> QED
    BY <2>2, <2>3
<1>7. SettledOK(r, m)'
  <2>1. SettledOK(r, m)
    BY DEF CallOK
  <2>2. Snapshot(r.options, m)' = Snapshot(r.options, m)
    BY <1>1, Unmoved
  <2> QED
    BY <1>1, <1>3, <2>1, <2>2 DEF SettledOK
<1> QED
  BY <1>4, <1>5, <1>6, <1>7 DEF CallOK

(***************************************************************************)
(* The initial states, and the parts of a step.                            *)
(***************************************************************************)
LEMMA InitReal ==
  ASSUME Init
  PROVE  CacheInvariant
<1> USE DEF Init
<1>1. \A p \in Path : /\ 1 \in DOMAIN Setups[setup].files[p]
                      /\ work[p] \in DOMAIN Setups[setup].files[p]
                      /\ index[p] \in DOMAIN Setups[setup].files[p]
                      /\ head[p] = 1 /\ index[p] >= 1
  <2> TAKE p \in Path
  <2>1. /\ Versions(Setups[setup].files[p])
        /\ p \in DOMAIN Setups[setup].index => Setups[setup].index[p] \in DOMAIN Setups[setup].files[p]
        /\ p \in DOMAIN Setups[setup].work => Setups[setup].work[p] \in DOMAIN Setups[setup].files[p]
    BY SetupsAssumption DEF Path
  <2>2. Len(Setups[setup].files[p]) \in Nat \ {0} /\ DOMAIN Setups[setup].files[p] = 1 .. Len(Setups[setup].files[p])
    BY <2>1 DEF Versions
  <2>3. 1 \in DOMAIN Setups[setup].files[p] /\ \A i \in DOMAIN Setups[setup].files[p] : i >= 1
    BY <2>2
  <2> QED
    BY <2>1, <2>3
<1>2. repository \in Moments
  <2>1. work \in VersionsOf /\ index \in VersionsOf /\ head \in VersionsOf
    BY <1>1 DEF VersionsOf
  <2> QED
    BY <2>1 DEF Moments, repository
<1>3. RepositoryIsReal
  BY <1>1, <1>2 DEF RepositoryIsReal
<1>4. StoreIsReal
  BY DEF StoreIsReal
<1>5. \A c \in Caller : call[c] = Idle(None)
  OBVIOUS
<1>6. CallsAreReal
  <2>1. \A m : CallOK(Idle(None), m)
    BY DEF CallOK, IdleOK, DiscoverOK, ReadOK, SettledOK, Idle, Reused
  <2>2. call = [c \in Caller |-> call[c]] /\ moment = [c \in Caller |-> moment[c]]
    OBVIOUS
  <2> QED
    BY <1>5, <2>1, <2>2 DEF CallsAreReal
<1>7. LocksAreExclusive
  BY <1>5 DEF LocksAreExclusive, Holds, UpToDate, Idle
<1> QED
  BY <1>3, <1>4, <1>6, <1>7 DEF CacheInvariant

\* A step of one operation that leaves the repository alone.
StepOf(c) ==
  /\ setup' = setup /\ repository' = repository
  /\ call' = [call EXCEPT ![c] = call'[c]] /\ moment' = [moment EXCEPT ![c] = moment'[c]]

LEMMA Standstill ==
  ASSUME RepositoryIsReal, setup' = setup, repository' = repository
  PROVE  RepositoryIsReal' /\ Advances
<1>1. work' = work /\ index' = index /\ head' = head
  BY DEF repository
<1>2. RepositoryIsReal'
  BY <1>1, Unmoved DEF RepositoryIsReal, repository
<1>3. Later(repository, repository)
  BY LaterReflexive DEF RepositoryIsReal
<1> QED
  BY <1>2, <1>3 DEF Advances, RepositoryIsReal

LEMMA CallStep ==
  ASSUME RepositoryIsReal, CallsAreReal, NEW c \in Caller, StepOf(c), CallOK(call'[c], moment'[c])
  PROVE  RepositoryIsReal' /\ CallsAreReal'
<1>1. RepositoryIsReal' /\ Advances
  BY Standstill DEF StepOf
<1>2. call' = [d \in Caller |-> call'[d]] /\ moment' = [d \in Caller |-> moment'[d]]
  BY DEF CallsAreReal, StepOf
<1>3. \A d \in Caller : CallOK(call'[d], moment'[d])
  BY DEF CallsAreReal, StepOf
<1>4. \A r, m : CallOK(r, m) => CallOK(r, m)'
  BY <1>1, CallStays
<1>5. \A d \in Caller : CallOK(call[d], moment[d])'
  BY <1>3, <1>4
<1> QED
  BY <1>1, <1>2, <1>5 DEF CallsAreReal

LEMMA StoreKept ==
  ASSUME RepositoryIsReal, StoreIsReal, Advances, store' = store
  PROVE  StoreIsReal'
<1>1. setup' = setup
  BY DEF Advances
<1>2. \A m : m \in Moments /\ Later(repository, m) => m \in Moments' /\ Later(repository, m)'
  <2>1. \A m : m \in Moments /\ Later(repository, m) => Later(repository', m)
    BY AdvancesAgain
  <2>2. \A m : Later(repository', m) => Later(repository, m)'
    BY <1>1 DEF Later, Path
  <2> QED
    BY <1>1, <2>1, <2>2, Unmoved
<1>3. Scope' = Scope
  BY <1>1, Unmoved
<1> QED
  BY <1>2, <1>3 DEF StoreIsReal

\* What a step leaves of the record of a scope: all of it, or all but its being intact.
LEMMA StoreStep ==
  ASSUME RepositoryIsReal, StoreIsReal, Advances, NEW s \in Scope, NEW r, NEW b \in BOOLEAN, NEW m,
         store' = [store EXCEPT ![s] = [record |-> r, locked |-> b, moment |-> m]],
         r # None => "intact" \in DOMAIN r /\ m \in Moments /\ Later(repository, m)
  PROVE  StoreIsReal'
<1>1. setup' = setup
  BY DEF Advances
<1>2. \A n : n \in Moments /\ Later(repository, n) => n \in Moments' /\ Later(repository, n)'
  <2>1. \A n : n \in Moments /\ Later(repository, n) => Later(repository', n)
    BY AdvancesAgain
  <2>2. \A n : Later(repository', n) => Later(repository, n)'
    BY <1>1 DEF Later, Path
  <2> QED
    BY <1>1, <2>1, <2>2, Unmoved
<1>3. Scope' = Scope
  BY <1>1, Unmoved
<1>4. \A t \in Scope : store'[t] = IF t = s THEN [record |-> r, locked |-> b, moment |-> m] ELSE store[t]
  BY DEF StoreIsReal
<1>5. \A t \in Scope : store'[t] = [record |-> store'[t].record, locked |-> store'[t].locked, moment |-> store'[t].moment]
  BY <1>4 DEF StoreIsReal
<1>6. store' = [t \in Scope |-> [record |-> store'[t].record, locked |-> store'[t].locked, moment |-> store'[t].moment]]
  <2>1. DOMAIN store' = Scope /\ store' = [t \in DOMAIN store' |-> store'[t]]
    BY DEF StoreIsReal
  <2> QED
    BY <1>5, <2>1
<1>7. \A t \in Scope :
        /\ store'[t].locked \in BOOLEAN
        /\ store'[t].record # None =>
             "intact" \in DOMAIN store'[t].record /\ store'[t].moment \in Moments /\ Later(repository, store'[t].moment)
  BY <1>4 DEF StoreIsReal
<1> QED
  BY <1>2, <1>3, <1>6, <1>7 DEF StoreIsReal

\* A step that leaves all the locks as they are.
LEMMA LocksKept ==
  ASSUME RepositoryIsReal, CallsAreReal, LocksAreExclusive, NEW c \in Caller, StepOf(c), store' = store,
         Holds(call'[c]) => Holds(call[c]) /\ call'[c].options = call[c].options, UpToDate(call'[c], moment'[c])
  PROVE  LocksAreExclusive'
<1>1. \A d \in Caller : d # c => call'[d] = call[d] /\ moment'[d] = moment[d]
  BY DEF StepOf, CallsAreReal
<1>2. \A d \in Caller : Holds(call'[d]) => Holds(call[d]) /\ call'[d].options = call[d].options
  BY <1>1
<1>3. \A d \in Caller : Holds(call'[d]) => store'[call'[d].options.cwd].locked
  BY <1>2 DEF LocksAreExclusive
<1>4. \A d, e \in Caller : d # e /\ Holds(call'[d]) /\ Holds(call'[e]) => call'[d].options.cwd # call'[e].options.cwd
  BY <1>2 DEF LocksAreExclusive
<1>5. \A d \in Caller : UpToDate(call'[d], moment'[d])
  BY <1>1 DEF LocksAreExclusive
<1>6. \A r, m : UpToDate(r, m) => UpToDate(r, m)'
  BY DEF UpToDate, Later, Path, StepOf
<1> QED
  BY <1>3, <1>4, <1>5, <1>6 DEF LocksAreExclusive, Holds

LEMMA HoldsScope ==
  ASSUME NEW r, NEW m, CallOK(r, m), Holds(r)
  PROVE  r.options.cwd \in Scope
BY DEF CallOK, DiscoverOK, ReadOK, SettledOK, Holds, Scope

\* A step that changes what is kept of a scope no other operation holds.
LEMMA LocksStep ==
  ASSUME CallsAreReal, LocksAreExclusive, NEW c \in Caller, StepOf(c), NEW s \in Scope,
         \A t \in Scope : t # s => store'[t] = store[t],
         \A d \in Caller : d # c /\ Holds(call[d]) => call[d].options.cwd # s,
         Holds(call'[c]) => call'[c].options.cwd = s /\ store'[s].locked,
         call'[c].at \notin {"read", "write"}
  PROVE  LocksAreExclusive'
<1>1. \A d \in Caller : d # c => call'[d] = call[d] /\ moment'[d] = moment[d]
  BY DEF StepOf, CallsAreReal
<1>2. \A d \in Caller : d # c /\ Holds(call'[d]) =>
        /\ Holds(call[d]) /\ call'[d].options.cwd \in Scope /\ call'[d].options.cwd # s
        /\ store'[call'[d].options.cwd] = store[call'[d].options.cwd]
  <2> SUFFICES ASSUME NEW d \in Caller, d # c, Holds(call'[d])
               PROVE  /\ Holds(call[d]) /\ call'[d].options.cwd \in Scope /\ call'[d].options.cwd # s
                      /\ store'[call'[d].options.cwd] = store[call'[d].options.cwd]
    OBVIOUS
  <2>1. Holds(call[d]) /\ CallOK(call[d], moment[d])
    BY <1>1 DEF CallsAreReal
  <2>2. call[d].options.cwd \in Scope
    BY <2>1, HoldsScope
  <2> QED
    BY <1>1, <2>1, <2>2
<1>3. \A d \in Caller : Holds(call'[d]) => store'[call'[d].options.cwd].locked
  BY <1>1, <1>2 DEF LocksAreExclusive
<1>4. \A d, e \in Caller : d # e /\ Holds(call'[d]) /\ Holds(call'[e]) => call'[d].options.cwd # call'[e].options.cwd
  <2> SUFFICES ASSUME NEW d \in Caller, NEW e \in Caller, d # e, Holds(call'[d]), Holds(call'[e])
               PROVE  call'[d].options.cwd # call'[e].options.cwd
    OBVIOUS
  <2>1. CASE d = c
    BY <1>2, <2>1
  <2>2. CASE e = c
    BY <1>2, <2>2
  <2>3. CASE d # c /\ e # c
    BY <1>1, <1>2, <2>3 DEF LocksAreExclusive
  <2> QED
    BY <2>1, <2>2, <2>3
<1>5. \A d \in Caller : UpToDate(call[d], moment[d])'
  <2> TAKE d \in Caller
  <2>1. CASE d = c
    BY <2>1 DEF UpToDate
  <2>2. CASE d # c
    <3>1. UpToDate(call[d], moment[d]) /\ call'[d] = call[d] /\ moment'[d] = moment[d]
      BY <1>1, <2>2 DEF LocksAreExclusive
    <3>2. (call[d].at = "read" /\ call[d].nth \in {3, 4}) \/ call[d].at = "write" => store'[call[d].options.cwd] = store[call[d].options.cwd]
      BY <1>2, <2>2, <3>1 DEF Holds
    <3>3. \A a, b : Later(a, b)' <=> Later(a, b)
      BY Unmoved DEF StepOf
    <3> QED
      BY <3>1, <3>2, <3>3 DEF UpToDate
  <2> QED
    BY <2>1, <2>2
<1> QED
  BY <1>3, <1>4, <1>5 DEF LocksAreExclusive, Holds

LEMMA Giving ==
  ASSUME CacheInvariant, NEW c \in Caller, NEW answer, Give(c, answer), UNCHANGED <<setup, repository, moment>>,
         call[c].at \in {"read", "lock", "release"}, IdleOK(Idle(answer), moment[c])
  PROVE  CacheInvariant'
<1> USE DEF CacheInvariant
<1>1. /\ call' = [call EXCEPT ![c] = Idle(answer)] /\ call'[c] = Idle(answer) /\ moment'[c] = moment[c]
      /\ store' = IF call[c].nth > 2 THEN Locked(call[c].options.cwd, FALSE) ELSE store
  BY DEF Give, CallsAreReal
<1>2. StepOf(c)
  BY <1>1 DEF StepOf, CallsAreReal
<1>3. CallOK(call'[c], moment'[c])
  <2>1. Idle(answer).at = "idle"
    BY DEF Idle
  <2> QED
    BY <1>1, <2>1 DEF CallOK, DiscoverOK, ReadOK, SettledOK
<1>4. RepositoryIsReal' /\ CallsAreReal'
  BY <1>2, <1>3, CallStep
<1>5. Advances
  BY Standstill
<1>6. ~Holds(call'[c]) /\ call'[c].at = "idle" /\ UpToDate(call'[c], moment'[c])
  BY <1>1 DEF Holds, Idle, UpToDate
<1>7. CallOK(call[c], moment[c])
  BY DEF CallsAreReal
<1>8. call[c].options \in Setups[setup].options /\ call[c].nth \in 1 .. 4 /\ (call[c].nth > 2 => Holds(call[c]))
  <2>1. CASE call[c].at = "read"
    BY <1>7, <2>1 DEF CallOK, ReadOK, Holds
  <2>2. CASE call[c].at \in {"lock", "release"}
    BY <1>7, <2>2 DEF CallOK, SettledOK, Holds
  <2> QED
    BY <2>1, <2>2
<1>9. CASE call[c].nth > 2
  <2> DEFINE s == call[c].options.cwd
  <2>1. s \in Scope /\ Holds(call[c])
    BY <1>8, <1>9 DEF Scope
  <2>2. store' = [store EXCEPT ![s] = [record |-> store[s].record, locked |-> FALSE, moment |-> store[s].moment]]
    BY <1>1, <1>9 DEF Locked
  <2>3. store[s].record # None => "intact" \in DOMAIN store[s].record /\ store[s].moment \in Moments /\ Later(repository, store[s].moment)
    BY <2>1 DEF StoreIsReal
  <2>4. StoreIsReal'
    BY <1>5, <2>1, <2>2, <2>3, StoreStep
  <2>5. \A t \in Scope : t # s => store'[t] = store[t]
    BY <2>2 DEF StoreIsReal
  <2>6. \A d \in Caller : d # c /\ Holds(call[d]) => call[d].options.cwd # s
    BY <2>1 DEF LocksAreExclusive
  <2>7. LocksAreExclusive'
    BY <1>2, <1>6, <2>1, <2>5, <2>6, LocksStep
  <2> QED
    BY <1>4, <2>4, <2>7
<1>10. CASE ~(call[c].nth > 2)
  <2>1. store' = store
    BY <1>1, <1>10
  <2>2. StoreIsReal'
    BY <1>5, <2>1, StoreKept
  <2>3. LocksAreExclusive'
    BY <1>2, <1>6, <2>1, LocksKept
  <2> QED
    BY <1>4, <2>2, <2>3
<1> QED
  BY <1>9, <1>10

\* An answer that lets nothing be used again.
LEMMA NothingReused ==
  ASSUME NEW answer, NEW m, Reused(answer) = {}
  PROVE  IdleOK(Idle(answer), m)
<1>1. Idle(answer).answer = answer
  BY DEF Idle
<1> QED
  BY <1>1 DEF IdleOK

(***************************************************************************)
(* The steps of an operation.                                              *)
(***************************************************************************)
LEMMA BeginStep ==
  ASSUME CacheInvariant, NEW c \in Caller, NEW kind, NEW o \in Setups[setup].options, Begin(c, kind, o)
  PROVE  CacheInvariant'
<1> USE DEF CacheInvariant
<1> DEFINE r == [at |-> "discover", kind |-> kind, options |-> o, nth |-> 1, first |-> None, initial |-> None]
<1>1. call' = [call EXCEPT ![c] = r] /\ UNCHANGED <<setup, repository, store, moment>>
  BY DEF Begin
<1>2. call'[c] = r /\ moment'[c] = moment[c] /\ StepOf(c)
  BY <1>1 DEF StepOf, CallsAreReal
<1>3. CallOK(r, moment[c])
  BY DEF CallOK, IdleOK, DiscoverOK, ReadOK, SettledOK
<1>4. ~Holds(r) /\ UpToDate(r, moment[c])
  BY DEF Holds, UpToDate
<1> HIDE DEF r
<1>5. RepositoryIsReal' /\ CallsAreReal'
  BY <1>2, <1>3, CallStep
<1>6. StoreIsReal'
  BY <1>1, Standstill, StoreKept
<1>7. LocksAreExclusive'
  BY <1>1, <1>2, <1>4, LocksKept
<1> QED
  BY <1>5, <1>6, <1>7

LEMMA DiscoverStep ==
  ASSUME CacheInvariant, NEW c \in Caller, Discover(c)
  PROVE  CacheInvariant'
<1> USE DEF CacheInvariant
<1> DEFINE old == call[c]
           r == [at |-> "read", kind |-> old.kind, options |-> old.options, nth |-> old.nth, first |-> old.first, initial |-> old.initial,
                 found |-> Discovery(old.options, Tree(work)), prints |-> [p \in {} |-> None]]
<1>1. /\ call' = [call EXCEPT ![c] = r] /\ moment' = [moment EXCEPT ![c] = repository]
      /\ UNCHANGED <<setup, repository, store>> /\ old.at = "discover"
  BY DEF Discover
<1>2. call'[c] = r /\ moment'[c] = repository /\ StepOf(c)
  BY <1>1 DEF StepOf, CallsAreReal
<1>3. /\ old.options \in Setups[setup].options /\ old.nth \in 1 .. 4 /\ (old.nth \in {2, 4} => RecordBy(old.first, repository))
      /\ old.options.cwd \in Scope
  BY <1>1 DEF CallsAreReal, CallOK, DiscoverOK, Scope
<1>4. repository \in Moments /\ Later(repository, repository) /\ repository[1] = work
  BY LaterReflexive DEF RepositoryIsReal, repository
<1>5. CallOK(r, repository)
  <2> HIDE DEF old, repository
  <2>1. ReadOK(r, repository)
    BY <1>3, <1>4 DEF ReadOK
  <2> QED
    BY <2>1 DEF CallOK, IdleOK, DiscoverOK, SettledOK
<1>6. Holds(r) => Holds(old) /\ r.options = old.options
  BY <1>1 DEF Holds
<1>7. UpToDate(r, repository)
  BY <1>3 DEF UpToDate, StoreIsReal
<1> HIDE DEF r, repository
<1>8. RepositoryIsReal' /\ CallsAreReal'
  BY <1>2, <1>5, CallStep
<1>9. StoreIsReal'
  BY <1>1, Standstill, StoreKept
<1>10. LocksAreExclusive'
  BY <1>1, <1>2, <1>6, <1>7, LocksKept
<1> QED
  BY <1>8, <1>9, <1>10

LEMMA ReadStep ==
  ASSUME CacheInvariant, NEW c \in Caller, ReadSource(c)
  PROVE  CacheInvariant'
<1> USE DEF CacheInvariant
<1> DEFINE old == call[c]
<1>1. PICK p \in Unread(c) :
        IF Exists(Tree(work), p)
        THEN /\ call' = [call EXCEPT ![c].prints =
                  [q \in DOMAIN @ \cup {p} |-> IF q = p THEN Fingerprint(p, At(work, p), At(index, p), At(head, p)) ELSE @[q]]]
             /\ UNCHANGED store
        ELSE Give(c, Failed)
  BY DEF ReadSource
<1>2. UNCHANGED <<setup, repository, moment>> /\ old.at = "read"
  BY DEF ReadSource
<1>3. CASE ~Exists(Tree(work), p)
  <2>1. Reused(Failed) = {}
    BY DEF Reused, Failed
  <2> QED
    BY <1>1, <1>2, <1>3, <2>1, NothingReused, Giving
<1>4. CASE Exists(Tree(work), p)
  <2> DEFINE prints == [q \in DOMAIN old.prints \cup {p} |-> IF q = p THEN PrintAt(p, repository) ELSE old.prints[q]]
             r == [old EXCEPT !.prints = prints]
  <2>1. call' = [call EXCEPT ![c] = r] /\ UNCHANGED store
    BY <1>1, <1>4 DEF PrintAt, repository
  <2>2. call'[c] = r /\ moment'[c] = moment[c] /\ StepOf(c)
    BY <1>2, <2>1 DEF StepOf, CallsAreReal
  <2>3. /\ {"at", "options", "nth", "first", "found", "prints"} \subseteq DOMAIN old
        /\ old.options \in Setups[setup].options /\ old.nth \in 1 .. 4
        /\ moment[c] \in Moments /\ Later(repository, moment[c])
        /\ old.found = Discovery(old.options, Tree(moment[c][1]))
        /\ DOMAIN old.prints \subseteq DOMAIN old.found.graph
        /\ \A q \in DOMAIN old.prints : q \in Path /\ TakenBy(q, old.prints[q], repository) /\ TakenSince(q, old.prints[q], moment[c])
        /\ old.nth \in {2, 4} => RecordBy(old.first, moment[c])
    <3>1. ReadOK(old, moment[c])
      BY DEF CallsAreReal, CallOK
    <3> QED
      BY <1>2, <3>1 DEF ReadOK
  <2>4. /\ r.at = "read" /\ r.options = old.options /\ r.nth = old.nth /\ r.first = old.first /\ r.found = old.found /\ r.prints = prints
        /\ DOMAIN r = DOMAIN old
    <3> HIDE DEF old, prints
    <3> QED
      BY <1>2, <2>3 DEF old
  <2>5. p \in DOMAIN old.found.graph /\ p \in Path /\ At(work, p) # None
    <3>1. p \in DOMAIN Tree(work) /\ Tree(work)[p] # None
      BY <1>4 DEF Exists
    <3> QED
      BY <3>1 DEF Unread, Tree
  <2>6. TakenBy(p, PrintAt(p, repository), repository) /\ TakenSince(p, PrintAt(p, repository), moment[c])
    <3>1. repository \in Moments /\ Later(repository, repository) /\ repository[1] = work
      BY LaterReflexive DEF RepositoryIsReal, repository
    <3> HIDE DEF repository
    <3> QED
      BY <2>3, <2>5, <3>1 DEF TakenBy, TakenSince
  <2>7. \A q \in DOMAIN prints : q \in Path /\ TakenBy(q, prints[q], repository) /\ TakenSince(q, prints[q], moment[c])
    <3> HIDE DEF old, repository
    <3> QED
      BY <2>3, <2>5, <2>6
  <2>8. DOMAIN prints \subseteq DOMAIN old.found.graph /\ prints = [q \in DOMAIN prints |-> prints[q]]
    BY <2>3, <2>5
  <2> HIDE DEF r, prints
  <2>9. CallOK(r, moment[c])
    <3>1. ReadOK(r, moment[c])
      BY <2>3, <2>4, <2>7, <2>8 DEF ReadOK
    <3> QED
      BY <2>4, <3>1 DEF CallOK, IdleOK, DiscoverOK, SettledOK
  <2>10. Holds(r) => Holds(old) /\ r.options = old.options
    BY <1>2, <2>4 DEF Holds
  <2>11. UpToDate(r, moment[c])
    <3>1. UpToDate(old, moment[c])
      BY DEF LocksAreExclusive
    <3> QED
      BY <1>2, <2>4, <3>1 DEF UpToDate
  <2>12. RepositoryIsReal' /\ CallsAreReal'
    BY <2>2, <2>9, CallStep
  <2>13. StoreIsReal'
    BY <1>2, <2>1, Standstill, StoreKept
  <2>14. LocksAreExclusive'
    BY <2>1, <2>2, <2>10, <2>11, LocksKept
  <2> QED
    BY <2>12, <2>13, <2>14
<1> QED
  BY <1>3, <1>4

LEMMA CheckIsSound ==
  ASSUME NEW record, NEW kept, Keyed(record), IsFiniteSet(DOMAIN record.sources)
  PROVE  /\ Reused(Check(record, kept)) # {} => Check(record, kept).current = record
         /\ \A p \in Reused(Check(record, kept)) :
              Check(record, kept).previous.sources[p].key = Check(record, kept).current.sources[p].key
<1>1. \A answer : Reused(answer) \subseteq answer.reuse
  BY DEF Reused
<1>2. Miss(record).reuse = {}
  BY DEF Miss
<1>3. CASE kept = None \/ ~ValidRecord(kept)
  <2>1. Check(record, kept) = Miss(record)
    BY <1>3, Zenon DEF Check
  <2> QED
    BY <1>1, <1>2, <2>1
<1>4. CASE kept # None /\ ValidRecord(kept)
  <2>1. Check(record, kept) = Compare(kept, record)
    BY <1>4, Zenon DEF Check
  <2>2. Keyed(kept) /\ Complete(kept)
    BY <1>4, ValidIsKeyed
  <2>3. \A p \in Compare(kept, record).reuse :
          Compare(kept, record).previous.sources[p].key = Compare(kept, record).current.sources[p].key
    BY <2>2, ReusedKeysAgree
  <2>4. Compare(kept, record).reuse # {} => Compare(kept, record).current = record
    BY ComparisonReuses
  <2> QED
    BY <1>1, <2>1, <2>3, <2>4
<1> QED
  BY <1>3, <1>4

LEMMA DiscoveryGraph ==
  ASSUME NEW o, NEW tree
  PROVE  Discovery(o, tree).graph = [p \in DOMAIN Discovery(o, tree).graph |-> Discovery(o, tree).graph[p]]
BY DEF Discovery

LEMMA CompleteStep ==
  ASSUME CacheInvariant, NEW c \in Caller, CompleteCapture(c)
  PROVE  CacheInvariant'
<1> USE DEF CacheInvariant
<1> DEFINE old == call[c]
<1>1. UNCHANGED <<setup, repository, moment>> /\ old.at = "read" /\ Unread(c) = {}
  BY DEF CompleteCapture
<1>2. PICK record : record = Record(old.options, old.found, old.prints)
  OBVIOUS
<1>3. /\ old.prints = [p \in DOMAIN old.prints |-> old.prints[p]]
      /\ old.options \in Setups[setup].options /\ old.nth \in 1 .. 4
      /\ moment[c] \in Moments /\ Later(repository, moment[c])
      /\ old.found = Discovery(old.options, Tree(moment[c][1]))
      /\ DOMAIN old.prints \subseteq DOMAIN old.found.graph
      /\ \A q \in DOMAIN old.prints : q \in Path /\ TakenBy(q, old.prints[q], repository) /\ TakenSince(q, old.prints[q], moment[c])
      /\ old.nth \in {2, 4} => RecordBy(old.first, moment[c])
  <2>1. ReadOK(old, moment[c])
    BY DEF CallsAreReal, CallOK
  <2> QED
    BY <1>1, <2>1 DEF ReadOK
<1>4. DOMAIN old.prints = DOMAIN old.found.graph
  BY <1>1, <1>3 DEF Unread
<1>5. /\ Keyed(record) /\ "intact" \in DOMAIN record /\ IsFiniteSet(DOMAIN record.sources)
      /\ DOMAIN record.sources = DOMAIN old.prints
      /\ \A p \in DOMAIN record.sources : record.sources[p].print = old.prints[p]
  <2>1. old.found.graph = [p \in DOMAIN old.found.graph |-> old.found.graph[p]]
    BY <1>3, DiscoveryGraph
  <2>2. IsFiniteSet(DOMAIN old.prints)
    <3>1. IsFiniteSet(Path)
      BY SetupsAssumption DEF RepositoryIsReal, Path
    <3>2. DOMAIN old.prints \subseteq Path
      BY <1>3
    <3> HIDE DEF old
    <3> QED
      BY <3>1, <3>2, FS_Subset
  <2> HIDE DEF old
  <2> QED
    BY <1>2, <1>4, <2>1, <2>2, RecordIsKeyed
<1>6. RecordBy(record, repository)
  BY <1>3, <1>5 DEF RecordBy
<1>7. old.nth \in {2, 4} /\ record = old.first => record = Snapshot(old.options, moment[c])
  <2> SUFFICES ASSUME old.nth \in {2, 4}, record = old.first PROVE record = Snapshot(old.options, moment[c])
    OBVIOUS
  <2>1. \A p \in DOMAIN old.prints : TakenBy(p, old.prints[p], moment[c])
    BY <1>3, <1>5 DEF RecordBy
  <2> HIDE DEF old
  <2> QED
    BY <1>2, <1>3, <1>4, <2>1, AgreedIsSnapshot DEF RepositoryIsReal
<1>8. Reused(Miss(record)) = {}
  BY DEF Reused, Miss
<1>9. CASE Give(c, Miss(record))
  BY <1>1, <1>8, <1>9, NothingReused, Giving
<1>10. CASE old.nth \in {2, 4} /\ record = old.first /\ Give(c, Check(record, store[old.options.cwd].record))
  <2>1. PICK answer : answer = Check(record, store[old.options.cwd].record)
    OBVIOUS
  <2>2. /\ Reused(answer) # {} => answer.current = record
        /\ \A p \in Reused(answer) : answer.previous.sources[p].key = answer.current.sources[p].key
    <3>1. PICK kept : kept = store[old.options.cwd].record
      OBVIOUS
    <3>2. answer = Check(record, kept)
      BY <2>1, <3>1
    <3> HIDE DEF old
    <3> QED
      BY <1>5, <3>2, CheckIsSound
  <2>3. IdleOK(Idle(answer), moment[c])
    <3>1. Idle(answer).answer = answer
      BY DEF Idle
    <3> QED
      BY <1>3, <1>7, <1>10, <2>2, <3>1 DEF IdleOK
  <2> QED
    BY <1>1, <1>10, <2>1, <2>3, Giving
<1>11. ASSUME NEW r, call' = [call EXCEPT ![c] = r], UNCHANGED store, CallOK(r, moment[c]),
              Holds(r) => Holds(old) /\ r.options = old.options, UpToDate(r, moment[c])
       PROVE  CacheInvariant'
  <2>1. call'[c] = r /\ moment'[c] = moment[c] /\ StepOf(c)
    BY <1>1, <1>11 DEF StepOf, CallsAreReal
  <2>2. RepositoryIsReal' /\ CallsAreReal'
    BY <1>11, <2>1, CallStep
  <2>3. StoreIsReal'
    BY <1>1, <1>11, Standstill, StoreKept
  <2>4. LocksAreExclusive'
    BY <1>11, <2>1, LocksKept
  <2> QED
    BY <2>2, <2>3, <2>4
<1>12. CASE old.nth \in {1, 3} /\ NextCapture(c, record) /\ UNCHANGED store
  <2> DEFINE r == [at |-> "discover", kind |-> old.kind, options |-> old.options, nth |-> old.nth + 1, first |-> record, initial |-> old.initial]
  <2>1. call' = [call EXCEPT ![c] = r]
    BY <1>12 DEF NextCapture
  <2>2. old.nth + 1 \in 1 .. 4 /\ (old.nth + 1 \in {3, 4} => old.nth \in {3, 4})
    BY <1>12
  <2>3. CallOK(r, moment[c])
    BY <1>3, <1>6, <2>2 DEF CallOK, IdleOK, DiscoverOK, ReadOK, SettledOK
  <2>4. (Holds(r) => Holds(old) /\ r.options = old.options) /\ UpToDate(r, moment[c])
    BY <1>1, <2>2 DEF Holds, UpToDate
  <2> HIDE DEF r, old
  <2> QED
    BY <1>11, <1>12, <2>1, <2>3, <2>4
<1>13. CASE /\ old.nth = 2 /\ record = old.first /\ UNCHANGED store
            /\ call' = [call EXCEPT ![c] = [at |-> "lock", kind |-> @.kind, options |-> @.options, nth |-> 2, initial |-> record]]
  <2> DEFINE r == [at |-> "lock", kind |-> old.kind, options |-> old.options, nth |-> 2, initial |-> record]
  <2>1. call' = [call EXCEPT ![c] = r]
    BY <1>13
  <2>2. CallOK(r, moment[c])
    BY <1>3, <1>7, <1>13 DEF CallOK, IdleOK, DiscoverOK, ReadOK, SettledOK
  <2>3. ~Holds(r) /\ UpToDate(r, moment[c])
    BY DEF Holds, UpToDate
  <2> HIDE DEF r, old
  <2> QED
    BY <1>11, <1>13, <2>1, <2>2, <2>3
<1>14. CASE /\ old.nth = 4 /\ record = old.first /\ UNCHANGED store
            /\ call' = [call EXCEPT ![c] = [at |-> "write", options |-> @.options, nth |-> 4, initial |-> record]]
  <2> DEFINE r == [at |-> "write", options |-> old.options, nth |-> 4, initial |-> record]
  <2>1. call' = [call EXCEPT ![c] = r]
    BY <1>14
  <2>2. CallOK(r, moment[c])
    BY <1>3, <1>7, <1>14 DEF CallOK, IdleOK, DiscoverOK, ReadOK, SettledOK
  <2>3. Holds(r) /\ Holds(old) /\ r.options = old.options
    BY <1>1, <1>14 DEF Holds
  <2>4. UpToDate(r, moment[c])
    <3>1. UpToDate(old, moment[c])
      BY DEF LocksAreExclusive
    <3> QED
      BY <1>1, <1>14, <3>1 DEF UpToDate
  <2> HIDE DEF r, old
  <2> QED
    BY <1>11, <1>14, <2>1, <2>2, <2>3, <2>4
<1>15. IF old.found.reasons # {} THEN Give(c, Miss(record))
       ELSE IF old.nth \in {1, 3} THEN NextCapture(c, record) /\ UNCHANGED store
       ELSE IF ~(old.first = record) THEN Give(c, Miss(record))
       ELSE IF old.kind = "check" THEN Give(c, Check(record, store[old.options.cwd].record))
       ELSE IF old.nth = 2
       THEN /\ call' = [call EXCEPT ![c] = [at |-> "lock", kind |-> @.kind, options |-> @.options, nth |-> 2, initial |-> record]]
            /\ UNCHANGED store
       ELSE IF record # old.initial THEN Give(c, Miss(record))
       ELSE call' = [call EXCEPT ![c] = [at |-> "write", options |-> @.options, nth |-> 4, initial |-> record]] /\ UNCHANGED store
  BY <1>2 DEF CompleteCapture, Agree
<1>16. old.nth \in {1, 3} \/ old.nth = 2 \/ old.nth = 4
  BY <1>3
<1> HIDE DEF old
<1> QED
  BY <1>9, <1>10, <1>12, <1>13, <1>14, <1>15, <1>16

LEMMA TakeLockStep ==
  ASSUME CacheInvariant, NEW c \in Caller, TakeLock(c)
  PROVE  CacheInvariant'
<1> USE DEF CacheInvariant
<1> DEFINE old == call[c]
           s == old.options.cwd
           r == [at |-> "discover", kind |-> old.kind, options |-> old.options, nth |-> 3, first |-> None, initial |-> old.initial]
<1>1. /\ call' = [call EXCEPT ![c] = r] /\ UNCHANGED <<setup, repository, moment>> /\ old.at = "lock"
      /\ store' = Locked(s, TRUE) /\ ~store[s].locked
  BY DEF TakeLock, Free
<1>2. old.options \in Setups[setup].options /\ s \in Scope
  BY <1>1 DEF CallsAreReal, CallOK, SettledOK, Scope
<1>3. call'[c] = r /\ moment'[c] = moment[c] /\ StepOf(c)
  BY <1>1 DEF StepOf, CallsAreReal
<1>4. CallOK(r, moment[c])
  BY <1>2 DEF CallOK, IdleOK, DiscoverOK, ReadOK, SettledOK
<1>5. r.options = old.options /\ r.at = "discover"
  OBVIOUS
<1>6. store' = [store EXCEPT ![s] = [record |-> store[s].record, locked |-> TRUE, moment |-> store[s].moment]]
  BY <1>1 DEF Locked
<1>7. store[s].record # None => "intact" \in DOMAIN store[s].record /\ store[s].moment \in Moments /\ Later(repository, store[s].moment)
  BY <1>2 DEF StoreIsReal
<1>8. \A t \in Scope : t # s => store'[t] = store[t]
  BY <1>6 DEF StoreIsReal
<1>9. store'[s].locked
  BY <1>2, <1>6 DEF StoreIsReal
<1>10. \A d \in Caller : d # c /\ Holds(call[d]) => call[d].options.cwd # s
  BY <1>1 DEF LocksAreExclusive
<1> HIDE DEF old, r
<1>11. RepositoryIsReal' /\ CallsAreReal'
  BY <1>3, <1>4, CallStep
<1>12. StoreIsReal'
  BY <1>1, <1>2, <1>6, <1>7, Standstill, StoreStep
<1>13. LocksAreExclusive'
  BY <1>2, <1>3, <1>5, <1>8, <1>9, <1>10, LocksStep
<1> QED
  BY <1>11, <1>12, <1>13

LEMMA LockTimeoutStep ==
  ASSUME CacheInvariant, NEW c \in Caller, LockTimeout(c)
  PROVE  CacheInvariant'
<1>1. Give(c, Failed) /\ UNCHANGED <<setup, repository, moment>> /\ call[c].at = "lock"
  BY DEF LockTimeout
<1>2. Reused(Failed) = {}
  BY DEF Reused, Failed
<1> QED
  BY <1>1, <1>2, NothingReused, Giving

\* What is written is of a moment that is no earlier than that of what it replaces.
LEMMA WriteIsFresh ==
  ASSUME CacheInvariant, NEW c \in Caller, WriteRecord(c)
  PROVE  LET s == call[c].options.cwd
         IN  /\ s \in Scope /\ Holds(call[c])
             /\ store' = [store EXCEPT ![s] = [record |-> call[c].initial, locked |-> store[s].locked, moment |-> moment[c]]]
             /\ "intact" \in DOMAIN call[c].initial /\ moment[c] \in Moments /\ Later(repository, moment[c])
             /\ store[s].locked /\ (store[s].record # None => Later(moment[c], store[s].moment))
<1> USE DEF CacheInvariant
<1>1. call[c].at = "write"
  BY DEF WriteRecord
<1>2. /\ call[c].options \in Setups[setup].options /\ moment[c] \in Moments /\ Later(repository, moment[c])
      /\ call[c].initial = Snapshot(call[c].options, moment[c])
  BY <1>1 DEF CallsAreReal, CallOK, SettledOK
<1>3. "intact" \in DOMAIN call[c].initial
  <2>1. \A o, found, prints : "intact" \in DOMAIN Record(o, found, prints)
    BY DEF Record
  <2> QED
    BY <1>2, <2>1 DEF Snapshot, Captured
<1>4. Holds(call[c]) /\ UpToDate(call[c], moment[c])
  BY <1>1 DEF Holds, LocksAreExclusive
<1>5. store[call[c].options.cwd].locked
  BY <1>4 DEF LocksAreExclusive
<1>6. store' = [store EXCEPT ![call[c].options.cwd] = [record |-> call[c].initial, locked |-> store[call[c].options.cwd].locked, moment |-> moment[c]]]
  BY DEF WriteRecord
<1>7. store[call[c].options.cwd].record # None => Later(moment[c], store[call[c].options.cwd].moment)
  BY <1>1, <1>4 DEF UpToDate
<1>8. call[c].options.cwd \in Scope
  BY <1>2 DEF Scope
<1> QED
  BY <1>2, <1>3, <1>4, <1>5, <1>6, <1>7, <1>8

LEMMA WriteStep ==
  ASSUME CacheInvariant, NEW c \in Caller, WriteRecord(c)
  PROVE  CacheInvariant'
<1> USE DEF CacheInvariant
<1> DEFINE old == call[c]
           s == old.options.cwd
           r == [old EXCEPT !.at = "release"]
<1>1. /\ call' = [call EXCEPT ![c] = r] /\ UNCHANGED <<setup, repository, moment>> /\ old.at = "write"
  BY DEF WriteRecord
<1>2. /\ s \in Scope /\ Holds(old)
      /\ store' = [store EXCEPT ![s] = [record |-> old.initial, locked |-> store[s].locked, moment |-> moment[c]]]
      /\ "intact" \in DOMAIN old.initial /\ moment[c] \in Moments /\ Later(repository, moment[c])
      /\ store[s].locked
  BY WriteIsFresh
<1>3. /\ old.options \in Setups[setup].options /\ old.initial = Snapshot(old.options, moment[c]) /\ old.nth = 4
      /\ {"at", "options", "nth", "initial"} \subseteq DOMAIN old
  BY <1>1 DEF CallsAreReal, CallOK, SettledOK
<1>4. call'[c] = r /\ moment'[c] = moment[c] /\ StepOf(c)
  BY <1>1 DEF StepOf, CallsAreReal
<1>5. r.at = "release" /\ r.options = old.options /\ r.nth = 4 /\ r.initial = old.initial
  <2> HIDE DEF old
  <2> QED
    BY <1>3
<1>6. store[s].locked = TRUE
  BY <1>2 DEF StoreIsReal
<1>7. \A t \in Scope : t # s => store'[t] = store[t]
  BY <1>2 DEF StoreIsReal
<1>8. store'[s].locked
  BY <1>2 DEF StoreIsReal
<1>9. \A d \in Caller : d # c /\ Holds(call[d]) => call[d].options.cwd # s
  BY <1>2 DEF LocksAreExclusive
<1> HIDE DEF r
<1>10. CallOK(r, moment[c])
  BY <1>2, <1>3, <1>5 DEF CallOK, IdleOK, DiscoverOK, ReadOK, SettledOK
<1> HIDE DEF old
<1>11. RepositoryIsReal' /\ CallsAreReal'
  BY <1>4, <1>10, CallStep
<1>12. StoreIsReal'
  <2>1. store' = [store EXCEPT ![s] = [record |-> old.initial, locked |-> TRUE, moment |-> moment[c]]]
    BY <1>2, <1>6
  <2> QED
    BY <1>1, <1>2, <2>1, Standstill, StoreStep
<1>13. LocksAreExclusive'
  BY <1>2, <1>4, <1>5, <1>7, <1>8, <1>9, LocksStep
<1> QED
  BY <1>11, <1>12, <1>13

LEMMA ReleaseStep ==
  ASSUME CacheInvariant, NEW c \in Caller, Release(c)
  PROVE  CacheInvariant'
<1> USE DEF CacheInvariant
<1>1. PICK record : record = call[c].initial
  OBVIOUS
<1>2. Give(c, Compare(record, record)) /\ UNCHANGED <<setup, repository, moment>> /\ call[c].at = "release"
  BY <1>1 DEF Release
<1>3. call[c].options \in Setups[setup].options /\ record = Snapshot(call[c].options, moment[c])
  BY <1>1, <1>2 DEF CallsAreReal, CallOK, SettledOK
<1>4. PICK answer : answer = Compare(record, record)
  OBVIOUS
<1>5. Idle(answer).answer = answer /\ Reused(answer) \subseteq answer.reuse
  BY DEF Idle, Reused
<1>6. answer.reuse = {} \/ (answer.current = record /\ answer.previous = record)
  BY <1>4, ComparisonReuses
<1>7. IdleOK(Idle(answer), moment[c])
  BY <1>3, <1>5, <1>6 DEF IdleOK
<1> QED
  BY <1>2, <1>4, <1>7, Giving

LEMMA DieStep ==
  ASSUME CacheInvariant, NEW c \in Caller, Die(c)
  PROVE  CacheInvariant'
<1> USE DEF CacheInvariant
<1>1. call' = [call EXCEPT ![c] = Idle(None)] /\ UNCHANGED <<setup, repository, store, moment>>
  BY DEF Die
<1>2. call'[c] = Idle(None) /\ moment'[c] = moment[c] /\ StepOf(c)
  BY <1>1 DEF StepOf, CallsAreReal
<1>3. Reused(None) = {} /\ Idle(None).at = "idle"
  BY DEF Reused, Idle
<1>4. CallOK(call'[c], moment'[c])
  BY <1>2, <1>3, NothingReused DEF CallOK, DiscoverOK, ReadOK, SettledOK
<1>5. ~Holds(call'[c]) /\ UpToDate(call'[c], moment'[c])
  BY <1>2, <1>3 DEF Holds, UpToDate
<1>6. RepositoryIsReal' /\ CallsAreReal'
  BY <1>2, <1>4, CallStep
<1>7. StoreIsReal'
  BY <1>1, Standstill, StoreKept
<1>8. LocksAreExclusive'
  BY <1>1, <1>2, <1>5, LocksKept
<1> QED
  BY <1>6, <1>7, <1>8

(***************************************************************************)
(* The steps of editors, of Git, and of whoever damages or recovers.       *)
(***************************************************************************)
LEMMA RepositoryStep ==
  ASSUME CacheInvariant, UNCHANGED <<setup, store, call, moment>>, repository' \in Moments, Later(repository', repository),
         \A p \in Path : head'[p] <= index'[p]
  PROVE  CacheInvariant'
<1> USE DEF CacheInvariant
<1>1. Advances
  BY DEF Advances
<1>2. RepositoryIsReal'
  <2>1. repository' \in Moments' /\ Path' = Path
    BY Unmoved
  <2> QED
    BY <2>1 DEF RepositoryIsReal
<1>3. StoreIsReal'
  BY <1>1, StoreKept
<1>4. CallsAreReal'
  <2>1. \A r, m : CallOK(r, m) => CallOK(r, m)'
    BY <1>1, CallStays
  <2> QED
    BY <2>1 DEF CallsAreReal
<1>5. LocksAreExclusive'
  <2>1. \A r, m : UpToDate(r, m) => UpToDate(r, m)'
    BY DEF UpToDate, Later, Path
  <2> QED
    BY <2>1 DEF LocksAreExclusive, Holds
<1> QED
  BY <1>2, <1>3, <1>4, <1>5

\* A file that takes a later version in one of the three places.
LEMMA Advancing ==
  ASSUME RepositoryIsReal, NEW w \in VersionsOf, NEW i \in VersionsOf, NEW h \in VersionsOf,
         \A p \in Path : w[p] >= work[p] /\ i[p] >= index[p] /\ h[p] >= head[p]
  PROVE  <<w, i, h>> \in Moments /\ Later(<<w, i, h>>, repository)
<1>1. <<w, i, h>> \in Moments
  BY DEF Moments
<1>2. Later(<<w, i, h>>, repository)
  BY LaterIs DEF repository
<1> QED
  BY <1>1, <1>2

LEMMA RepositoryTypes ==
  ASSUME RepositoryIsReal
  PROVE  /\ work \in VersionsOf /\ index \in VersionsOf /\ head \in VersionsOf
         /\ \A p \in Path : work[p] \in Nat /\ index[p] \in Nat /\ head[p] \in Nat /\ head[p] <= index[p]
<1>1. work \in VersionsOf /\ index \in VersionsOf /\ head \in VersionsOf
  BY DEF RepositoryIsReal, Moments, repository
<1>2. \A v \in VersionsOf : \A p \in Path : v[p] \in Nat
  BY FileVersions DEF VersionsOf, RepositoryIsReal
<1> QED
  BY <1>1, <1>2 DEF RepositoryIsReal

LEMMA NextVersion ==
  ASSUME setup \in DOMAIN Setups, NEW v \in VersionsOf, NEW p \in Path, NEW n \in DOMAIN Setups[setup].files[p], n >= v[p]
  PROVE  [v EXCEPT ![p] = n] \in VersionsOf /\ \A q \in Path : [v EXCEPT ![p] = n][q] >= v[q]
<1> DEFINE w == [v EXCEPT ![p] = n]
<1>1. /\ v = [q \in Path |-> v[q]] /\ \A q \in Path : v[q] \in DOMAIN Setups[setup].files[q] /\ v[q] \in Nat
  BY FileVersions DEF VersionsOf
<1>2. w = [q \in Path |-> w[q]] /\ \A q \in Path : w[q] = IF q = p THEN n ELSE v[q]
  BY <1>1
<1> HIDE DEF w
<1>3. \A q \in Path : w[q] \in DOMAIN Setups[setup].files[q] /\ w[q] >= v[q]
  BY <1>1, <1>2
<1>4. w \in [Path -> UNION {DOMAIN Setups[setup].files[q] : q \in Path}]
  BY <1>2, <1>3
<1>5. w \in VersionsOf
  BY <1>3, <1>4 DEF VersionsOf
<1> QED
  BY <1>3, <1>5 DEF w

LEMMA EditStep ==
  ASSUME CacheInvariant, NEW p \in Path, Edit(p)
  PROVE  CacheInvariant'
<1>0. RepositoryIsReal
  BY DEF CacheInvariant
<1>1. /\ work' = [work EXCEPT ![p] = work[p] + 1] /\ UNCHANGED <<setup, index, head, store, call, moment>>
      /\ work[p] < Len(Setups[setup].files[p])
  BY DEF Edit
<1>2. work[p] + 1 \in DOMAIN Setups[setup].files[p]
  <2>1. Versions(Setups[setup].files[p]) /\ work[p] \in DOMAIN Setups[setup].files[p]
    BY <1>0, SetupsAssumption, RepositoryTypes DEF Path, RepositoryIsReal, VersionsOf
  <2> QED
    BY <1>1, <2>1 DEF Versions
<1>3. work' \in VersionsOf /\ \A q \in Path : work'[q] >= work[q]
  <2>1. work \in VersionsOf /\ setup \in DOMAIN Setups /\ work[p] + 1 >= work[p]
    BY <1>0, RepositoryTypes DEF RepositoryIsReal
  <2> QED
    BY <1>1, <1>2, <2>1, NextVersion
<1>4. repository' = <<work', index, head>>
  BY <1>1 DEF repository
<1>5. repository' \in Moments /\ Later(repository', repository)
  <2>1. \A q \in Path : work'[q] >= work[q] /\ index[q] >= index[q] /\ head[q] >= head[q]
    BY <1>0, <1>3, RepositoryTypes
  <2> QED
    BY <1>0, <1>3, <1>4, <2>1, RepositoryTypes, Advancing
<1> QED
  BY <1>0, <1>1, <1>5, RepositoryStep, RepositoryTypes

LEMMA StageStep ==
  ASSUME CacheInvariant, NEW p \in Path, Stage(p)
  PROVE  CacheInvariant'
<1>0. RepositoryIsReal
  BY DEF CacheInvariant
<1>1. /\ index' = [index EXCEPT ![p] = work[p]] /\ UNCHANGED <<setup, work, head, store, call, moment>> /\ index[p] < work[p]
  BY DEF Stage
<1>2. index' \in VersionsOf /\ \A q \in Path : index'[q] >= index[q]
  <2>1. index \in VersionsOf /\ setup \in DOMAIN Setups /\ work[p] >= index[p] /\ work[p] \in DOMAIN Setups[setup].files[p]
    <3>1. work \in VersionsOf /\ index \in VersionsOf /\ work[p] \in Nat /\ index[p] \in Nat
      BY <1>0, RepositoryTypes
    <3> QED
      BY <1>0, <1>1, <3>1 DEF RepositoryIsReal, VersionsOf
  <2> QED
    BY <1>1, <2>1, NextVersion
<1>3. repository' = <<work, index', head>>
  BY <1>1 DEF repository
<1>4. repository' \in Moments /\ Later(repository', repository)
  <2>1. \A q \in Path : work[q] >= work[q] /\ index'[q] >= index[q] /\ head[q] >= head[q]
    BY <1>0, <1>2, RepositoryTypes
  <2> QED
    BY <1>0, <1>2, <1>3, <2>1, RepositoryTypes, Advancing
<1>5. \A q \in Path : head'[q] <= index'[q]
  <2> TAKE q \in Path
  <2>1. index[q] \in Nat /\ head[q] \in Nat /\ head[q] <= index[q] /\ work[q] \in Nat
    BY <1>0, RepositoryTypes
  <2>2. index'[q] = IF q = p THEN work[p] ELSE index[q]
    BY <1>0, <1>1, RepositoryTypes DEF VersionsOf
  <2> QED
    BY <1>1, <2>1, <2>2
<1> QED
  BY <1>1, <1>4, <1>5, RepositoryStep

LEMMA CommitStep ==
  ASSUME CacheInvariant, Commit
  PROVE  CacheInvariant'
<1>0. RepositoryIsReal
  BY DEF CacheInvariant
<1>1. head' = index /\ UNCHANGED <<setup, work, index, store, call, moment>>
  BY DEF Commit
<1>2. repository' = <<work, index, index>>
  BY <1>1 DEF repository
<1>3. repository' \in Moments /\ Later(repository', repository)
  <2>1. \A q \in Path : work[q] >= work[q] /\ index[q] >= index[q] /\ index[q] >= head[q]
    BY <1>0, RepositoryTypes
  <2> QED
    BY <1>0, <1>2, <2>1, RepositoryTypes, Advancing
<1>4. \A q \in Path : head'[q] <= index'[q]
  BY <1>0, <1>1, RepositoryTypes
<1> QED
  BY <1>1, <1>3, <1>4, RepositoryStep

LEMMA DamageKeeps ==
  ASSUME CacheInvariant, NEW s \in Scope, Damage(s)
  PROVE  /\ store' = [store EXCEPT ![s] = [record |-> [store[s].record EXCEPT !.intact = FALSE], locked |-> store[s].locked, moment |-> store[s].moment]]
         /\ store[s].record # None /\ "intact" \in DOMAIN store[s].record /\ store[s].locked \in BOOLEAN
         /\ store[s].moment \in Moments /\ Later(repository, store[s].moment)
BY DEF Damage, CacheInvariant, StoreIsReal

LEMMA DamageStep ==
  ASSUME CacheInvariant, NEW s \in Scope, Damage(s)
  PROVE  CacheInvariant'
<1> USE DEF CacheInvariant
<1>1. UNCHANGED <<setup, repository, call, moment>>
  BY DEF Damage
<1>2. PICK r, m : r = [store[s].record EXCEPT !.intact = FALSE] /\ m = store[s].moment
  OBVIOUS
<1>3. /\ store' = [store EXCEPT ![s] = [record |-> r, locked |-> store[s].locked, moment |-> m]]
      /\ store[s].record # None /\ "intact" \in DOMAIN store[s].record /\ store[s].locked \in BOOLEAN
      /\ m \in Moments /\ Later(repository, m)
  BY <1>2, DamageKeeps
<1>4. "intact" \in DOMAIN r
  BY <1>2, <1>3
<1>5. RepositoryIsReal' /\ Advances
  BY <1>1, Standstill
<1>6. StoreIsReal'
  BY <1>3, <1>4, <1>5, StoreStep
<1>7. CallsAreReal'
  <2>1. \A r1, m1 : CallOK(r1, m1) => CallOK(r1, m1)'
    BY <1>5, CallStays
  <2> QED
    BY <1>1, <2>1 DEF CallsAreReal
<1>8. \A t \in Scope : /\ store'[t].locked = store[t].locked /\ store'[t].moment = store[t].moment
                       /\ store'[t].record # None => store[t].record # None
  BY <1>2, <1>3 DEF StoreIsReal
<1>9. LocksAreExclusive'
  <2>1. \A c \in Caller : Holds(call[c]) => call[c].options.cwd \in Scope
    BY HoldsScope DEF CallsAreReal
  <2>2. \A c \in Caller : UpToDate(call[c], moment[c])'
    <3> TAKE c \in Caller
    <3>1. (call[c].at = "read" /\ call[c].nth \in {3, 4}) \/ call[c].at = "write" => Holds(call[c])
      BY DEF Holds
    <3>2. UpToDate(call[c], moment[c]) /\ \A a, b : Later(a, b)' <=> Later(a, b)
      BY <1>1, Unmoved DEF LocksAreExclusive
    <3> QED
      BY <1>1, <1>8, <2>1, <3>1, <3>2 DEF UpToDate
  <2> QED
    BY <1>1, <1>8, <2>1, <2>2 DEF LocksAreExclusive, Holds
<1> QED
  BY <1>5, <1>6, <1>7, <1>9

LEMMA RecoverStep ==
  ASSUME CacheInvariant, NEW s \in Scope, Recover(s)
  PROVE  CacheInvariant'
<1> USE DEF CacheInvariant
<1>1. /\ UNCHANGED <<setup, repository, call, moment>> /\ \A c \in Caller : call[c].at = "idle"
      /\ store' = [store EXCEPT ![s] = [record |-> None, locked |-> FALSE, moment |-> None]]
  BY DEF Recover
<1>2. RepositoryIsReal' /\ Advances
  BY <1>1, Standstill
<1>3. StoreIsReal'
  BY <1>1, <1>2, StoreStep
<1>4. CallsAreReal'
  <2>1. \A r, m : CallOK(r, m) => CallOK(r, m)'
    BY <1>2, CallStays
  <2> QED
    BY <1>1, <2>1 DEF CallsAreReal
<1>5. LocksAreExclusive'
  BY <1>1 DEF LocksAreExclusive, Holds, UpToDate
<1> QED
  BY <1>2, <1>3, <1>4, <1>5

(***************************************************************************)
(* The theorems.                                                           *)
(***************************************************************************)
LEMMA CacheStep == CacheInvariant /\ [Next]_vars => CacheInvariant'
<1> SUFFICES ASSUME CacheInvariant, [Next]_vars PROVE CacheInvariant'
  OBVIOUS
<1>1. ASSUME NEW c \in Caller, NEW kind \in {"check", "record"}, NEW o \in Setups[setup].options, Begin(c, kind, o)
      PROVE  CacheInvariant'
  BY <1>1, BeginStep
<1>2. ASSUME NEW c \in Caller,
             \/ Discover(c) \/ ReadSource(c) \/ CompleteCapture(c) \/ TakeLock(c)
             \/ LockTimeout(c) \/ WriteRecord(c) \/ Release(c) \/ Die(c)
      PROVE  CacheInvariant'
  BY <1>2, DiscoverStep, ReadStep, CompleteStep, TakeLockStep, LockTimeoutStep, WriteStep, ReleaseStep, DieStep
<1>3. ASSUME NEW p \in Path, Edit(p) \/ Stage(p)
      PROVE  CacheInvariant'
  BY <1>3, EditStep, StageStep
<1>4. CASE Commit
  BY <1>4, CommitStep
<1>5. ASSUME NEW s \in Scope, Damage(s) \/ Recover(s)
      PROVE  CacheInvariant'
  BY <1>5, DamageStep, RecoverStep
<1>6. CASE UNCHANGED vars
  <2>1. UNCHANGED <<setup, repository, store, call, moment>>
    BY <1>6 DEF vars
  <2>2. repository' \in Moments /\ Later(repository', repository) /\ \A p \in Path : head'[p] <= index'[p]
    BY <2>1, LaterReflexive DEF CacheInvariant, RepositoryIsReal, repository
  <2> QED
    BY <2>1, <2>2, RepositoryStep
<1> QED
  BY <1>1, <1>2, <1>3, <1>4, <1>5, <1>6 DEF Next

THEOREM CacheInvariance == Spec => []CacheInvariant
BY InitReal, CacheStep, PTL DEF Spec

\* What a record operation is about to write, and what a check reuses analyses for, is the repository of
\* one instant, whatever the files, the options and the number of operations are.
THEOREM SnapshotsAreOfOneMoment == Spec => []SnapshotsAreReal
<1>1. CacheInvariant => SnapshotsAreReal
  <2> SUFFICES ASSUME CacheInvariant, NEW c \in Caller
               PROVE  /\ call[c].at \in {"lock", "write"} => call[c].initial = Snapshot(call[c].options, moment[c])
                      /\ call[c].at = "idle" /\ Reused(call[c].answer) # {} =>
                           \E o \in Setups[setup].options : call[c].answer.current = Snapshot(o, moment[c])
    BY DEF SnapshotsAreReal
  <2>1. IdleOK(call[c], moment[c]) /\ SettledOK(call[c], moment[c])
    BY DEF CacheInvariant, CallsAreReal, CallOK
  <2> QED
    BY <2>1 DEF IdleOK, SettledOK
<1> QED
  BY <1>1, CacheInvariance, PTL

\* What an answer allows to be used again has the key it had when it was recorded, for every graph of
\* references, cycles included.
THEOREM ReuseKeepsKeys == Spec => []ReuseIsSound
<1>1. CacheInvariant => ReuseIsSound
  <2> SUFFICES ASSUME CacheInvariant, NEW c \in Caller, call[c].at = "idle"
               PROVE  \A p \in Reused(call[c].answer) : call[c].answer.previous.sources[p].key = call[c].answer.current.sources[p].key
    BY DEF ReuseIsSound
  <2>1. IdleOK(call[c], moment[c])
    BY DEF CacheInvariant, CallsAreReal, CallOK
  <2> QED
    BY <2>1 DEF IdleOK
<1> QED
  BY <1>1, CacheInvariance, PTL

\* A step leaves the record of a scope as it is, spoils it, removes it, or replaces it by a later one.
Forward(s) ==
  store[s].record # None /\ store'[s].record # store[s].record /\ store'[s].record # None =>
    (store'[s].record.intact => Later(store'[s].moment, store[s].moment))

LEMMA GivingKeepsRecords ==
  ASSUME StoreIsReal, NEW c, NEW answer, Give(c, answer), NEW s \in Scope
  PROVE  store'[s].record = store[s].record
BY DEF Give, Locked, StoreIsReal

LEMMA StepIsForward ==
  ASSUME CacheInvariant, Next, NEW s \in Scope
  PROVE  Forward(s)
<1>0. StoreIsReal
  BY DEF CacheInvariant
<1>1. CASE UNCHANGED store
  BY <1>1 DEF Forward
<1>2. ASSUME NEW c, NEW answer, Give(c, answer)
      PROVE  Forward(s)
  BY <1>0, <1>2, GivingKeepsRecords DEF Forward
<1>3. ASSUME NEW c \in Caller, WriteRecord(c)
      PROVE  Forward(s)
  <2> DEFINE t == call[c].options.cwd
  <2>1. /\ t \in Scope
        /\ store' = [store EXCEPT ![t] = [record |-> call[c].initial, locked |-> store[t].locked, moment |-> moment[c]]]
        /\ store[t].record # None => Later(moment[c], store[t].moment)
    BY <1>3, WriteIsFresh
  <2>2. store'[s] = IF s = t THEN [record |-> call[c].initial, locked |-> store[t].locked, moment |-> moment[c]] ELSE store[s]
    BY <1>0, <2>1 DEF StoreIsReal
  <2> HIDE DEF t
  <2> QED
    BY <2>1, <2>2 DEF Forward
<1>4. ASSUME NEW t \in Scope, Damage(t)
      PROVE  Forward(s)
  <2>1. PICK r : r = [store[t].record EXCEPT !.intact = FALSE]
    OBVIOUS
  <2>2. /\ store' = [store EXCEPT ![t] = [record |-> r, locked |-> store[t].locked, moment |-> store[t].moment]]
        /\ "intact" \in DOMAIN store[t].record
    BY <1>4, <2>1, DamageKeeps
  <2>3. r.intact = FALSE
    BY <2>1, <2>2
  <2>4. store'[s] = IF s = t THEN [record |-> r, locked |-> store[t].locked, moment |-> store[t].moment] ELSE store[s]
    BY <1>0, <2>2 DEF StoreIsReal
  <2> QED
    BY <2>3, <2>4 DEF Forward
<1>5. ASSUME NEW t \in Scope, Recover(t)
      PROVE  Forward(s)
  BY <1>0, <1>5 DEF Recover, Forward, StoreIsReal
<1>6. ASSUME NEW c \in Caller, TakeLock(c)
      PROVE  Forward(s)
  BY <1>0, <1>6 DEF TakeLock, Locked, Forward, StoreIsReal
<1>7. ASSUME NEW c \in Caller, CompleteCapture(c)
      PROVE  UNCHANGED store \/ \E answer : Give(c, answer)
  BY <1>7, Zenon DEF CompleteCapture
<1>8. ASSUME NEW c \in Caller, ReadSource(c)
      PROVE  UNCHANGED store \/ \E answer : Give(c, answer)
  BY <1>8 DEF ReadSource
<1>9. ASSUME NEW c \in Caller,
             \/ \E kind \in {"check", "record"}, o \in Setups[setup].options : Begin(c, kind, o)
             \/ Discover(c) \/ ReadSource(c) \/ CompleteCapture(c)
             \/ TakeLock(c) \/ LockTimeout(c) \/ WriteRecord(c) \/ Release(c) \/ Die(c)
      PROVE  Forward(s)
  <2>1. ASSUME NEW kind, NEW o, Begin(c, kind, o) PROVE Forward(s)
    BY <1>1, <2>1 DEF Begin
  <2>2. CASE Discover(c) \/ Die(c)
    BY <1>1, <2>2 DEF Discover, Die
  <2>3. CASE ReadSource(c) \/ CompleteCapture(c)
    BY <1>1, <1>2, <1>7, <1>8, <2>3
  <2>4. CASE LockTimeout(c) \/ Release(c)
    BY <1>2, <2>4 DEF LockTimeout, Release
  <2>5. CASE TakeLock(c) \/ WriteRecord(c)
    BY <1>3, <1>6, <2>5
  <2> QED
    BY <1>9, <2>1, <2>2, <2>3, <2>4, <2>5
<1>10. ASSUME NEW p \in Path, Edit(p) \/ Stage(p)
       PROVE  Forward(s)
  BY <1>1, <1>10 DEF Edit, Stage
<1>11. CASE Commit
  BY <1>1, <1>11 DEF Commit
<1> QED
  BY <1>4, <1>5, <1>9, <1>10, <1>11 DEF Next

\* A record is only replaced by one of the same or a later state of the repository, however many
\* operations wait for its lock, and whoever dies.
THEOREM RecordsOnlyAdvance == Spec => RecordsGoForward
<1>1. CacheInvariant /\ [Next]_vars =>
        [\A s \in Scope : store[s].record # None /\ store'[s].record # store[s].record /\ store'[s].record # None =>
           (store'[s].record.intact => Later(store'[s].moment, store[s].moment))]_vars
  BY StepIsForward DEF Forward
<1> QED
  BY <1>1, CacheInvariance, PTL DEF Spec, RecordsGoForward
================================================================================
