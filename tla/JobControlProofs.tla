--------------------------- MODULE JobControlProofs ---------------------------
(***************************************************************************)
(* Proofs about JobControl: a continuation is granted once, and a job has  *)
(* one session. The invariant says of every job what an event may rely on  *)
(* (Good): what it waits for, how far the host can be ahead of it, that    *)
(* its last continuation is the latest, and that a start which may still   *)
(* be carried out finds no session. An event computes with a job it has    *)
(* not saved yet, so Good is a predicate of that job, kept by everything   *)
(* an event does; the host only goes forward.                              *)
(***************************************************************************)
EXTENDS JobControl, DataTheorems, TLAPS

\* What an event works on, as the records they are.
IsJob(r) ==
  r = [state |-> r.state, owner |-> r.owner, generation |-> r.generation, checkpoint |-> r.checkpoint,
       pending |-> r.pending, resumed |-> r.resumed, base |-> r.base, progress |-> r.progress,
       sequence |-> r.sequence, notified |-> r.notified, researched |-> r.researched,
       lifecycle |-> r.lifecycle, quiescent |-> r.quiescent]

IsWork(k) ==
  /\ k = [job |-> k.job, ledger |-> k.ledger, actions |-> k.actions, failed |-> k.failed]
  /\ IsJob(k.job)
  /\ k.ledger = [used |-> k.ledger.used, settlement |-> k.ledger.settlement]
  /\ k.ledger.used \in Int

\* The part of a job that continuations depend on.
SameJob(k, m) ==
  /\ m.job.owner = k.job.owner /\ m.job.generation = k.job.generation
  /\ m.job.checkpoint = k.job.checkpoint /\ m.job.resumed = k.job.resumed
  /\ m.job.quiescent = k.job.quiescent

\* The same job with another state, or another record of what was told, asked or settled.
Noted(k, m) ==
  /\ IsWork(m) /\ SameJob(k, m) /\ m.ledger.used = k.ledger.used
  /\ m.actions = k.actions /\ m.job.pending = k.job.pending

Told(k, m, j) ==
  /\ IsWork(m) /\ SameJob(k, m) /\ m.ledger.used = k.ledger.used
  /\ \E N : /\ m.actions = k.actions \cup N /\ m.job.pending = k.job.pending \cup N
            /\ \A a \in N : a.job = j /\ a.kind = "NOTIFY"

Gives(k, a, j, kind, next) ==
  /\ a.job = j /\ a.kind = kind /\ a.next = next
  /\ a.generation = k.job.generation /\ a.owner = k.job.owner /\ a.checkpoint = k.job.checkpoint

Emitted(k, m, j, kind, next) ==
  /\ IsWork(m) /\ SameJob(k, m) /\ m.ledger = k.ledger /\ m.job.state = k.job.state
  /\ \E a : /\ m.actions = k.actions \cup {a} /\ m.job.pending = k.job.pending \cup {a}
            /\ Gives(k, a, j, kind, next)

\* An action is granted, and waited for.
LEMMA EmitIs ==
  ASSUME NEW k, IsWork(k), NEW j, NEW kind, NEW next
  PROVE  Emitted(k, Emit(k, j, kind, next), j, kind, next)
<1> DEFINE a == [job |-> j, number |-> k.job.sequence + 1, kind |-> kind, generation |-> k.job.generation,
                   owner |-> k.job.owner, next |-> next, checkpoint |-> k.job.checkpoint, until |-> now + 1]
           m == Emit(k, j, kind, next)
<1> DEFINE r == [state |-> k.job.state, owner |-> k.job.owner, generation |-> k.job.generation,
                 checkpoint |-> k.job.checkpoint, pending |-> k.job.pending \cup {a}, resumed |-> k.job.resumed,
                 base |-> k.job.base, progress |-> k.job.progress, sequence |-> k.job.sequence + 1,
                 notified |-> k.job.notified, researched |-> k.job.researched,
                 lifecycle |-> k.job.lifecycle, quiescent |-> k.job.quiescent]
<1>1. m = [k EXCEPT !.job.sequence = @ + 1, !.job.pending = @ \cup {a}, !.actions = @ \cup {a}]
  BY DEF Emit
<1> HIDE DEF a, m
<1>2. m = [job |-> r, ledger |-> k.ledger, actions |-> k.actions \cup {a}, failed |-> k.failed]
  BY <1>1 DEF IsWork, IsJob
<1>3. /\ IsJob(r) /\ r.pending = k.job.pending \cup {a} /\ r.state = k.job.state
      /\ r.owner = k.job.owner /\ r.generation = k.job.generation
      /\ r.checkpoint = k.job.checkpoint /\ r.resumed = k.job.resumed /\ r.quiescent = k.job.quiescent
  BY DEF IsJob
<1> HIDE DEF r
<1>4. m.job = r /\ m.ledger = k.ledger /\ m.actions = k.actions \cup {a} /\ IsWork(m)
  BY <1>2, <1>3 DEF IsWork
<1>5. Gives(k, a, j, kind, next)
  BY DEF a, Gives
<1> QED
  BY <1>3, <1>4, <1>5 DEF Emitted, SameJob, m

\* A note touches nothing that continuations depend on.
LEMMA NotesAreNoted ==
  ASSUME NEW k, IsWork(k), NEW v
  PROVE  /\ Noted(k, [k EXCEPT !.job.state = v]) /\ [k EXCEPT !.job.state = v].job.state = v
         /\ Noted(k, [k EXCEPT !.job.notified = v]) /\ [k EXCEPT !.job.notified = v].job.state = k.job.state
         /\ Noted(k, [k EXCEPT !.job.researched = v])
         /\ Noted(k, [k EXCEPT !.job.lifecycle = v])
         /\ Noted(k, [k EXCEPT !.ledger.settlement = v]) /\ [k EXCEPT !.ledger.settlement = v].job = k.job
         /\ Noted(k, [k EXCEPT !.failed = v]) /\ [k EXCEPT !.failed = v].job = k.job
<1>1. Noted(k, [k EXCEPT !.job.state = v]) /\ [k EXCEPT !.job.state = v].job.state = v
  BY DEF Noted, IsWork, IsJob, SameJob
<1>2. Noted(k, [k EXCEPT !.job.notified = v]) /\ [k EXCEPT !.job.notified = v].job.state = k.job.state
  BY DEF Noted, IsWork, IsJob, SameJob
<1>3. Noted(k, [k EXCEPT !.job.researched = v])
  BY DEF Noted, IsWork, IsJob, SameJob
<1>4. Noted(k, [k EXCEPT !.job.lifecycle = v])
  BY DEF Noted, IsWork, IsJob, SameJob
<1>5. Noted(k, [k EXCEPT !.ledger.settlement = v]) /\ [k EXCEPT !.ledger.settlement = v].job = k.job
  BY DEF Noted, IsWork, IsJob, SameJob
<1>6. Noted(k, [k EXCEPT !.failed = v]) /\ [k EXCEPT !.failed = v].job = k.job
  BY DEF Noted, IsWork, IsJob, SameJob
<1> QED
  BY <1>1, <1>2, <1>3, <1>4, <1>5, <1>6

\* Nobody needs to be told for that.
LEMMA NotedIsTold ==
  ASSUME NEW k, IsWork(k), NEW j
  PROVE  /\ Told(k, k, j)
         /\ \A m : Noted(k, m) => Told(k, m, j)
<1>1. ASSUME NEW m, IsWork(m), SameJob(k, m), m.ledger.used = k.ledger.used, m.actions = k.actions,
             m.job.pending = k.job.pending
      PROVE  Told(k, m, j)
  <2>1. \E N : /\ m.actions = k.actions \cup N /\ m.job.pending = k.job.pending \cup N
                /\ \A a \in N : a.job = j /\ a.kind = "NOTIFY"
    <3> DEFINE N == {}
    <3>1. /\ m.actions = k.actions \cup N /\ m.job.pending = k.job.pending \cup N
          /\ \A a \in N : a.job = j /\ a.kind = "NOTIFY"
      BY <1>1
    <3> HIDE DEF N
    <3> QED
      BY <3>1
  <2> QED
    BY <1>1, <2>1 DEF Told
<1> QED
  BY <1>1 DEF Noted, SameJob

\* Telling twice is telling.
LEMMA ToldTwice ==
  ASSUME NEW k, NEW l, NEW m, NEW j, Told(k, l, j), Told(l, m, j)
  PROVE  Told(k, m, j)
<1>1. PICK N : /\ l.actions = k.actions \cup N /\ l.job.pending = k.job.pending \cup N
               /\ \A a \in N : a.job = j /\ a.kind = "NOTIFY"
  BY DEF Told
<1>2. PICK M : /\ m.actions = l.actions \cup M /\ m.job.pending = l.job.pending \cup M
               /\ \A a \in M : a.job = j /\ a.kind = "NOTIFY"
  BY DEF Told
<1>3. \E O : /\ m.actions = k.actions \cup O /\ m.job.pending = k.job.pending \cup O
              /\ \A a \in O : a.job = j /\ a.kind = "NOTIFY"
  <2> WITNESS N \cup M
  <2> QED
    BY <1>1, <1>2
<1> QED
  BY <1>1, <1>2, <1>3 DEF Told, SameJob

\* notify only tells.
LEMMA NotifyTells ==
  ASSUME NEW k, IsWork(k), NEW j, NEW reason
  PROVE  Told(k, Notify(k, j, reason), j) /\ Notify(k, j, reason).job.state = k.job.state
<1> DEFINE m == Emit(k, j, "NOTIFY", None)
           key == <<k.job.state, reason, k.job.checkpoint>>
           n == [m EXCEPT !.job.notified = @ \cup {key}]
<1>1. /\ IsWork(m) /\ SameJob(k, m) /\ m.ledger = k.ledger /\ m.job.state = k.job.state
      /\ \E a : /\ m.actions = k.actions \cup {a} /\ m.job.pending = k.job.pending \cup {a}
                /\ Gives(k, a, j, "NOTIFY", None)
  BY EmitIs DEF Emitted
<1>2. Told(k, m, j)
  <2>1. PICK a : /\ m.actions = k.actions \cup {a} /\ m.job.pending = k.job.pending \cup {a}
                 /\ a.job = j /\ a.kind = "NOTIFY"
    BY <1>1 DEF Gives
  <2>2. \A b \in {a} : b.job = j /\ b.kind = "NOTIFY"
    BY <2>1
  <2> QED
    BY <1>1, <2>1, <2>2 DEF Told
<1>3. n = [m EXCEPT !.job.notified = m.job.notified \cup {key}]
  OBVIOUS
<1>4. Notify(k, j, reason) = k \/ Notify(k, j, reason) = n
  BY DEF Notify
<1> HIDE DEF m, key, n
<1>5. Noted(m, n) /\ n.job.state = k.job.state
  BY <1>1, <1>3 DEF Noted, IsWork, IsJob, SameJob
<1>6. Told(m, n, j)
  BY <1>1, <1>5, NotedIsTold
<1>7. Told(k, n, j)
  BY <1>2, <1>6, ToldTwice
<1> QED
  BY <1>4, <1>5, <1>7, NotedIsTold

\* So does asking somebody to come in.
LEMMA ManualTells ==
  ASSUME NEW k, IsWork(k), NEW j, NEW reason
  PROVE  Told(k, Manual(k, j, reason), j) /\ Manual(k, j, reason).job.state = "NEEDS_INPUT"
<1> DEFINE m == [k EXCEPT !.job.state = "NEEDS_INPUT"]
<1>1. Noted(k, m) /\ m.job.state = "NEEDS_INPUT"
  BY NotesAreNoted
<1>2. Manual(k, j, reason) = Notify(m, j, reason)
  BY DEF Manual
<1> HIDE DEF m
<1>3. IsWork(m) /\ Told(k, m, j)
  BY <1>1, NotedIsTold DEF Noted
<1>4. Told(m, Notify(m, j, reason), j) /\ Notify(m, j, reason).job.state = "NEEDS_INPUT"
  BY <1>1, <1>3, NotifyTells
<1> QED
  BY <1>2, <1>3, <1>4, ToldTwice

\* A grant that spends leaves a trace in the counter.
Gave(k, m, j, kind, next) ==
  /\ IsWork(m) /\ SameJob(k, m) /\ m.ledger.used = k.ledger.used + 1
  /\ \E a : /\ m.actions = k.actions \cup {a} /\ m.job.pending = k.job.pending \cup {a}
            /\ Gives(k, a, j, kind, next)

Reserved(k, m, j, kind, next) ==
  \/ Told(k, m, j) /\ ~Granted(m, k)
  \/ Gave(k, m, j, kind, next) /\ Granted(m, k)

\* reserve grants one action or tells why not.
LEMMA ReserveGives ==
  ASSUME NEW k, IsWork(k), NEW j, NEW kind, NEW next
  PROVE  Reserved(k, Reserve(k, j, kind, next), j, kind, next)
<1> DEFINE read == [k EXCEPT !.ledger.settlement = Open(k)]
           made == Emit(read, j, kind, next)
           action == CHOOSE a \in made.actions : a.kind = kind
           settlement == [a \in DOMAIN made.ledger.settlement \cup {action} |->
                            IF a = action THEN FALSE ELSE made.ledger.settlement[a]]
           m == Reserve(k, j, kind, next)
           one == [made EXCEPT !.ledger.used = @ + 1]
           two == [made EXCEPT !.ledger.used = @ + 1, !.ledger.settlement = settlement]
<1>1. \/ \E reason : m = Manual(k, j, reason)
      \/ \E reason : m = Manual(read, j, reason)
      \/ m = one
      \/ m = two
  BY DEF Reserve
<1>2. Noted(k, read) /\ read.job = k.job
  BY NotesAreNoted
<1> HIDE DEF read, m
<1>3. IsWork(read) /\ Told(k, read, j)
  BY <1>2, NotedIsTold DEF Noted
<1>4. ASSUME NEW l, Told(k, l, j) PROVE Told(k, l, j) /\ ~Granted(l, k)
  BY <1>4 DEF Told, Granted, IsWork
<1>5. /\ IsWork(made) /\ SameJob(read, made) /\ made.ledger = read.ledger
      /\ \E a : /\ made.actions = read.actions \cup {a} /\ made.job.pending = read.job.pending \cup {a}
                /\ Gives(read, a, j, kind, next)
  <2>1. IsWork(read)
    BY <1>3
  <2>2. Emitted(read, made, j, kind, next)
    BY <2>1, EmitIs
  <2> QED
    BY <2>2 DEF Emitted
<1> HIDE DEF made, settlement, action
<1>6. ASSUME NEW l, IsWork(l), l.job = made.job, l.actions = made.actions, l.ledger.used = made.ledger.used + 1
      PROVE  Gave(k, l, j, kind, next) /\ Granted(l, k)
  <2>1. SameJob(k, l) /\ l.ledger.used = k.ledger.used + 1 /\ k.ledger.used \in Int
    BY <1>2, <1>5, <1>6 DEF SameJob, Noted, IsWork
  <2>2. read.actions = k.actions /\ read.job = k.job
    BY <1>2 DEF Noted
  <2> QED
    BY <1>5, <1>6, <2>1, <2>2 DEF Gave, Granted, Gives
<1>7. IsWork(one) /\ one.job = made.job /\ one.actions = made.actions /\ one.ledger.used = made.ledger.used + 1
  BY <1>5 DEF IsWork
<1>8. IsWork(two) /\ two.job = made.job /\ two.actions = made.actions /\ two.ledger.used = made.ledger.used + 1
  <2>1. two = [one EXCEPT !.ledger.settlement = settlement]
    OBVIOUS
  <2> HIDE DEF one, two
  <2> QED
    BY <1>7, <2>1 DEF IsWork
<1> HIDE DEF one, two
<1>9. CASE \E reason : m = Manual(k, j, reason)
  BY <1>4, <1>9, ManualTells DEF Reserved, m
<1>10. CASE \E reason : m = Manual(read, j, reason)
  <2>1. Told(k, m, j)
    BY <1>3, <1>10, ManualTells, ToldTwice
  <2> QED
    BY <1>4, <2>1 DEF Reserved, m
<1>11. CASE m = one \/ m = two
  BY <1>6, <1>7, <1>8, <1>11 DEF Reserved, m
<1> QED
  BY <1>1, <1>9, <1>10, <1>11 DEF Reserved, m

(***************************************************************************)
(* The budget. An event works on a ledger that it has not saved yet; what  *)
(* is so of a ledger is so of it and of all that was granted so far: there *)
(* is a dispatch for every grant that spends, a reservation or an entry    *)
(* for every one that the budget is bound to, and what they may cost is    *)
(* below the hard limit.                                                   *)
(***************************************************************************)
Covered(l, actions) ==
  /\ Spent(actions) \subseteq DOMAIN l.settlement \cup DOMAIN entries
  /\ Spent(actions) # {} => Committed(Spent(actions)) < setup.budget.hard

InBudget(l, actions) ==
  /\ IsFiniteSet(Spent(actions)) /\ Cardinality(Spent(actions)) <= l.used /\ l.used \in Nat
  /\ setup.limit # None => l.used <= setup.limit
  /\ DOMAIN l.settlement \subseteq Spent(actions)
  /\ setup.budget # None => Covered(l, actions)

\* An entry is of a grant that spends, and measured: nothing, or what was reserved.
Entered ==
  /\ DOMAIN entries \subseteq Spent(grants)
  /\ \A a \in DOMAIN entries : /\ entries[a].reserved = 0 /\ entries[a].provenance = "MEASURED"
                               /\ entries[a].consumed \in {0, setup.budget.next}

Money == setup \in Setups /\ Entered /\ InBudget(ledger, grants)

\* What an event works on; it is ready to spend as long as it has not.
Sound(k) == IsWork(k) /\ InBudget(k.ledger, grants \cup k.actions)
Ready(k) == Sound(k) /\ Spent(k.actions) = {}

\* Nothing is spent, and only what has an entry by now is forgotten.
Spares(k, m) ==
  /\ IsWork(m) /\ m.ledger.used = k.ledger.used /\ Spent(m.actions) = Spent(k.actions)
  /\ DOMAIN m.ledger.settlement \subseteq DOMAIN k.ledger.settlement
  /\ DOMAIN k.ledger.settlement \subseteq DOMAIN m.ledger.settlement \cup DOMAIN entries

\* The amounts of a setup are numbers.
LEMMA SetupNumbers ==
  ASSUME Money
  PROVE  /\ setup.limit \in Nat \cup {None}
         /\ setup.budget # None => setup.budget.hard \in Nat /\ setup.budget.next \in Nat
BY SetupsAssumption DEF Money

\* What is granted in two parts is spent in two parts.
LEMMA SpentUnion ==
  ASSUME NEW A, NEW B
  PROVE  Spent(A \cup B) = Spent(A) \cup Spent(B)
BY DEF Spent

LEMMA SparesSound ==
  ASSUME NEW k, NEW m, Spares(k, m)
  PROVE  (Sound(k) => Sound(m)) /\ (Ready(k) => Ready(m))
<1>1. Spent(grants \cup m.actions) = Spent(grants \cup k.actions)
  <2>1. Spent(m.actions) = Spent(k.actions)
    BY DEF Spares
  <2>2. /\ Spent(grants \cup m.actions) = Spent(grants) \cup Spent(m.actions)
        /\ Spent(grants \cup k.actions) = Spent(grants) \cup Spent(k.actions)
    BY SpentUnion
  <2> QED
    BY <2>1, <2>2
<1>2. Sound(k) => Sound(m)
  <2> SUFFICES ASSUME Sound(k) PROVE Sound(m)
    OBVIOUS
  <2>1. setup.budget # None => Covered(m.ledger, grants \cup m.actions)
    BY <1>1 DEF Sound, InBudget, Covered, Spares
  <2> QED
    BY <1>1, <2>1 DEF Sound, InBudget, Spares
<1> QED
  BY <1>2 DEF Ready, Spares

LEMMA SparesTwice ==
  ASSUME NEW k, NEW l, NEW m, Spares(k, l), Spares(l, m)
  PROVE  Spares(k, m)
BY DEF Spares

\* So does whatever keeps the ledger and the actions, and every note.
LEMMA SameSpares ==
  ASSUME NEW k, NEW m, IsWork(m), m.ledger = k.ledger, m.actions = k.actions
  PROVE  Spares(k, m)
BY DEF Spares

LEMMA NotesSpare ==
  ASSUME NEW k, IsWork(k), NEW v
  PROVE  /\ Spares(k, k)
         /\ Spares(k, [k EXCEPT !.job.state = v])
         /\ Spares(k, [k EXCEPT !.job.notified = v])
         /\ Spares(k, [k EXCEPT !.job.researched = v])
         /\ Spares(k, [k EXCEPT !.job.lifecycle = v])
         /\ Spares(k, [k EXCEPT !.job.checkpoint = v])
         /\ Spares(k, [k EXCEPT !.failed = v])
<1>1. Spares(k, k)
  BY DEF Spares
<1>2. Spares(k, [k EXCEPT !.job.state = v])
  BY DEF Spares, IsWork, IsJob
<1>3. Spares(k, [k EXCEPT !.job.notified = v])
  BY DEF Spares, IsWork, IsJob
<1>4. Spares(k, [k EXCEPT !.job.researched = v])
  BY DEF Spares, IsWork, IsJob
<1>5. Spares(k, [k EXCEPT !.job.lifecycle = v])
  BY DEF Spares, IsWork, IsJob
<1>6. Spares(k, [k EXCEPT !.job.checkpoint = v])
  BY DEF Spares, IsWork, IsJob
<1>7. Spares(k, [k EXCEPT !.failed = v])
  BY DEF Spares, IsWork, IsJob
<1> QED
  BY <1>1, <1>2, <1>3, <1>4, <1>5, <1>6, <1>7

\* An action that does not spend.
LEMMA EmitSpares ==
  ASSUME NEW k, IsWork(k), NEW j, NEW kind, NEW next, kind \notin Spending
  PROVE  Spares(k, Emit(k, j, kind, next))
<1> DEFINE m == Emit(k, j, kind, next)
<1>1. Emitted(k, m, j, kind, next)
  BY EmitIs
<1> HIDE DEF m
<1>2. PICK a : m.actions = k.actions \cup {a} /\ a.kind = kind
  BY <1>1 DEF Emitted, Gives
<1>3. Spent(m.actions) = Spent(k.actions)
  BY <1>2 DEF Spent
<1>4. Spares(k, m)
  BY <1>1, <1>3 DEF Spares, Emitted
<1> QED
  BY <1>4 DEF m

LEMMA NotifySpares ==
  ASSUME NEW k, IsWork(k), NEW j, NEW reason
  PROVE  Spares(k, Notify(k, j, reason))
<1> DEFINE key == <<k.job.state, reason, k.job.checkpoint>>
           m == Emit(k, j, "NOTIFY", None)
           n == [m EXCEPT !.job.notified = m.job.notified \cup {key}]
<1>1. Notify(k, j, reason) = k \/ Notify(k, j, reason) = n
  BY DEF Notify
<1>2. Spares(k, m)
  BY EmitSpares DEF Spending
<1> HIDE DEF m, key
<1>3. Spares(m, n)
  BY <1>2, NotesSpare DEF Spares
<1> HIDE DEF n
<1> QED
  BY <1>1, <1>2, <1>3, NotesSpare, SparesTwice

LEMMA ManualSpares ==
  ASSUME NEW k, IsWork(k), NEW j, NEW reason
  PROVE  Spares(k, Manual(k, j, reason))
<1> DEFINE m == [k EXCEPT !.job.state = "NEEDS_INPUT"]
<1>1. Manual(k, j, reason) = Notify(m, j, reason)
  BY DEF Manual
<1>2. Spares(k, m)
  BY NotesSpare
<1> HIDE DEF m
<1>3. Spares(m, Notify(m, j, reason))
  BY <1>2, NotifySpares DEF Spares
<1> QED
  BY <1>1, <1>2, <1>3, SparesTwice

\* What a grant may cost is known.
LEMMA ExposureIsNat ==
  ASSUME Money, setup.budget # None, NEW a
  PROVE  Exposure(a) \in Nat /\ (a \in DOMAIN entries \/ Exposure(a) = setup.budget.next)
BY SetupNumbers DEF Exposure, Money, Entered

LEMMA CommittedIsNat ==
  ASSUME Money, setup.budget # None, NEW S, IsFiniteSet(S)
  PROVE  Committed(S) \in Nat
<1> DEFINE f == [x \in S |-> Exposure(x)]
<1>1. \A x \in S : f[x] \in Nat
  BY ExposureIsNat
<1> HIDE DEF f
<1>2. Total(f, S) \in Nat
  BY <1>1, TotalNat
<1> QED
  BY <1>2 DEF Committed, f

\* One grant more costs at most the reservation.
LEMMA CommittedGrows ==
  ASSUME Money, setup.budget # None, NEW S, IsFiniteSet(S), DOMAIN entries \subseteq S, NEW a
  PROVE  Committed(S \cup {a}) <= setup.budget.next + Committed(S)
<1> DEFINE f == [x \in S |-> Exposure(x)]
           g == [x \in S \cup {a} |-> Exposure(x)]
<1>1. Committed(S) \in Nat /\ setup.budget.next \in Nat
  BY CommittedIsNat, SetupNumbers
<1>2. CASE a \in S
  <2>1. Committed(S \cup {a}) = Committed(S)
    <3>1. S \cup {a} = S
      BY <1>2
    <3> QED
      BY <3>1, Zenon
  <2> QED
    BY <1>1, <2>1
<1>3. CASE a \notin S
  <2>1. \A x \in S \cup {a} : g[x] \in Int
    BY ExposureIsNat
  <2>2. \A x \in S : g[x] = f[x]
    OBVIOUS
  <2>3. g[a] = setup.budget.next
    BY <1>3, ExposureIsNat
  <2> HIDE DEF f, g
  <2>4. Total(g, S \cup {a}) = g[a] + Total(g, S)
    BY <1>3, <2>1, TotalAdd
  <2>5. Total(g, S) = Total(f, S)
    BY <2>2, TotalSame
  <2>6. Committed(S \cup {a}) = setup.budget.next + Committed(S)
    BY <2>3, <2>4, <2>5 DEF Committed, f, g
  <2> QED
    BY <1>1, <2>6
<1> QED
  BY <1>2, <1>3

\* The lines that reserve reads are all that was spent, each with what it may cost.
LEMMA LinesAreSpent ==
  ASSUME Money, setup.budget # None, NEW k, Ready(k), BudgetDecision(Lines(k)) = "ALLOW_NEW_WORK"
  PROVE  setup.budget.next + Committed(Spent(grants \cup k.actions)) < setup.budget.hard
<1> DEFINE lines == Lines(k)
           S == Spent(grants \cup k.actions)
           f == [a \in DOMAIN lines |-> Amount(lines[a])]
           g == [a \in S |-> Exposure(a)]
<1>1. /\ S = Spent(grants) \cup Spent(k.actions) /\ IsFiniteSet(S)
      /\ DOMAIN k.ledger.settlement \subseteq S
      /\ S \subseteq DOMAIN k.ledger.settlement \cup DOMAIN entries
  BY SpentUnion DEF Ready, Sound, InBudget, Covered
<1>2. DOMAIN entries \subseteq S
  BY <1>1 DEF Money, Entered
<1>3. DOMAIN lines = S
  BY <1>1, <1>2 DEF Lines, Open
<1>4. /\ ~(setup.budget.next + Total(f, DOMAIN lines) >= setup.budget.hard)
      /\ \A a \in DOMAIN lines : lines[a].provenance = "MEASURED"
  <2> HIDE DEF lines
  <2> QED
    BY DEF BudgetDecision, lines
<1>5. ASSUME NEW a \in S PROVE Amount(lines[a]) = Exposure(a)
  <2>1. CASE a \in DOMAIN entries
    <3>1. lines[a] = entries[a]
      BY <1>3, <2>1 DEF Lines
    <3>2. entries[a].reserved = 0 /\ entries[a].consumed \in Nat
      BY <2>1, SetupNumbers DEF Money, Entered
    <3> HIDE DEF lines
    <3> QED
      BY <2>1, <3>1, <3>2, NoneAssumption DEF Amount, Exposure
  <2>2. CASE a \notin DOMAIN entries
    <3>1. lines[a] = Unentered(Open(k)[a])
      BY <1>1, <1>3, <2>2 DEF Lines
    <3>2. lines[a].provenance = "MEASURED"
      BY <1>3, <1>4
    <3> HIDE DEF lines
    <3>3. lines[a].reserved = setup.budget.next /\ lines[a].consumed = 0
      BY <3>1, <3>2 DEF Unentered
    <3> QED
      BY <2>2, <3>3, SetupNumbers, NoneAssumption DEF Amount, Exposure
  <2> QED
    BY <2>1, <2>2
<1>6. \A a \in S : f[a] = g[a]
  BY <1>3, <1>5
<1>7. Committed(S) = Total(g, S)
  BY DEF Committed
<1> HIDE DEF lines, S, f, g
<1>8. Total(f, S) = Committed(S)
  BY <1>1, <1>6, <1>7, TotalSame
<1>9. Committed(S) \in Nat /\ setup.budget.next \in Nat /\ setup.budget.hard \in Nat
  BY <1>1, CommittedIsNat, SetupNumbers
<1>10. setup.budget.next + Committed(S) < setup.budget.hard
  BY <1>3, <1>4, <1>8, <1>9
<1> QED
  BY <1>10 DEF S

\* What a grant leaves in the ledger: one more dispatch and, if there is a budget, a reservation.
LEMMA GrantSound ==
  ASSUME Money, NEW k, Ready(k), NEW m, IsWork(m), NEW a, a.kind \in Spending, m.actions = k.actions \cup {a},
         m.ledger.used = k.ledger.used + 1, setup.limit = None \/ ~(k.ledger.used >= setup.limit),
         \/ setup.budget = None /\ DOMAIN m.ledger.settlement \subseteq DOMAIN k.ledger.settlement
         \/ /\ setup.budget # None /\ BudgetDecision(Lines(k)) = "ALLOW_NEW_WORK"
            /\ DOMAIN m.ledger.settlement = (DOMAIN k.ledger.settlement \ DOMAIN entries) \cup {a}
  PROVE  Sound(m)
<1> DEFINE S == Spent(grants \cup k.actions)
           T == Spent(grants \cup m.actions)
<1>1. T = S \cup {a}
  BY DEF Spent
<1>2. /\ IsFiniteSet(S) /\ Cardinality(S) <= k.ledger.used /\ k.ledger.used \in Nat
      /\ DOMAIN k.ledger.settlement \subseteq S
      /\ setup.budget # None => Covered(k.ledger, grants \cup k.actions)
  BY DEF Ready, Sound, InBudget
<1> HIDE DEF S, T
<1>3. IsFiniteSet(T) /\ Cardinality(T) <= m.ledger.used /\ m.ledger.used \in Nat
  <2>1. Cardinality(S) \in Nat
    BY <1>2, FS_CardinalityType
  <2>2. IsFiniteSet(T) /\ Cardinality(T) <= Cardinality(S) + 1
    <3>1. IsFiniteSet(T) /\ Cardinality(T) = IF a \in S THEN Cardinality(S) ELSE Cardinality(S) + 1
      BY <1>1, <1>2, FS_AddElement
    <3> QED
      BY <2>1, <3>1
  <2>3. Cardinality(T) \in Nat
    BY <2>2, FS_CardinalityType
  <2> QED
    BY <1>2, <2>1, <2>2, <2>3
<1>4. setup.limit # None => m.ledger.used <= setup.limit
  BY <1>2, SetupNumbers
<1>5. DOMAIN m.ledger.settlement \subseteq T
  BY <1>1, <1>2
<1>6. setup.budget # None => Covered(m.ledger, grants \cup m.actions)
  <2> SUFFICES ASSUME setup.budget # None PROVE Covered(m.ledger, grants \cup m.actions)
    OBVIOUS
  <2>1. S \subseteq DOMAIN k.ledger.settlement \cup DOMAIN entries
    BY <1>2 DEF Covered, S
  <2>2. DOMAIN entries \subseteq S
    BY SpentUnion DEF Money, Entered, S
  <2>3. setup.budget.next + Committed(S) < setup.budget.hard
    BY LinesAreSpent DEF S
  <2>4. Committed(T) <= setup.budget.next + Committed(S)
    BY <1>1, <1>2, <2>2, CommittedGrows
  <2>5. Committed(S) \in Nat /\ Committed(T) \in Nat /\ setup.budget.next \in Nat /\ setup.budget.hard \in Nat
    BY <1>2, <1>3, CommittedIsNat, SetupNumbers
  <2>6. Committed(T) < setup.budget.hard
    BY <2>3, <2>4, <2>5
  <2>7. T \subseteq DOMAIN m.ledger.settlement \cup DOMAIN entries
    BY <1>1, <2>1
  <2> QED
    BY <2>6, <2>7 DEF Covered, T
<1> QED
  BY <1>3, <1>4, <1>5, <1>6 DEF Sound, InBudget, T

\* reserve is the only way to spend.
LEMMA ReserveSound ==
  ASSUME Money, NEW k, Ready(k), NEW j, NEW kind \in Spending, NEW next
  PROVE  Sound(Reserve(k, j, kind, next))
<1> DEFINE read == [k EXCEPT !.ledger.settlement = Open(k)]
           made == Emit(read, j, kind, next)
           action == CHOOSE a \in made.actions : a.kind = kind
           settlement == [a \in DOMAIN made.ledger.settlement \cup {action} |->
                            IF a = action THEN FALSE ELSE made.ledger.settlement[a]]
           m == Reserve(k, j, kind, next)
           two == [made EXCEPT !.ledger.used = @ + 1, !.ledger.settlement = settlement]
           within == setup.limit = None \/ ~(k.ledger.used >= setup.limit)
<1>1. \/ \E reason : m = Manual(k, j, reason)
      \/ \E reason : m = Manual(read, j, reason)
      \/ within /\ setup.budget = None /\ m = [made EXCEPT !.ledger.used = @ + 1]
      \/ within /\ setup.budget # None /\ BudgetDecision(Lines(k)) = "ALLOW_NEW_WORK" /\ m = two
  BY DEF Reserve
<1>2. IsWork(k)
  BY DEF Ready, Sound
<1>3. /\ IsWork(read) /\ read.actions = k.actions /\ read.ledger.used = k.ledger.used
      /\ read.ledger.settlement = Open(k)
  BY <1>2 DEF IsWork, IsJob
<1>4. DOMAIN Open(k) = DOMAIN k.ledger.settlement \ DOMAIN entries
  BY DEF Open
<1> HIDE DEF read, m
<1>5. Spares(k, read)
  BY <1>3, <1>4 DEF Spares
<1>6. PICK a : /\ IsWork(made) /\ made.ledger = read.ledger /\ made.actions = k.actions \cup {a} /\ a.kind = kind
  <2>1. Emitted(read, made, j, kind, next)
    BY <1>3, EmitIs
  <2> QED
    BY <1>3, <2>1 DEF Emitted, Gives
<1>7. action = a
  <2>1. \A b \in k.actions : b.kind # kind
    BY DEF Ready, Spent
  <2>2. {b \in made.actions : b.kind = kind} = {a}
    BY <1>6, <2>1
  <2> HIDE DEF made
  <2> QED
    BY <2>2
<1> HIDE DEF made, action
<1>8. CASE \E reason : m = Manual(k, j, reason)
  BY <1>2, <1>8, ManualSpares, SparesSound DEF Ready, m
<1>9. CASE \E reason : m = Manual(read, j, reason)
  <2>1. Sound(read)
    BY <1>5, SparesSound DEF Ready
  <2> QED
    BY <1>3, <1>9, <2>1, ManualSpares, SparesSound DEF m
<1>10. CASE within /\ setup.budget = None /\ m = [made EXCEPT !.ledger.used = @ + 1]
  <2>1. /\ IsWork(m) /\ m.actions = made.actions /\ m.ledger.used = made.ledger.used + 1
        /\ m.ledger.settlement = made.ledger.settlement
    BY <1>6, <1>10 DEF IsWork
  <2>2. DOMAIN m.ledger.settlement \subseteq DOMAIN k.ledger.settlement
    BY <1>3, <1>4, <1>6, <2>1
  <2>3. Sound(m)
    BY <1>3, <1>6, <1>10, <2>1, <2>2, GrantSound
  <2> QED
    BY <2>3 DEF m
<1>11. CASE within /\ setup.budget # None /\ BudgetDecision(Lines(k)) = "ALLOW_NEW_WORK" /\ m = two
  <2>1. /\ IsWork(m) /\ m.actions = made.actions /\ m.ledger.used = made.ledger.used + 1
        /\ m.ledger.settlement = settlement
    <3> DEFINE u == [made EXCEPT !.ledger.used = @ + 1]
    <3>1. IsWork(u) /\ u.actions = made.actions /\ u.ledger.used = made.ledger.used + 1
      BY <1>6 DEF IsWork
    <3>2. m = [u EXCEPT !.ledger.settlement = settlement]
      BY <1>11
    <3> HIDE DEF u, settlement
    <3> QED
      BY <3>1, <3>2 DEF IsWork
  <2>2. DOMAIN m.ledger.settlement = (DOMAIN k.ledger.settlement \ DOMAIN entries) \cup {a}
    BY <1>3, <1>4, <1>6, <1>7, <2>1
  <2>3. Sound(m)
    BY <1>3, <1>6, <1>11, <2>1, <2>2, GrantSound
  <2> QED
    BY <2>3 DEF m
<1> QED
  BY <1>1, <1>8, <1>9, <1>10, <1>11 DEF m

\* Whoever reserves first may note something after that, or ask somebody to come in instead.
LEMMA RouteStartSound ==
  ASSUME Money, NEW k, Ready(k), NEW j, NEW successor
  PROVE  Sound(RouteStart(k, j, successor))
<1> DEFINE made == Reserve(k, j, "START_SESSION", k.job.generation + 1)
           running == [made EXCEPT !.job.state = "RUNNING"]
<1>1. \/ \E reason : RouteStart(k, j, successor) = Manual(k, j, reason)
      \/ RouteStart(k, j, successor) = made
      \/ RouteStart(k, j, successor) = running
  BY DEF RouteStart
<1>2. Sound(made)
  BY ReserveSound DEF Spending
<1> HIDE DEF made
<1>3. Sound(running)
  BY <1>2, NotesSpare, SparesSound DEF Sound
<1> HIDE DEF running
<1> QED
  BY <1>1, <1>2, <1>3, ManualSpares, SparesSound DEF Ready, Sound

LEMMA ResearchSound ==
  ASSUME Money, NEW k, Ready(k), NEW j
  PROVE  Sound(Research(k, j))
<1> DEFINE made == Reserve(k, j, "RESEARCH", None)
           done == [made EXCEPT !.job.researched = TRUE]
<1>1. \/ Research(k, j) = k
      \/ \E reason : Research(k, j) = Manual(k, j, reason)
      \/ Research(k, j) = made
      \/ Research(k, j) = done
  BY DEF Research
<1>2. Sound(made)
  BY ReserveSound DEF Spending
<1> HIDE DEF made
<1>3. Sound(done)
  BY <1>2, NotesSpare, SparesSound DEF Sound
<1> HIDE DEF done
<1> QED
  BY <1>1, <1>2, <1>3, ManualSpares, SparesSound DEF Ready, Sound

LEMMA ContinuedSpares ==
  ASSUME NEW k, IsWork(k), NEW s
  PROVE  Spares(k, Continued(k, s))
<1> DEFINE m == Continued(k, s)
           progress == IF s.progress = None THEN None ELSE s.progress.ref
           key == <<k.job.generation, k.job.checkpoint>>
           r == [state |-> "RUNNING", owner |-> k.job.owner, generation |-> k.job.generation,
                 checkpoint |-> k.job.checkpoint, pending |-> k.job.pending, resumed |-> key,
                 base |-> k.job.checkpoint, progress |-> progress, sequence |-> k.job.sequence,
                 notified |-> k.job.notified, researched |-> k.job.researched,
                 lifecycle |-> k.job.lifecycle, quiescent |-> k.job.quiescent]
<1>1. m = [k EXCEPT !.job.resumed = key, !.job.base = k.job.checkpoint, !.job.progress = progress,
                    !.job.state = "RUNNING"]
  BY DEF Continued
<1> HIDE DEF m, key, progress
<1>2. m = [job |-> r, ledger |-> k.ledger, actions |-> k.actions, failed |-> k.failed]
  BY <1>1 DEF IsWork, IsJob
<1>3. IsJob(r)
  BY DEF IsJob
<1> HIDE DEF r
<1>4. IsWork(m) /\ m.ledger = k.ledger /\ m.actions = k.actions
  BY <1>2, <1>3 DEF IsWork
<1> QED
  BY <1>4, SameSpares DEF m

LEMMA ResumeOrStartSound ==
  ASSUME Money, NEW k, Ready(k), NEW j, NEW s
  PROVE  Sound(ResumeOrStart(k, j, s))
<1> DEFINE made == Reserve(k, j, "RESUME_SESSION", None)
           ready == [k EXCEPT !.job.state = "READY"]
           m == ResumeOrStart(k, j, s)
<1>1. \/ m = RouteStart(k, j, FALSE)
      \/ \E reason : m = Manual(k, j, reason)
      \/ m = ready
      \/ m = made
      \/ m = Continued(made, s)
  BY DEF ResumeOrStart
<1>2. Sound(made)
  BY ReserveSound DEF Spending
<1> HIDE DEF made, m
<1>3. Sound(Continued(made, s))
  BY <1>2, ContinuedSpares, SparesSound DEF Sound
<1>4. Sound(ready)
  BY NotesSpare, SparesSound DEF Ready, Sound
<1> HIDE DEF ready
<1>5. ASSUME NEW reason PROVE Sound(Manual(k, j, reason))
  BY ManualSpares, SparesSound DEF Ready, Sound
<1>6. Sound(m)
  BY <1>1, <1>2, <1>3, <1>4, <1>5, RouteStartSound
<1> QED
  BY <1>6 DEF m

LEMMA RotateSound ==
  ASSUME Money, NEW k, Ready(k), NEW j, NEW s
  PROVE  Sound(Rotate(k, j, s))
<1> DEFINE handing == Emit(k, j, "PREPARE_HANDOFF", None)
           handed == [handing EXCEPT !.job.state = "RUNNING"]
           saving == Emit(k, j, "CHECKPOINT", None)
           saved == [saving EXCEPT !.job.lifecycle = s.lifecycle]
           l == SessionLifecycle(s.lifecycle)
           resumed == ResumeOrStart(k, j, s)
           m == Rotate(k, j, s)
<1>1. \/ m = RouteStart(k, j, TRUE)
      \/ \E reason : m = Manual(k, j, reason)
      \/ m = CASE l \in {"ROTATE_REQUIRED", "ROTATE_AT_BOUNDARY"} ->
                    IF "SUCCESSOR_SESSION" \notin setup.capability[j] THEN Manual(k, j, "MANUAL_SUCCESSOR_REQUIRED")
                    ELSE handed
               [] l = "CHECKPOINT" -> IF k.job.lifecycle = s.lifecycle THEN k ELSE saved
               [] OTHER -> resumed
  BY DEF Rotate
<1>2. Spares(k, handing) /\ Spares(k, saving)
  BY EmitSpares DEF Spending, Ready, Sound
<1> HIDE DEF handing, saving, resumed, l, m
<1>3. Spares(handing, handed) /\ Spares(saving, saved)
  BY <1>2, NotesSpare DEF Spares
<1> HIDE DEF handed, saved
<1>4. Sound(handed) /\ Sound(saved) /\ Sound(k)
  BY <1>2, <1>3, SparesSound DEF Ready
<1>5. Sound(resumed)
  BY ResumeOrStartSound DEF resumed
<1>6. ASSUME NEW reason PROVE Sound(Manual(k, j, reason))
  BY ManualSpares, SparesSound DEF Ready, Sound
<1>7. \/ m = RouteStart(k, j, TRUE)
      \/ \E reason : m = Manual(k, j, reason)
      \/ m = handed \/ m = k \/ m = saved \/ m = resumed
  <2>1. CASE l \in {"ROTATE_REQUIRED", "ROTATE_AT_BOUNDARY"}
    <3>1. l # "CHECKPOINT"
      BY <2>1
    <3> QED
      BY <1>1, <2>1, <3>1
  <2>2. CASE l = "CHECKPOINT"
    <3>1. l \notin {"ROTATE_REQUIRED", "ROTATE_AT_BOUNDARY"}
      BY <2>2
    <3> QED
      BY <1>1, <2>2, <3>1
  <2>3. CASE l \notin {"ROTATE_REQUIRED", "ROTATE_AT_BOUNDARY", "CHECKPOINT"}
    BY <1>1, <2>3
  <2> QED
    BY <2>1, <2>2, <2>3
<1>8. Sound(m)
  BY <1>4, <1>5, <1>6, <1>7, RouteStartSound
<1> QED
  BY <1>8 DEF m

LEMMA ContinueSound ==
  ASSUME Money, NEW k, Ready(k), NEW j, NEW e, NEW s
  PROVE  Sound(Continue(k, j, e, s))
<1> DEFINE m == Continue(k, j, e, s)
           completed == [k EXCEPT !.job.state = "COMPLETED"]
           observed == [k EXCEPT !.job.state = s.execution]
<1>1. \/ m = Notify(completed, j, "COMPLETED")
      \/ m = k
      \/ \E reason : m = Manual(k, j, reason)
      \/ m = observed
      \/ m = Research(k, j)
      \/ m = Rotate(k, j, s)
      \/ m = ResumeOrStart(k, j, s)
  BY DEF Continue
<1>2. Spares(k, completed) /\ Spares(k, observed)
  BY NotesSpare DEF Ready, Sound
<1> HIDE DEF completed, observed, m
<1>3. Sound(completed) /\ Sound(observed) /\ Sound(k)
  BY <1>2, SparesSound DEF Ready
<1>4. Sound(Notify(completed, j, "COMPLETED"))
  BY <1>3, NotifySpares, SparesSound DEF Sound
<1>5. ASSUME NEW reason PROVE Sound(Manual(k, j, reason))
  BY <1>3, ManualSpares, SparesSound DEF Sound
<1>6. Sound(m)
  BY <1>1, <1>3, <1>4, <1>5, ResearchSound, RotateSound, ResumeOrStartSound
<1> QED
  BY <1>6 DEF m

\* An acknowledgment spends nothing, and neither does what the job takes over from its snapshot.
LEMMA DoneSpares ==
  ASSUME NEW k, IsWork(k), NEW a
  PROVE  Spares(k, Done(k, a)) /\ Spares(k, Settled(k, a))
<1> DEFINE pending == k.job.pending \ {a}
           settlement == [k.ledger.settlement EXCEPT ![a] = TRUE]
           d == Done(k, a)
           n == [k EXCEPT !.ledger.settlement = settlement]
<1>1. d = [k EXCEPT !.job.pending = pending]
  BY DEF Done
<1>2. Settled(k, a) = k \/ Settled(k, a) = n
  BY DEF Settled
<1>3. DOMAIN settlement = DOMAIN k.ledger.settlement
  OBVIOUS
<1> HIDE DEF d, pending, settlement
<1>4. IsWork(d) /\ d.ledger = k.ledger /\ d.actions = k.actions
  BY <1>1 DEF IsWork, IsJob
<1>5. /\ IsWork(n) /\ n.ledger.used = k.ledger.used /\ n.actions = k.actions
      /\ n.ledger.settlement = settlement
  BY DEF IsWork, IsJob
<1> HIDE DEF n
<1>6. Spares(k, n)
  BY <1>3, <1>5 DEF Spares
<1>7. Spares(k, d)
  BY <1>4, SameSpares
<1> QED
  BY <1>2, <1>6, <1>7, NotesSpare DEF d

LEMMA StartedSpares ==
  ASSUME NEW k, IsWork(k), NEW a, NEW s
  PROVE  Spares(k, [Done(k, a) EXCEPT !.job.owner = s.owner, !.job.generation = a.next, !.job.quiescent = FALSE,
                                      !.job.resumed = <<a.next, s.checkpoint>>, !.job.base = s.checkpoint])
<1> DEFINE d == Done(k, a)
           key == <<a.next, s.checkpoint>>
           m == [d EXCEPT !.job.owner = s.owner, !.job.generation = a.next, !.job.quiescent = FALSE,
                          !.job.resumed = key, !.job.base = s.checkpoint]
           r == [state |-> d.job.state, owner |-> s.owner, generation |-> a.next, checkpoint |-> d.job.checkpoint,
                 pending |-> d.job.pending, resumed |-> key, base |-> s.checkpoint, progress |-> d.job.progress,
                 sequence |-> d.job.sequence, notified |-> d.job.notified, researched |-> d.job.researched,
                 lifecycle |-> d.job.lifecycle, quiescent |-> FALSE]
<1>1. Spares(k, d)
  BY DoneSpares
<1>2. m = [d EXCEPT !.job.owner = s.owner, !.job.generation = a.next, !.job.quiescent = FALSE,
                    !.job.resumed = key, !.job.base = s.checkpoint]
  OBVIOUS
<1> HIDE DEF d, key, m
<1>3. m = [job |-> r, ledger |-> d.ledger, actions |-> d.actions, failed |-> d.failed]
  BY <1>1, <1>2 DEF Spares, IsWork, IsJob
<1>4. IsJob(r)
  BY DEF IsJob
<1> HIDE DEF r
<1>5. IsWork(m) /\ m.ledger = d.ledger /\ m.actions = d.actions
  BY <1>1, <1>3, <1>4 DEF Spares, IsWork
<1>6. Spares(k, m)
  BY <1>1, <1>5, SameSpares, SparesTwice
<1> QED
  BY <1>6 DEF m, d, key

LEMMA HandedSpares ==
  ASSUME NEW k, IsWork(k), NEW a, NEW c
  PROVE  Spares(k, [Done(k, a) EXCEPT !.job.checkpoint = c, !.job.quiescent = TRUE])
<1> DEFINE d == Done(k, a)
           m == [d EXCEPT !.job.checkpoint = c, !.job.quiescent = TRUE]
           r == [state |-> d.job.state, owner |-> d.job.owner, generation |-> d.job.generation, checkpoint |-> c,
                 pending |-> d.job.pending, resumed |-> d.job.resumed, base |-> d.job.base,
                 progress |-> d.job.progress, sequence |-> d.job.sequence, notified |-> d.job.notified,
                 researched |-> d.job.researched, lifecycle |-> d.job.lifecycle, quiescent |-> TRUE]
<1>1. Spares(k, d)
  BY DoneSpares
<1>2. m = [d EXCEPT !.job.checkpoint = c, !.job.quiescent = TRUE]
  OBVIOUS
<1> HIDE DEF d, m
<1>3. m = [job |-> r, ledger |-> d.ledger, actions |-> d.actions, failed |-> d.failed]
  BY <1>1, <1>2 DEF Spares, IsWork, IsJob
<1>4. IsJob(r)
  BY DEF IsJob
<1> HIDE DEF r
<1>5. IsWork(m) /\ m.ledger = d.ledger /\ m.actions = d.actions
  BY <1>1, <1>3, <1>4 DEF Spares, IsWork
<1>6. Spares(k, m)
  BY <1>1, <1>5, SameSpares, SparesTwice
<1> QED
  BY <1>6 DEF m, d

LEMMA AcknowledgeSpares ==
  ASSUME NEW k, IsWork(k), NEW j, NEW s
  PROVE  Spares(k, Acknowledge(k, j, s))
<1> DEFINE a == s.ack.action
           m == Acknowledge(k, j, s)
           n == Settled(k, a)
           failed == [n EXCEPT !.failed = TRUE]
           mismatch == Manual(failed, j, "SUCCESSOR_ACK_MISMATCH")
           started == [Done(n, a) EXCEPT !.job.owner = s.owner, !.job.generation = a.next, !.job.quiescent = FALSE,
                                         !.job.resumed = <<a.next, s.checkpoint>>, !.job.base = s.checkpoint]
           handed == [Done(n, a) EXCEPT !.job.checkpoint = s.checkpoint, !.job.quiescent = TRUE]
<1>1. Spares(k, n) /\ IsWork(n)
  BY DoneSpares DEF Spares
<1> HIDE DEF n
<1>2. Spares(n, failed) /\ IsWork(failed)
  BY <1>1, NotesSpare DEF Spares
<1> HIDE DEF failed
<1>3. Spares(k, mismatch)
  BY <1>1, <1>2, ManualSpares, SparesTwice
<1>4. Spares(k, started) /\ Spares(k, handed) /\ Spares(k, Done(n, a))
  BY <1>1, StartedSpares, HandedSpares, DoneSpares, SparesTwice
<1>5. ASSUME NEW reason PROVE Spares(k, Manual(n, j, reason))
  BY <1>1, ManualSpares, SparesTwice
<1>6. Spares(k, k) /\ Spares(k, Done(k, a))
  BY NotesSpare, DoneSpares
<1>7. CASE s.ack = None \/ s.ack.action \notin k.job.pending
  BY <1>6, <1>7 DEF Acknowledge
<1>8. CASE ~(s.ack = None \/ s.ack.action \notin k.job.pending)
  <2>1. m = CASE a.kind = "NOTIFY" -> Done(k, a)
              [] a.kind # "NOTIFY" /\ s.ack.outcome = "NOT_STARTED" /\ s.operator -> Done(n, a)
              [] a.kind # "NOTIFY" /\ s.ack.outcome # "SUCCEEDED" /\ ~(s.ack.outcome = "NOT_STARTED" /\ s.operator) ->
                   Manual(n, j, s.ack.outcome)
              [] a.kind = "START_SESSION" /\ s.ack.outcome = "SUCCEEDED" ->
                   IF s.generation # a.next THEN mismatch ELSE started
              [] a.kind = "PREPARE_HANDOFF" /\ s.ack.outcome = "SUCCEEDED" ->
                   IF ~Quiescent(s) THEN Manual(n, j, "PREDECESSOR_NOT_QUIESCENT") ELSE handed
              [] OTHER -> Done(n, a)
    BY <1>8 DEF Acknowledge, n, failed
  <2> HIDE DEF m, mismatch, started, handed
  <2>2. CASE a.kind = "NOTIFY"
    BY <1>6, <2>1, <2>2 DEF m
  <2>3. CASE a.kind # "NOTIFY" /\ s.ack.outcome = "NOT_STARTED" /\ s.operator
    BY <1>4, <2>1, <2>3 DEF m
  <2>4. CASE a.kind # "NOTIFY" /\ s.ack.outcome # "SUCCEEDED" /\ ~(s.ack.outcome = "NOT_STARTED" /\ s.operator)
    BY <1>5, <2>1, <2>4 DEF m
  <2>5. CASE a.kind = "START_SESSION" /\ s.ack.outcome = "SUCCEEDED"
    BY <1>3, <1>4, <2>1, <2>5 DEF m
  <2>6. CASE a.kind = "PREPARE_HANDOFF" /\ s.ack.outcome = "SUCCEEDED"
    BY <1>4, <1>5, <2>1, <2>6 DEF m
  <2>7. CASE a.kind \notin {"NOTIFY", "START_SESSION", "PREPARE_HANDOFF"} /\ s.ack.outcome = "SUCCEEDED"
    BY <1>4, <2>1, <2>7 DEF m
  <2> QED
    BY <2>2, <2>3, <2>4, <2>5, <2>6, <2>7
<1> QED
  BY <1>7, <1>8

LEMMA AdoptSpares ==
  ASSUME NEW k, IsWork(k), NEW e, NEW s
  PROVE  Spares(k, Adopt(k, e, s))
<1> DEFINE given == [k EXCEPT !.job.owner = s.owner, !.job.generation = s.generation]
           owned == IF e = "REGISTER" /\ k.job.owner = None /\ s.owner # None THEN given ELSE k
           r == [state |-> k.job.state, owner |-> s.owner, generation |-> s.generation, checkpoint |-> k.job.checkpoint,
                 pending |-> k.job.pending, resumed |-> k.job.resumed, base |-> k.job.base,
                 progress |-> k.job.progress, sequence |-> k.job.sequence, notified |-> k.job.notified,
                 researched |-> k.job.researched, lifecycle |-> k.job.lifecycle, quiescent |-> k.job.quiescent]
<1>1. Adopt(k, e, s) = k \/ Adopt(k, e, s) = [owned EXCEPT !.job.checkpoint = s.checkpoint]
  BY DEF Adopt
<1>2. IsWork(given) /\ given.ledger = k.ledger /\ given.actions = k.actions
  <2>1. given = [k EXCEPT !.job.owner = s.owner, !.job.generation = s.generation]
    OBVIOUS
  <2> HIDE DEF given
  <2>2. given = [job |-> r, ledger |-> k.ledger, actions |-> k.actions, failed |-> k.failed]
    BY <2>1 DEF IsWork, IsJob
  <2>3. IsJob(r)
    BY DEF IsJob
  <2> HIDE DEF r
  <2> QED
    BY <2>2, <2>3 DEF IsWork
<1> HIDE DEF given
<1>3. Spares(k, owned) /\ IsWork(owned)
  BY <1>2, SameSpares, NotesSpare DEF Spares
<1> HIDE DEF owned
<1> QED
  BY <1>1, <1>3, NotesSpare, SparesTwice

LEMMA ObservedSound ==
  ASSUME Money, NEW k, Ready(k), NEW j, NEW e, NEW s
  PROVE  Sound(Observed(k, j, e, s))
<1> DEFINE acked == Acknowledge(k, j, s)
           seen == Adopt(acked, e, s)
           ready == [seen EXCEPT !.job.state = "READY"]
           resumed == [seen EXCEPT !.job.state = IF e = "RESUME" THEN "READY" ELSE @,
                                   !.job.checkpoint = IF e = "RESUME" THEN s.checkpoint ELSE @]
           late == IF TimedOut(resumed.job) THEN Manual(resumed, j, "ACTION_ACK_TIMEOUT") ELSE resumed
           m == Observed(k, j, e, s)
<1>1. \/ m = k
      \/ m = acked
      \/ \E reason : m = Manual(acked, j, reason)
      \/ \E reason : m = Manual(seen, j, reason)
      \/ m = late
      \/ m = Continue(late, j, e, s)
  BY DEF Observed
<1>2. Ready(acked) /\ IsWork(acked)
  BY AcknowledgeSpares, SparesSound DEF Ready, Sound
<1> HIDE DEF acked, m
<1>3. Ready(seen) /\ IsWork(seen)
  BY <1>2, AdoptSpares, SparesSound DEF Ready, Sound
<1> HIDE DEF seen
<1>4. Ready(resumed) /\ IsWork(resumed)
  <2>1. CASE e = "RESUME"
    <3>1. resumed = [ready EXCEPT !.job.checkpoint = s.checkpoint]
      BY <1>3, <2>1 DEF IsWork, IsJob
    <3>2. Spares(seen, ready) /\ IsWork(ready)
      BY <1>3, NotesSpare DEF Spares
    <3> HIDE DEF ready, resumed
    <3>3. Spares(ready, resumed)
      BY <3>1, <3>2, NotesSpare
    <3> QED
      BY <1>3, <3>2, <3>3, SparesSound DEF Spares
  <2>2. CASE e # "RESUME"
    <3>1. resumed = seen
      BY <1>3, <2>2 DEF IsWork, IsJob
    <3> QED
      BY <1>3, <3>1
  <2> QED
    BY <2>1, <2>2
<1> HIDE DEF resumed
<1>5. Ready(late)
  BY <1>4, ManualSpares, SparesSound
<1> HIDE DEF late
<1>6. Sound(Continue(late, j, e, s))
  BY <1>5, ContinueSound
<1>7. ASSUME NEW reason PROVE Sound(Manual(acked, j, reason)) /\ Sound(Manual(seen, j, reason))
  BY <1>2, <1>3, ManualSpares, SparesSound DEF Ready
<1>8. Sound(m)
  BY <1>1, <1>2, <1>5, <1>6, <1>7 DEF Ready
<1> QED
  BY <1>8 DEF m

LEMMA HandleSound ==
  ASSUME Money, NEW k, Ready(k), NEW j, NEW e
  PROVE  Sound(Handle(k, j, e))
<1> DEFINE status == Emit(k, j, "CHECK_STATUS", None)
           paused == [k EXCEPT !.job.state = "PAUSED"]
           cancelled == [k EXCEPT !.job.state = "CANCELLED"]
           observed == Observed(k, j, e, snapshot[j])
           m == Handle(k, j, e)
<1>1. \/ m = k
      \/ m = status
      \/ m = paused
      \/ m = cancelled
      \/ \E reason : m = Manual(k, j, reason)
      \/ m = observed
  <2>1. m = CASE e = "STATUS" -> IF k.job.pending = {} /\ k.job.state \notin Stopped THEN status ELSE k
              [] e = "PAUSE" -> paused
              [] e = "CANCEL" -> cancelled
              [] e \notin {"STATUS", "PAUSE", "CANCEL"} ->
                   IF \/ k.job.state \in {"COMPLETED", "CANCELLED"}
                      \/ e = "HEARTBEAT" /\ k.job.state \in {"PAUSED", "NEEDS_INPUT"}
                   THEN k
                   ELSE IF Exhausted(e) THEN Manual(k, j, BudgetDecision(entries))
                   ELSE IF ~Readable(snapshot[j]) THEN Manual(k, j, "CLIENT_CONTROL_UNAVAILABLE")
                   ELSE observed
    BY DEF Handle
  <2> HIDE DEF m, status, paused, cancelled, observed
  <2>2. CASE e = "STATUS"
    BY <2>1, <2>2
  <2>3. CASE e = "PAUSE"
    BY <2>1, <2>3
  <2>4. CASE e = "CANCEL"
    BY <2>1, <2>4
  <2>5. CASE e \notin {"STATUS", "PAUSE", "CANCEL"}
    BY <2>1, <2>5
  <2> QED
    BY <2>2, <2>3, <2>4, <2>5
<1>2. Sound(k) /\ IsWork(k)
  BY DEF Ready, Sound
<1>3. Sound(status)
  BY <1>2, EmitSpares, SparesSound DEF Spending
<1>4. Spares(k, paused) /\ Spares(k, cancelled)
  BY <1>2, NotesSpare
<1> HIDE DEF status, paused, cancelled, m
<1>5. Sound(paused) /\ Sound(cancelled)
  BY <1>2, <1>4, SparesSound
<1>6. Sound(observed)
  BY ObservedSound
<1> HIDE DEF observed
<1>7. ASSUME NEW reason PROVE Sound(Manual(k, j, reason))
  BY <1>2, ManualSpares, SparesSound
<1>8. Sound(m)
  BY <1>1, <1>2, <1>3, <1>5, <1>6, <1>7
<1> QED
  BY <1>8 DEF m

-----------------------------------------------------------------------------
(* The host and the snapshots.                                             *)

IsHost(h) ==
  h = [live |-> h.live, generation |-> h.generation, execution |-> h.execution, checkpoint |-> h.checkpoint,
       base |-> h.base, performed |-> h.performed, refused |-> h.refused]

\* Starts that have a predecessor.
Successors(actions) == \A a \in actions : a.kind = "START_SESSION" => a.owner # None

HostInv(j) ==
  /\ IsHost(host[j])
  /\ host[j].generation \in Nat /\ host[j].checkpoint \in Nat
  /\ host[j].live \subseteq {host[j].generation, setup.session[j]}
  /\ host[j].generation = 0 => host[j].live \subseteq {setup.session[j]}
  /\ Successors(host[j].performed) => host[j].live \subseteq {host[j].generation}
  /\ host[j].performed \cap host[j].refused = {}
  /\ \A a \in host[j].performed \cup host[j].refused : a \in grants /\ a.job = j

\* A snapshot was true, and the host has not gone back since.
Truthful(s, j) ==
  /\ s.generation \in Nat /\ s.generation <= host[j].generation
  /\ s.checkpoint \in Nat /\ s.checkpoint <= host[j].checkpoint
  /\ s.generation # 0 => s.owner = s.generation
  /\ s.generation = 0 => s.owner \in {None, 0}
  /\ s.retired /\ s.generation = host[j].generation => ~Alive(j)
  /\ s.lifecycle # None => s.owner # None
  /\ s.ack # None => /\ s.ack.outcome = "SUCCEEDED" => s.ack.action \in host[j].performed
                     /\ s.ack.outcome = "NOT_STARTED" => s.ack.action \in host[j].refused

-----------------------------------------------------------------------------
(* What continuations and sessions rest on. An event works on k, so this   *)
(* is stated of k; between events k is what was saved.                     *)

Mine(k, j) == {a \in grants \cup k.actions : a.job = j}
Pair == Nat \X Nat

\* What was granted is of the job, and at most one action is waited for.
Granting(k, j) ==
  /\ \A a \in k.actions : a.job = j
  /\ k.job.pending \subseteq Mine(k, j)
  /\ \A a, b \in k.job.pending : a.kind # "NOTIFY" /\ b.kind # "NOTIFY" => a = b

\* The host is never behind the job, and a job without an owner has nothing behind it.
Owning(k, j) ==
  /\ k.job.generation \in Nat /\ k.job.generation <= host[j].generation
  /\ k.job.owner = None => k.job.generation = 0 /\ k.job.resumed = None /\ ~k.job.quiescent
  /\ \A a \in k.job.pending : a.kind = "PREPARE_HANDOFF" => k.job.owner # None
  /\ k.job.quiescent /\ k.job.generation = host[j].generation => ~Alive(j)

\* The last continuation is the latest of all.
Continuing(k, j) ==
  /\ k.job.resumed # None =>
       /\ k.job.resumed \in Pair /\ k.job.resumed[1] <= k.job.generation
       /\ Truthful(snapshot[j], j) /\ k.job.resumed[2] <= snapshot[j].checkpoint
  /\ \A a \in Mine(k, j) : a.kind = "RESUME_SESSION" =>
       /\ a.generation \in Nat /\ a.checkpoint \in Nat /\ k.job.resumed # None
       /\ \/ a.generation < k.job.resumed[1]
          \/ a.generation = k.job.resumed[1] /\ a.checkpoint <= k.job.resumed[2]
  /\ \A a, b \in Mine(k, j) :
       a.kind = "RESUME_SESSION" /\ b.kind = "RESUME_SESSION" /\ a.generation = b.generation
         /\ a.checkpoint = b.checkpoint => a = b

\* A start that can still be carried out finds no session, and none is forgotten.
Unused(a) == a \notin host[a.job].performed /\ a \notin host[a.job].refused

Starting(k, j) ==
  \A a \in Mine(k, j) : a.kind = "START_SESSION" =>
    /\ a.generation \in Nat /\ a.next = a.generation + 1 /\ a.generation <= host[j].generation
    /\ a.owner = None => a.generation = 0
    /\ a \in k.job.pending => k.job.generation <= a.next
    /\ Unused(a) => a \in k.job.pending
    /\ Unused(a) /\ a.owner # None /\ a.generation = host[j].generation => ~Alive(j)

Good(k, j) == IsWork(k) /\ Granting(k, j) /\ Owning(k, j) /\ Continuing(k, j) /\ Starting(k, j)

Saved(j) == [job |-> job[j], ledger |-> ledger, actions |-> {}, failed |-> FALSE]

IInv ==
  /\ DOMAIN job \subseteq Job /\ DOMAIN host = Job /\ DOMAIN snapshot = Job
  /\ ledger = [used |-> ledger.used, settlement |-> ledger.settlement] /\ ledger.used \in Int
  /\ \A a \in grants : a.job \in DOMAIN job
  /\ \A j \in Job : HostInv(j) /\ (snapshot[j] = None \/ Truthful(snapshot[j], j))
  /\ \A j \in DOMAIN job : Good(Saved(j), j)

-----------------------------------------------------------------------------
(* What an event may do with a job that is good.                           *)

\* Telling leaves a job good.
LEMMA ToldGood ==
  ASSUME NEW k, NEW m, NEW j, Good(k, j), Told(k, m, j)
  PROVE  Good(m, j)
<1>1. PICK N : /\ m.actions = k.actions \cup N /\ m.job.pending = k.job.pending \cup N
               /\ \A a \in N : a.job = j /\ a.kind = "NOTIFY"
  BY DEF Told
<1>2. Mine(m, j) = Mine(k, j) \cup N
  BY <1>1 DEF Mine
<1>3. IsWork(m) /\ SameJob(k, m)
  BY DEF Told
<1>4. Granting(m, j)
  BY <1>1, <1>2 DEF Good, Granting
<1>5. Owning(m, j)
  BY <1>1, <1>3 DEF Good, Owning, SameJob
<1>6. Continuing(m, j)
  BY <1>1, <1>2, <1>3 DEF Good, Continuing, SameJob
<1>7. Starting(m, j)
  BY <1>1, <1>2, <1>3 DEF Good, Starting, SameJob
<1> QED
  BY <1>3, <1>4, <1>5, <1>6, <1>7 DEF Good

\* An action is granted that is no continuation.
Adds(k, m, j, kind, next) ==
  /\ IsWork(m) /\ SameJob(k, m)
  /\ \E a : /\ m.actions = k.actions \cup {a} /\ m.job.pending = k.job.pending \cup {a}
            /\ Gives(k, a, j, kind, next)

\* So does granting an action that is no continuation, if nothing is waited for.
LEMMA AddsGood ==
  ASSUME NEW k, NEW m, NEW j, NEW kind, NEW next, HostInv(j), Good(k, j), Adds(k, m, j, kind, next),
         ~Active(k.job), kind # "RESUME_SESSION",
         kind = "PREPARE_HANDOFF" => k.job.owner # None,
         kind = "START_SESSION" => next = k.job.generation + 1 /\ (k.job.owner = None \/ k.job.quiescent)
  PROVE  Good(m, j)
<1>1. PICK a : /\ m.actions = k.actions \cup {a} /\ m.job.pending = k.job.pending \cup {a}
               /\ Gives(k, a, j, kind, next)
  BY DEF Adds
<1>2. Mine(m, j) = Mine(k, j) \cup {a}
  BY <1>1 DEF Mine, Gives
<1>3. IsWork(m) /\ SameJob(k, m) /\ \A b \in k.job.pending : b.kind = "NOTIFY"
  BY DEF Adds, Active
<1>4. Granting(m, j)
  BY <1>1, <1>2, <1>3 DEF Good, Granting, Gives
<1>5. Owning(m, j)
  BY <1>1, <1>3 DEF Good, Owning, SameJob, Gives
<1>6. Continuing(m, j)
  BY <1>1, <1>2, <1>3 DEF Good, Continuing, SameJob, Gives
<1>7. Starting(m, j)
  <2>1. ASSUME NEW b \in Mine(k, j), b.kind = "START_SESSION", b # a
        PROVE  /\ b.generation \in Nat /\ b.next = b.generation + 1 /\ b.generation <= host[j].generation
               /\ b.owner = None => b.generation = 0
               /\ b \in m.job.pending => m.job.generation <= b.next
               /\ Unused(b) => b \in m.job.pending
               /\ Unused(b) /\ b.owner # None /\ b.generation = host[j].generation => ~Alive(j)
    BY <1>1, <1>3, <2>1 DEF Good, Starting, SameJob
  <2>2. ASSUME a.kind = "START_SESSION"
        PROVE  /\ a.generation \in Nat /\ a.next = a.generation + 1 /\ a.generation <= host[j].generation
               /\ a.owner = None => a.generation = 0
               /\ a \in m.job.pending => m.job.generation <= a.next
               /\ Unused(a) => a \in m.job.pending
               /\ Unused(a) /\ a.owner # None /\ a.generation = host[j].generation => ~Alive(j)
    BY <1>1, <1>3, <2>2 DEF Good, Owning, SameJob, Gives, HostInv
  <2> QED
    BY <1>2, <2>1, <2>2 DEF Starting
<1> QED
  BY <1>3, <1>4, <1>5, <1>6, <1>7 DEF Good

\* So do notes.
LEMMA NotedGood ==
  ASSUME NEW k, NEW m, NEW j, Good(k, j), Noted(k, m)
  PROVE  Good(m, j)
BY NotedIsTold, ToldGood DEF Good

\* So does asking for somebody.
LEMMA ManualGood ==
  ASSUME NEW k, NEW j, NEW reason, Good(k, j)
  PROVE  Good(Manual(k, j, reason), j)
BY ManualTells, ToldGood DEF Good

\* An action that costs nothing.
LEMMA EmitGood ==
  ASSUME NEW k, NEW j, NEW kind, HostInv(j), Good(k, j), ~Active(k.job),
         kind \notin {"RESUME_SESSION", "START_SESSION"}, kind = "PREPARE_HANDOFF" => k.job.owner # None
  PROVE  Good(Emit(k, j, kind, None), j)
<1>1. Adds(k, Emit(k, j, kind, None), j, kind, None)
  BY EmitIs DEF Good, Emitted, Adds
<1> QED
  BY <1>1, AddsGood

\* A grant that was made is no continuation, or nothing was granted.
LEMMA ReserveGood ==
  ASSUME NEW k, NEW j, NEW kind, NEW next, HostInv(j), Good(k, j), ~Active(k.job),
         kind \notin {"RESUME_SESSION", "PREPARE_HANDOFF"},
         kind = "START_SESSION" => next = k.job.generation + 1 /\ (k.job.owner = None \/ k.job.quiescent)
  PROVE  Good(Reserve(k, j, kind, next), j)
<1> DEFINE m == Reserve(k, j, kind, next)
<1>1. Reserved(k, m, j, kind, next)
  BY ReserveGives DEF Good
<1> HIDE DEF m
<1>2. Told(k, m, j) => Good(m, j)
  BY ToldGood
<1>3. Gave(k, m, j, kind, next) => Adds(k, m, j, kind, next)
  BY DEF Gave, Adds
<1>4. Adds(k, m, j, kind, next) => Good(m, j)
  BY AddsGood
<1>5. Good(m, j)
  BY <1>1, <1>2, <1>3, <1>4 DEF Reserved
<1> QED
  BY <1>5 DEF m

\* A start: the job has no owner, or its owner has handed over.
LEMMA RouteStartGood ==
  ASSUME NEW k, NEW j, NEW successor, HostInv(j), Good(k, j), ~Active(k.job),
         k.job.owner = None \/ k.job.quiescent
  PROVE  Good(RouteStart(k, j, successor), j)
<1> DEFINE made == Reserve(k, j, "START_SESSION", k.job.generation + 1)
           running == [made EXCEPT !.job.state = "RUNNING"]
<1>1. \/ \E reason : RouteStart(k, j, successor) = Manual(k, j, reason)
      \/ RouteStart(k, j, successor) = made
      \/ RouteStart(k, j, successor) = running
  BY DEF RouteStart
<1>2. Good(made, j)
  BY ReserveGood
<1> HIDE DEF made
<1>3. Good(running, j)
  <2>1. Noted(made, running)
    BY <1>2, NotesAreNoted DEF Good
  <2> QED
    BY <1>2, <2>1, NotedGood
<1> HIDE DEF running
<1> QED
  BY <1>1, <1>2, <1>3, ManualGood

\* A search for another source.
LEMMA ResearchGood ==
  ASSUME NEW k, NEW j, HostInv(j), Good(k, j), ~Active(k.job)
  PROVE  Good(Research(k, j), j)
<1> DEFINE made == Reserve(k, j, "RESEARCH", None)
           done == [made EXCEPT !.job.researched = TRUE]
<1>1. \/ Research(k, j) = k
      \/ \E reason : Research(k, j) = Manual(k, j, reason)
      \/ Research(k, j) = made
      \/ Research(k, j) = done
  BY DEF Research
<1>2. Good(made, j)
  BY ReserveGood
<1> HIDE DEF made
<1>3. Good(done, j)
  <2>1. Noted(made, done)
    BY <1>2, NotesAreNoted DEF Good
  <2> QED
    BY <1>2, <2>1, NotedGood
<1> HIDE DEF done
<1> QED
  BY <1>1, <1>2, <1>3, ManualGood

\* The continuation itself: the snapshot is not older than the one of the last continuation, so
\* another pair of generation and checkpoint is a later one.
LEMMA ContinuedGood ==
  ASSUME NEW k, NEW made, NEW j, HostInv(j), Good(k, j), Gave(k, made, j, "RESUME_SESSION", None),
         ~Active(k.job), k.job.owner # None, Truthful(snapshot[j], j),
         k.job.checkpoint = snapshot[j].checkpoint,
         k.job.resumed # <<k.job.generation, k.job.checkpoint>>
  PROVE  Good(Continued(made, snapshot[j]), j)
<1> DEFINE m == Continued(made, snapshot[j])
           progress == IF snapshot[j].progress = None THEN None ELSE snapshot[j].progress.ref
           key == <<made.job.generation, made.job.checkpoint>>
<1>1. IsWork(made) /\ SameJob(k, made)
  BY DEF Gave
<1>2. /\ IsWork(m) /\ m.job.owner = k.job.owner /\ m.job.generation = k.job.generation
      /\ m.job.quiescent = k.job.quiescent
      /\ m.job.pending = made.job.pending /\ m.actions = made.actions
      /\ m.job.resumed = <<k.job.generation, k.job.checkpoint>>
  <2> DEFINE r == [state |-> "RUNNING", owner |-> made.job.owner, generation |-> made.job.generation,
                   checkpoint |-> made.job.checkpoint, pending |-> made.job.pending, resumed |-> key,
                   base |-> made.job.checkpoint, progress |-> progress, sequence |-> made.job.sequence,
                   notified |-> made.job.notified, researched |-> made.job.researched,
                   lifecycle |-> made.job.lifecycle, quiescent |-> made.job.quiescent]
  <2>1. m = [made EXCEPT !.job.resumed = key, !.job.base = made.job.checkpoint, !.job.progress = progress,
                         !.job.state = "RUNNING"]
    BY DEF Continued
  <2> HIDE DEF m, key, progress
  <2>2. m = [job |-> r, ledger |-> made.ledger, actions |-> made.actions, failed |-> made.failed]
    BY <1>1, <2>1 DEF IsWork, IsJob
  <2>3. /\ IsJob(r) /\ r.owner = made.job.owner /\ r.generation = made.job.generation
        /\ r.quiescent = made.job.quiescent /\ r.pending = made.job.pending /\ r.resumed = key
    BY DEF IsJob
  <2> HIDE DEF r
  <2>4. IsWork(m) /\ m.job = r /\ m.actions = made.actions
    BY <1>1, <2>2, <2>3 DEF IsWork
  <2> QED
    BY <1>1, <2>3, <2>4 DEF SameJob, key
<1> HIDE DEF m
<1>3. PICK a : /\ m.actions = k.actions \cup {a} /\ m.job.pending = k.job.pending \cup {a}
               /\ Gives(k, a, j, "RESUME_SESSION", None)
  BY <1>2 DEF Gave
<1>4. Mine(m, j) = Mine(k, j) \cup {a}
  BY <1>3 DEF Mine, Gives
<1>5. \A b \in k.job.pending : b.kind = "NOTIFY"
  BY DEF Active
<1>6. Granting(m, j)
  BY <1>3, <1>4, <1>5 DEF Good, Granting, Gives
<1>7. Owning(m, j)
  BY <1>2, <1>3 DEF Good, Owning, Gives
<1>8. Starting(m, j)
  BY <1>2, <1>3, <1>4 DEF Good, Starting, Gives
<1>9. Continuing(m, j)
  <2> DEFINE g == k.job.generation
             c == k.job.checkpoint
  <2>1. g \in Nat /\ c \in Nat /\ m.job.resumed = <<g, c>> /\ <<g, c>> \in Pair /\ <<g, c>> # None
    BY <1>2, NoneAssumption DEF Good, Owning, Truthful, Pair
  <2>2. a.kind = "RESUME_SESSION" /\ a.generation = g /\ a.checkpoint = c
    BY <1>3 DEF Gives
  <2>3. ASSUME NEW b \in Mine(k, j), b.kind = "RESUME_SESSION"
        PROVE  /\ b.generation \in Nat /\ b.checkpoint \in Nat
               /\ b.generation < g \/ (b.generation = g /\ b.checkpoint < c)
    <3> DEFINE h == k.job.resumed[1]
               d == k.job.resumed[2]
    <3>1. /\ b.generation \in Nat /\ b.checkpoint \in Nat /\ k.job.resumed \in Pair /\ h <= g /\ d <= c
          /\ b.generation < h \/ (b.generation = h /\ b.checkpoint <= d)
      BY <2>3 DEF Good, Continuing
    <3>2. h \in Nat /\ d \in Nat /\ k.job.resumed = <<h, d>>
      BY <3>1 DEF Pair
    <3>3. h # g \/ d # c
      BY <3>2
    <3> HIDE DEF g, c, h, d
    <3> QED
      BY <2>1, <3>1, <3>2, <3>3
  <2> HIDE DEF g, c
  <2>4. ASSUME NEW b \in Mine(m, j), b.kind = "RESUME_SESSION"
        PROVE  /\ b.generation \in Nat /\ b.checkpoint \in Nat
               /\ b.generation < g \/ (b.generation = g /\ b.checkpoint <= c)
               /\ b # a => b \in Mine(k, j) /\ (b.generation < g \/ (b.generation = g /\ b.checkpoint < c))
    BY <1>4, <2>1, <2>2, <2>3, <2>4
  <2>5. \A x, y \in Mine(m, j) :
          x.kind = "RESUME_SESSION" /\ y.kind = "RESUME_SESSION" /\ x.generation = y.generation
            /\ x.checkpoint = y.checkpoint => x = y
    BY <2>1, <2>2, <2>4 DEF Good, Continuing
  <2>6. m.job.resumed[1] <= m.job.generation /\ m.job.resumed[2] <= snapshot[j].checkpoint
    BY <1>2, <2>1 DEF g, c, Truthful
  <2>7. m.job.resumed[1] = g /\ m.job.resumed[2] = c
    BY <2>1
  <2> QED
    BY <2>1, <2>4, <2>5, <2>6, <2>7 DEF Continuing
<1> QED
  BY <1>2, <1>6, <1>7, <1>8, <1>9 DEF Good, m

\* A continuation only at another checkpoint, and of the owner.
LEMMA ResumeOrStartGood ==
  ASSUME NEW k, NEW j, HostInv(j), Good(k, j), ~Active(k.job),
         Truthful(snapshot[j], j), k.job.checkpoint = snapshot[j].checkpoint
  PROVE  Good(ResumeOrStart(k, j, snapshot[j]), j)
<1> DEFINE key == <<k.job.generation, k.job.checkpoint>>
           made == Reserve(k, j, "RESUME_SESSION", None)
           ready == [k EXCEPT !.job.state = "READY"]
           m == ResumeOrStart(k, j, snapshot[j])
<1>1. \/ k.job.owner = None /\ m = RouteStart(k, j, FALSE)
      \/ \E reason : m = Manual(k, j, reason)
      \/ m = ready
      \/ ~Granted(made, k) /\ m = made
      \/ k.job.owner # None /\ k.job.resumed # key /\ Granted(made, k) /\ m = Continued(made, snapshot[j])
  BY DEF ResumeOrStart
<1>2. Reserved(k, made, j, "RESUME_SESSION", None)
  BY ReserveGives DEF Good
<1>3. Noted(k, ready)
  BY NotesAreNoted DEF Good
<1> HIDE DEF made, ready, m
<1>4. Good(ready, j)
  BY <1>3, NotedGood
<1>5. ~Granted(made, k) => Good(made, j)
  BY <1>2, ToldGood DEF Reserved
<1>6. Granted(made, k) => Gave(k, made, j, "RESUME_SESSION", None)
  BY <1>2 DEF Reserved
<1>7. Granted(made, k) /\ k.job.owner # None /\ k.job.resumed # key => Good(Continued(made, snapshot[j]), j)
  BY <1>6, ContinuedGood
<1>8. k.job.owner = None => Good(RouteStart(k, j, FALSE), j)
  BY RouteStartGood
<1>9. Good(m, j)
  BY <1>1, <1>4, <1>5, <1>7, <1>8, ManualGood
<1> QED
  BY <1>9 DEF m

\* The end of a session: only an owner can be asked to hand over.
LEMMA RotateGood ==
  ASSUME NEW k, NEW j, HostInv(j), Good(k, j), ~Active(k.job),
         Truthful(snapshot[j], j), k.job.checkpoint = snapshot[j].checkpoint
  PROVE  Good(Rotate(k, j, snapshot[j]), j)
<1> DEFINE handing == Emit(k, j, "PREPARE_HANDOFF", None)
           handed == [handing EXCEPT !.job.state = "RUNNING"]
           saving == Emit(k, j, "CHECKPOINT", None)
           saved == [saving EXCEPT !.job.lifecycle = snapshot[j].lifecycle]
           m == Rotate(k, j, snapshot[j])
<1>1. \/ k.job.quiescent /\ m = RouteStart(k, j, TRUE)
      \/ \E reason : m = Manual(k, j, reason)
      \/ k.job.owner # None /\ m = handed
      \/ m = k
      \/ m = saved
      \/ m = ResumeOrStart(k, j, snapshot[j])
  <2>1. CASE k.job.quiescent
    BY <2>1 DEF Rotate
  <2>2. CASE ~k.job.quiescent /\ snapshot[j].lifecycle = None
    BY <2>2 DEF Rotate
  <2>3. CASE ~k.job.quiescent /\ snapshot[j].lifecycle # None
    <3> DEFINE l == SessionLifecycle(snapshot[j].lifecycle)
    <3> SUFFICES ASSUME snapshot[j].owner = k.job.owner
                 PROVE  \/ \E reason : m = Manual(k, j, reason)
                        \/ k.job.owner # None /\ m = handed
                        \/ m = k
                        \/ m = saved
                        \/ m = ResumeOrStart(k, j, snapshot[j])
      BY <2>3 DEF Rotate
    <3>5. k.job.owner # None
      BY <2>3 DEF Truthful
    <3>1. m = CASE l \in {"ROTATE_REQUIRED", "ROTATE_AT_BOUNDARY"} ->
                     IF "SUCCESSOR_SESSION" \notin setup.capability[j] THEN Manual(k, j, "MANUAL_SUCCESSOR_REQUIRED")
                     ELSE handed
                [] l = "CHECKPOINT" -> IF k.job.lifecycle = snapshot[j].lifecycle THEN k ELSE saved
                [] OTHER -> ResumeOrStart(k, j, snapshot[j])
      BY <2>3 DEF Rotate
    <3> HIDE DEF l, m, handed, saved
    <3>2. CASE l \in {"ROTATE_REQUIRED", "ROTATE_AT_BOUNDARY"}
      <4>1. l # "CHECKPOINT"
        BY <3>2
      <4> QED
        BY <3>1, <3>2, <3>5, <4>1
    <3>3. CASE l = "CHECKPOINT"
      <4>1. l \notin {"ROTATE_REQUIRED", "ROTATE_AT_BOUNDARY"}
        BY <3>3
      <4> QED
        BY <3>1, <3>3, <4>1
    <3>4. CASE l \notin {"ROTATE_REQUIRED", "ROTATE_AT_BOUNDARY", "CHECKPOINT"}
      BY <3>1, <3>4
    <3> QED
      BY <3>2, <3>3, <3>4
  <2> QED
    BY <2>1, <2>2, <2>3
<1>2. k.job.owner # None => Good(handing, j)
  BY EmitGood
<1>3. Good(saving, j)
  BY EmitGood
<1> HIDE DEF handing, saving, m
<1>4. k.job.owner # None => Good(handed, j)
  <2>1. Good(handing, j) => Noted(handing, handed)
    BY NotesAreNoted DEF Good
  <2> HIDE DEF handed
  <2> QED
    BY <1>2, <2>1, NotedGood
<1>5. Good(saved, j)
  <2>1. Noted(saving, saved)
    BY <1>3, NotesAreNoted DEF Good
  <2> HIDE DEF saved
  <2> QED
    BY <1>3, <2>1, NotedGood
<1> HIDE DEF handed, saved
<1>6. k.job.quiescent => Good(RouteStart(k, j, TRUE), j)
  BY RouteStartGood
<1>7. Good(ResumeOrStart(k, j, snapshot[j]), j)
  BY ResumeOrStartGood
<1>8. Good(m, j)
  BY <1>1, <1>4, <1>5, <1>6, <1>7, ManualGood
<1> QED
  BY <1>8 DEF m

\* All that a snapshot can lead to when nothing is waited for.
LEMMA ContinueGood ==
  ASSUME NEW k, NEW j, NEW e, HostInv(j), Good(k, j), ~Active(k.job), Truthful(snapshot[j], j),
         k.job.state # "NEEDS_INPUT" => k.job.checkpoint = snapshot[j].checkpoint
  PROVE  Good(Continue(k, j, e, snapshot[j]), j)
<1> DEFINE m == Continue(k, j, e, snapshot[j])
           completed == [k EXCEPT !.job.state = "COMPLETED"]
           observed == [k EXCEPT !.job.state = snapshot[j].execution]
<1>1. \/ m = Notify(completed, j, "COMPLETED")
      \/ m = k
      \/ \E reason : m = Manual(k, j, reason)
      \/ m = observed
      \/ m = Research(k, j)
      \/ k.job.state # "NEEDS_INPUT" /\ m = Rotate(k, j, snapshot[j])
      \/ k.job.state # "NEEDS_INPUT" /\ m = ResumeOrStart(k, j, snapshot[j])
  BY DEF Continue
<1>2. Noted(k, completed) /\ Noted(k, observed)
  BY NotesAreNoted DEF Good
<1> HIDE DEF completed, observed, m
<1>3. Good(completed, j) /\ Good(observed, j)
  BY <1>2, NotedGood
<1>4. Good(Notify(completed, j, "COMPLETED"), j)
  BY <1>3, NotifyTells, ToldGood DEF Good
<1>5. Good(Research(k, j), j)
  BY ResearchGood
<1>6. k.job.state # "NEEDS_INPUT" => /\ Good(Rotate(k, j, snapshot[j]), j)
                                     /\ Good(ResumeOrStart(k, j, snapshot[j]), j)
  BY RotateGood, ResumeOrStartGood
<1>7. Good(m, j)
  BY <1>1, <1>3, <1>4, <1>5, <1>6, ManualGood
<1> QED
  BY <1>7 DEF m

-----------------------------------------------------------------------------
(* What an acknowledgment, and the snapshot it came with, do to it.        *)

\* The same job, waiting for less.
Less(k, m, a) ==
  /\ IsWork(m) /\ SameJob(k, m) /\ m.actions = k.actions /\ m.job.pending = k.job.pending \ {a}

\* An action that is done with is not waited for.
LEMMA DoneIsLess ==
  ASSUME NEW k, IsWork(k), NEW a
  PROVE  Less(k, Done(k, a), a)
<1> DEFINE m == Done(k, a)
           pending == k.job.pending \ {a}
<1>1. m = [k EXCEPT !.job.pending = pending]
  BY DEF Done
<1> HIDE DEF m, pending
<1>2. IsWork(m) /\ SameJob(k, m) /\ m.actions = k.actions /\ m.job.pending = pending
  BY <1>1 DEF IsWork, IsJob, SameJob
<1> QED
  BY <1>2 DEF Less, m, pending

\* That a reservation has to be settled is a note.
LEMMA SettledIsNoted ==
  ASSUME NEW k, IsWork(k), NEW a
  PROVE  Noted(k, Settled(k, a)) /\ Settled(k, a).job = k.job
<1> DEFINE v == [k.ledger.settlement EXCEPT ![a] = TRUE]
           n == [k EXCEPT !.ledger.settlement = v]
<1>1. Settled(k, a) = k \/ Settled(k, a) = n
  BY DEF Settled
<1>2. Noted(k, n) /\ n.job = k.job
  BY NotesAreNoted
<1>3. Noted(k, k)
  BY DEF Noted, SameJob
<1> HIDE DEF n
<1> QED
  BY <1>1, <1>2, <1>3

\* What is waited for no longer was done or refused.
LEMMA LessGood ==
  ASSUME NEW k, NEW m, NEW j, NEW a, Good(k, j), Less(k, m, a),
         a.kind = "START_SESSION" => ~Unused(a)
  PROVE  Good(m, j)
<1>1. IsWork(m) /\ SameJob(k, m) /\ m.actions = k.actions /\ m.job.pending = k.job.pending \ {a}
  BY DEF Less
<1>2. Mine(m, j) = Mine(k, j)
  BY <1>1 DEF Mine
<1>3. Granting(m, j)
  BY <1>1, <1>2 DEF Good, Granting
<1>4. Owning(m, j)
  BY <1>1 DEF Good, Owning, SameJob
<1>5. Continuing(m, j)
  BY <1>1, <1>2 DEF Good, Continuing, SameJob
<1>6. Starting(m, j)
  BY <1>1, <1>2 DEF Good, Starting, SameJob
<1> QED
  BY <1>1, <1>3, <1>4, <1>5, <1>6 DEF Good

\* The successor is the owner, and has been continued where it started.
Started(k, m, a, s) ==
  /\ IsWork(m) /\ m.actions = k.actions /\ m.job.pending = k.job.pending \ {a}
  /\ m.job.owner = s.owner /\ m.job.generation = a.next /\ ~m.job.quiescent
  /\ m.job.resumed = <<a.next, s.checkpoint>>

\* What the acknowledgment of a start writes.
LEMMA StartedIs ==
  ASSUME NEW k, IsWork(k), NEW a, NEW s
  PROVE  Started(k, [Done(k, a) EXCEPT !.job.owner = s.owner, !.job.generation = a.next, !.job.quiescent = FALSE,
                                       !.job.resumed = <<a.next, s.checkpoint>>, !.job.base = s.checkpoint], a, s)
<1> DEFINE d == Done(k, a)
           key == <<a.next, s.checkpoint>>
           m == [d EXCEPT !.job.owner = s.owner, !.job.generation = a.next, !.job.quiescent = FALSE,
                          !.job.resumed = key, !.job.base = s.checkpoint]
           r == [state |-> d.job.state, owner |-> s.owner, generation |-> a.next, checkpoint |-> d.job.checkpoint,
                 pending |-> d.job.pending, resumed |-> key, base |-> s.checkpoint, progress |-> d.job.progress,
                 sequence |-> d.job.sequence, notified |-> d.job.notified, researched |-> d.job.researched,
                 lifecycle |-> d.job.lifecycle, quiescent |-> FALSE]
<1>1. IsWork(d) /\ d.actions = k.actions /\ d.job.pending = k.job.pending \ {a}
  BY DoneIsLess DEF Less
<1>6. m = [d EXCEPT !.job.owner = s.owner, !.job.generation = a.next, !.job.quiescent = FALSE,
                    !.job.resumed = key, !.job.base = s.checkpoint]
  OBVIOUS
<1> HIDE DEF d, key, m
<1>2. m = [job |-> r, ledger |-> d.ledger, actions |-> d.actions, failed |-> d.failed]
  BY <1>1, <1>6 DEF IsWork, IsJob
<1>3. /\ IsJob(r) /\ r.owner = s.owner /\ r.generation = a.next /\ ~r.quiescent
      /\ r.pending = d.job.pending /\ r.resumed = key
  BY DEF IsJob
<1> HIDE DEF r
<1>4. IsWork(m) /\ m.job = r /\ m.actions = d.actions
  BY <1>1, <1>2, <1>3 DEF IsWork
<1>5. Started(k, m, a, s)
  BY <1>1, <1>3, <1>4 DEF Started, key
<1> QED
  BY <1>5 DEF m, d, key

\* The successor: it is later than every continuation so far.
LEMMA StartedGood ==
  ASSUME NEW k, NEW m, NEW j, NEW a, HostInv(j), Good(k, j), Started(k, m, a, snapshot[j]),
         a \in k.job.pending, a.kind = "START_SESSION", ~Unused(a),
         Truthful(snapshot[j], j), snapshot[j].generation = a.next
  PROVE  Good(m, j) /\ m.job.owner # None
<1> DEFINE s == snapshot[j]
           g == a.next
<1>1. /\ a \in Mine(k, j) /\ g \in Nat /\ g # 0 /\ k.job.generation <= g /\ g <= host[j].generation
      /\ s.owner = g /\ g # None /\ k.job.generation \in Nat
  <2>1. a \in Mine(k, j) /\ a.generation \in Nat /\ g = a.generation + 1 /\ k.job.generation <= g
    BY DEF Good, Granting, Starting
  <2>2. k.job.generation \in Nat /\ g <= host[j].generation
    BY DEF Good, Owning, Truthful
  <2>3. g \in Nat /\ g # 0
    BY <2>1
  <2> QED
    BY <2>1, <2>2, <2>3, NoneAssumption DEF Truthful
<1>2. /\ IsWork(m) /\ m.actions = k.actions /\ m.job.pending = k.job.pending \ {a}
      /\ m.job.owner = g /\ m.job.generation = g /\ ~m.job.quiescent /\ m.job.resumed = <<g, s.checkpoint>>
  BY <1>1 DEF Started
<1>3. Mine(m, j) = Mine(k, j)
  BY <1>2 DEF Mine
<1>4. Granting(m, j)
  BY <1>2, <1>3 DEF Good, Granting
<1>5. Owning(m, j)
  BY <1>1, <1>2 DEF Owning
<1>6. Starting(m, j)
  <2>1. ASSUME NEW b \in Mine(m, j), b.kind = "START_SESSION"
        PROVE  b \notin m.job.pending /\ b \in Mine(k, j) /\ (Unused(b) => b = a)
    BY <1>2, <1>3, <2>1 DEF Good, Granting, Starting
  <2> QED
    BY <1>2, <1>3, <2>1 DEF Good, Starting
<1>7. Continuing(m, j)
  <2> DEFINE c == s.checkpoint
  <2>1. /\ c \in Nat /\ <<g, c>> \in Pair /\ <<g, c>> # None
        /\ m.job.resumed[1] = g /\ m.job.resumed[2] = c
    BY <1>1, <1>2, NoneAssumption DEF Truthful, Pair
  <2>2. ASSUME NEW b \in Mine(k, j), b.kind = "RESUME_SESSION"
        PROVE  /\ b.generation \in Nat /\ b.checkpoint \in Nat
               /\ b.generation < g \/ (b.generation = g /\ b.checkpoint <= c)
    <3> DEFINE h == k.job.resumed[1]
               d == k.job.resumed[2]
    <3>1. /\ b.generation \in Nat /\ b.checkpoint \in Nat /\ k.job.resumed \in Pair /\ h <= k.job.generation
          /\ d <= c
          /\ b.generation < h \/ (b.generation = h /\ b.checkpoint <= d)
      BY <2>2 DEF Good, Continuing
    <3>2. h \in Nat /\ d \in Nat
      BY <3>1 DEF Pair
    <3> HIDE DEF g, c, h, d
    <3> QED
      BY <1>1, <2>1, <3>1, <3>2
  <2>3. \A x, y \in Mine(m, j) :
          x.kind = "RESUME_SESSION" /\ y.kind = "RESUME_SESSION" /\ x.generation = y.generation
            /\ x.checkpoint = y.checkpoint => x = y
    BY <1>3 DEF Good, Continuing
  <2> HIDE DEF g, c
  <2>4. m.job.resumed[1] <= m.job.generation /\ m.job.resumed[2] <= snapshot[j].checkpoint
    BY <1>1, <1>2, <2>1 DEF c
  <2> QED
    BY <1>2, <1>3, <2>1, <2>2, <2>3, <2>4 DEF Continuing
<1> QED
  BY <1>1, <1>2, <1>4, <1>5, <1>6, <1>7 DEF Good

\* The predecessor has handed over: nothing of its generation is alive.
Handed(k, m, j, a) == Good(m, j) /\ m.job.pending = k.job.pending \ {a}

LEMMA HandedGood ==
  ASSUME NEW k, NEW j, NEW a, HostInv(j), Good(k, j), a \in k.job.pending, a.kind = "PREPARE_HANDOFF",
         Truthful(snapshot[j], j), snapshot[j].generation = k.job.generation, snapshot[j].retired
  PROVE  Handed(k, [Done(k, a) EXCEPT !.job.checkpoint = snapshot[j].checkpoint, !.job.quiescent = TRUE], j, a)
<1> DEFINE d == Done(k, a)
           c == snapshot[j].checkpoint
           m == [d EXCEPT !.job.checkpoint = c, !.job.quiescent = TRUE]
           r == [state |-> d.job.state, owner |-> d.job.owner, generation |-> d.job.generation, checkpoint |-> c,
                 pending |-> d.job.pending, resumed |-> d.job.resumed, base |-> d.job.base, progress |-> d.job.progress,
                 sequence |-> d.job.sequence, notified |-> d.job.notified, researched |-> d.job.researched,
                 lifecycle |-> d.job.lifecycle, quiescent |-> TRUE]
<1>1. Less(k, d, a)
  BY DoneIsLess DEF Good
<1>2. Good(d, j) /\ IsWork(d)
  BY <1>1, LessGood DEF Good
<1>3. m = [d EXCEPT !.job.checkpoint = c, !.job.quiescent = TRUE]
  OBVIOUS
<1> HIDE DEF d, c, m
<1>4. m = [job |-> r, ledger |-> d.ledger, actions |-> d.actions, failed |-> d.failed]
  BY <1>2, <1>3 DEF IsWork, IsJob
<1>5. /\ IsJob(r) /\ r.owner = d.job.owner /\ r.generation = d.job.generation /\ r.quiescent
      /\ r.pending = d.job.pending /\ r.resumed = d.job.resumed
  BY DEF IsJob
<1> HIDE DEF r
<1>6. /\ IsWork(m) /\ m.actions = d.actions /\ m.job.owner = d.job.owner /\ m.job.generation = d.job.generation
      /\ m.job.quiescent /\ m.job.pending = d.job.pending /\ m.job.resumed = d.job.resumed
  BY <1>2, <1>4, <1>5 DEF IsWork
<1>7. Mine(m, j) = Mine(d, j)
  BY <1>6 DEF Mine
<1>8. Granting(m, j) /\ Continuing(m, j) /\ Starting(m, j)
  BY <1>2, <1>6, <1>7 DEF Good, Granting, Continuing, Starting
<1>9. Owning(m, j)
  <2>1. k.job.owner # None /\ d.job.owner = k.job.owner /\ d.job.generation = k.job.generation
    BY <1>1 DEF Good, Owning, Less, SameJob
  <2>2. snapshot[j].generation = host[j].generation => ~Alive(j)
    BY DEF Truthful
  <2> QED
    BY <1>2, <1>6, <2>1, <2>2 DEF Good, Owning
<1>10. Handed(k, m, j, a)
  BY <1>1, <1>6, <1>8, <1>9 DEF Good, Handed, Less
<1> QED
  BY <1>10 DEF m, d, c

\* What an acknowledgment leaves: no start is waited for that was not before.
Acked(k, m, j) ==
  /\ Good(m, j)
  /\ \A a \in m.job.pending : a.kind = "START_SESSION" => a \in k.job.pending

\* Somebody has to look at the acknowledgment.
LEMMA ManualAcked ==
  ASSUME NEW k, NEW m, NEW j, NEW reason, Good(m, j), m.job.pending \subseteq k.job.pending
  PROVE  Acked(k, Manual(m, j, reason), j)
<1>1. Good(Manual(m, j, reason), j) /\ Told(m, Manual(m, j, reason), j)
  BY ManualGood, ManualTells DEF Good
<1> QED
  BY <1>1 DEF Acked, Told

\* Every outcome of an action that is waited for.
LEMMA AcknowledgeGood ==
  ASSUME NEW k, NEW j, HostInv(j), Good(k, j), Truthful(snapshot[j], j),
         k.job.pending # {} => snapshot[j].generation \in Expected(k)
  PROVE  Acked(k, Acknowledge(k, j, snapshot[j]), j)
<1> DEFINE s == snapshot[j]
           m == Acknowledge(k, j, s)
<1>1. CASE s.ack = None \/ s.ack.action \notin k.job.pending
  <2>1. m = k
    BY <1>1 DEF Acknowledge
  <2> QED
    BY <2>1 DEF Acked
<1>2. CASE ~(s.ack = None \/ s.ack.action \notin k.job.pending)
  <2> DEFINE a == s.ack.action
             n == Settled(k, a)
             failed == [n EXCEPT !.failed = TRUE]
             started == [Done(n, a) EXCEPT !.job.owner = s.owner, !.job.generation = a.next, !.job.quiescent = FALSE,
                                           !.job.resumed = <<a.next, s.checkpoint>>, !.job.base = s.checkpoint]
             handed == [Done(n, a) EXCEPT !.job.checkpoint = s.checkpoint, !.job.quiescent = TRUE]
  <2>1. a \in k.job.pending /\ s.ack # None
    BY <1>2
  <2>2. \/ a.kind = "NOTIFY" /\ m = Done(k, a)
        \/ s.ack.outcome = "NOT_STARTED" /\ m = Done(n, a)
        \/ \E reason : m = Manual(n, j, reason)
        \/ a.kind = "START_SESSION" /\ s.ack.outcome = "SUCCEEDED" /\ m = Manual(failed, j, "SUCCESSOR_ACK_MISMATCH")
        \/ a.kind = "START_SESSION" /\ s.ack.outcome = "SUCCEEDED" /\ s.generation = a.next /\ m = started
        \/ a.kind = "PREPARE_HANDOFF" /\ s.retired /\ m = handed
        \/ a.kind # "START_SESSION" /\ m = Done(n, a)
    <3>1. m = CASE a.kind = "NOTIFY" -> Done(k, a)
                [] a.kind # "NOTIFY" /\ s.ack.outcome = "NOT_STARTED" /\ s.operator -> Done(n, a)
                [] a.kind # "NOTIFY" /\ s.ack.outcome # "SUCCEEDED" /\ ~(s.ack.outcome = "NOT_STARTED" /\ s.operator) ->
                     Manual(n, j, s.ack.outcome)
                [] a.kind = "START_SESSION" /\ s.ack.outcome = "SUCCEEDED" ->
                     IF s.generation # a.next THEN Manual(failed, j, "SUCCESSOR_ACK_MISMATCH") ELSE started
                [] a.kind = "PREPARE_HANDOFF" /\ s.ack.outcome = "SUCCEEDED" ->
                     IF ~Quiescent(s) THEN Manual(n, j, "PREDECESSOR_NOT_QUIESCENT") ELSE handed
                [] OTHER -> Done(n, a)
      BY <1>2 DEF Acknowledge
    <3> HIDE DEF m, n, failed, started, handed
    <3>2. CASE a.kind = "NOTIFY"
      BY <3>1, <3>2
    <3>3. CASE a.kind # "NOTIFY" /\ s.ack.outcome = "NOT_STARTED" /\ s.operator
      BY <3>1, <3>3
    <3>4. CASE a.kind # "NOTIFY" /\ s.ack.outcome # "SUCCEEDED" /\ ~(s.ack.outcome = "NOT_STARTED" /\ s.operator)
      BY <3>1, <3>4
    <3>5. CASE a.kind = "START_SESSION" /\ s.ack.outcome = "SUCCEEDED"
      BY <3>1, <3>5
    <3>6. CASE a.kind = "PREPARE_HANDOFF" /\ s.ack.outcome = "SUCCEEDED"
      BY <3>1, <3>6 DEF Quiescent
    <3>7. CASE a.kind \notin {"NOTIFY", "START_SESSION", "PREPARE_HANDOFF"} /\ s.ack.outcome = "SUCCEEDED"
      BY <3>1, <3>7
    <3> QED
      BY <3>2, <3>3, <3>4, <3>5, <3>6, <3>7
  <2>3. Noted(k, n) /\ n.job = k.job
    BY SettledIsNoted DEF Good
  <2> HIDE DEF n, m, failed, started, handed
  <2>4. Good(n, j)
    BY <2>3, NotedGood
  <2>5. a.job = j
    BY <2>1 DEF Good, Granting, Mine
  <2>6. ASSUME NEW l, Good(l, j), l.job.pending = k.job.pending, a.kind = "START_SESSION" => ~Unused(a)
        PROVE  Acked(k, Done(l, a), j)
    <3>1. Less(l, Done(l, a), a)
      BY <2>6, DoneIsLess DEF Good
    <3>2. Good(Done(l, a), j)
      BY <2>6, <3>1, LessGood
    <3> QED
      BY <2>6, <3>1, <3>2 DEF Acked, Less
  <2>7. CASE a.kind = "NOTIFY" /\ m = Done(k, a)
    BY <2>6, <2>7 DEF m
  <2>8. CASE s.ack.outcome = "NOT_STARTED" /\ m = Done(n, a)
    <3>1. ~Unused(a)
      BY <2>1, <2>5, <2>8 DEF Truthful, Unused
    <3> QED
      BY <2>3, <2>4, <2>6, <2>8, <3>1 DEF m
  <2>9. CASE \E reason : m = Manual(n, j, reason)
    BY <2>3, <2>4, <2>9, ManualAcked DEF m
  <2>10. CASE m = Manual(failed, j, "SUCCESSOR_ACK_MISMATCH")
    <3>1. Noted(n, failed) /\ failed.job = n.job
      BY <2>4, NotesAreNoted DEF failed, Good
    <3>2. Good(failed, j)
      BY <2>4, <3>1, NotedGood
    <3> QED
      BY <2>3, <2>10, <3>1, <3>2, ManualAcked DEF m
  <2>11. CASE a.kind = "START_SESSION" /\ s.ack.outcome = "SUCCEEDED" /\ s.generation = a.next /\ m = started
    <3>1. ~Unused(a)
      BY <2>1, <2>5, <2>11 DEF Truthful, Unused
    <3>2. Started(n, started, a, s)
      BY <2>4, StartedIs DEF Good, started
    <3>3. Good(started, j)
      BY <2>1, <2>3, <2>4, <2>11, <3>1, <3>2, StartedGood
    <3> QED
      BY <2>3, <2>11, <3>2, <3>3 DEF Acked, Started, m
  <2>12. CASE a.kind = "PREPARE_HANDOFF" /\ s.retired /\ m = handed
    <3>1. s.generation = n.job.generation
      BY <2>1, <2>3, <2>12 DEF Expected, Good, Granting
    <3>2. Handed(n, handed, j, a)
      BY <2>1, <2>3, <2>4, <2>12, <3>1, HandedGood DEF handed
    <3> QED
      BY <2>3, <2>12, <3>2 DEF Acked, Handed, m
  <2>13. CASE a.kind # "START_SESSION" /\ m = Done(n, a)
    BY <2>3, <2>4, <2>6, <2>13 DEF m
  <2> QED
    BY <2>2, <2>7, <2>8, <2>9, <2>10, <2>11, <2>12, <2>13 DEF m
<1> QED
  BY <1>1, <1>2

\* The checkpoint of a job is what its snapshot says.
Placed(k, m, c) ==
  /\ IsWork(m) /\ m.actions = k.actions
  /\ m.job.owner = k.job.owner /\ m.job.generation = k.job.generation /\ m.job.resumed = k.job.resumed
  /\ m.job.quiescent = k.job.quiescent /\ m.job.pending = k.job.pending /\ m.job.state = k.job.state
  /\ m.job.checkpoint = c

\* What a snapshot writes.
LEMMA CheckpointPlaced ==
  ASSUME NEW k, IsWork(k), NEW c
  PROVE  Placed(k, [k EXCEPT !.job.checkpoint = c], c)
<1> DEFINE m == [k EXCEPT !.job.checkpoint = c]
<1>1. m = [k EXCEPT !.job.checkpoint = c]
  OBVIOUS
<1> HIDE DEF m
<1>2. Placed(k, m, c)
  BY <1>1 DEF Placed, IsWork, IsJob
<1> QED
  BY <1>2 DEF m

\* Continuations do not depend on the checkpoint until they are granted.
LEMMA PlacedGood ==
  ASSUME NEW k, NEW m, NEW j, NEW c, Good(k, j), Placed(k, m, c)
  PROVE  Good(m, j)
<1>1. Mine(m, j) = Mine(k, j)
  BY DEF Mine, Placed
<1>2. Granting(m, j) /\ Owning(m, j)
  BY <1>1 DEF Good, Placed, Granting, Owning
<1>3. Continuing(m, j) /\ Starting(m, j)
  BY <1>1 DEF Good, Placed, Continuing, Starting
<1> QED
  BY <1>2, <1>3 DEF Good, Placed

\* A job without an owner gets one.
LEMMA OwnedGood ==
  ASSUME NEW k, NEW j, Good(k, j), k.job.owner = None, Truthful(snapshot[j], j), snapshot[j].owner # None,
         \A a \in k.job.pending : a.kind = "START_SESSION" => snapshot[j].generation <= a.next
  PROVE  /\ Good([k EXCEPT !.job.owner = snapshot[j].owner, !.job.generation = snapshot[j].generation], j)
         /\ [k EXCEPT !.job.owner = snapshot[j].owner, !.job.generation = snapshot[j].generation].job.pending = k.job.pending
         /\ [k EXCEPT !.job.owner = snapshot[j].owner, !.job.generation = snapshot[j].generation].job.state = k.job.state
<1> DEFINE s == snapshot[j]
           m == [k EXCEPT !.job.owner = s.owner, !.job.generation = s.generation]
<1>1. m = [k EXCEPT !.job.owner = s.owner, !.job.generation = s.generation]
  OBVIOUS
<1> HIDE DEF m, s
<1>2. /\ IsWork(m) /\ m.actions = k.actions /\ m.job.owner = s.owner /\ m.job.generation = s.generation
      /\ m.job.resumed = k.job.resumed /\ m.job.quiescent = k.job.quiescent /\ m.job.pending = k.job.pending
      /\ m.job.state = k.job.state
  BY <1>1 DEF Good, IsWork, IsJob
<1>3. Mine(m, j) = Mine(k, j)
  BY <1>2 DEF Mine
<1>4. Granting(m, j) /\ Owning(m, j)
  BY <1>2, <1>3 DEF Good, Granting, Owning, Truthful, s
<1>5. Continuing(m, j)
  BY <1>2, <1>3 DEF Good, Owning, Continuing
<1>6. Starting(m, j)
  BY <1>2, <1>3 DEF Good, Starting, s
<1>7. Good(m, j)
  BY <1>2, <1>4, <1>5, <1>6 DEF Good
<1> QED
  BY <1>2, <1>7 DEF m, s

\* What the job takes over from its snapshot.
Adopted(k, m, j) ==
  /\ Good(m, j) /\ m.job.pending = k.job.pending /\ m.job.state = k.job.state
  /\ k.job.state \notin {"PAUSED", "NEEDS_INPUT"} => m.job.checkpoint = snapshot[j].checkpoint

\* The owner of a registration and the checkpoint.
LEMMA AdoptGood ==
  ASSUME NEW k, NEW j, NEW e, Good(k, j), Truthful(snapshot[j], j),
         \A a \in k.job.pending : a.kind = "START_SESSION" => snapshot[j].generation <= a.next
  PROVE  Adopted(k, Adopt(k, e, snapshot[j]), j)
<1> DEFINE s == snapshot[j]
           given == [k EXCEPT !.job.owner = s.owner, !.job.generation = s.generation]
           owned == IF e = "REGISTER" /\ k.job.owner = None /\ s.owner # None THEN given ELSE k
           m == Adopt(k, e, s)
<1>1. CASE k.job.state \in {"PAUSED", "NEEDS_INPUT"}
  <2>1. m = k
    BY <1>1 DEF Adopt
  <2> QED
    BY <1>1, <2>1 DEF Adopted
<1>2. CASE k.job.state \notin {"PAUSED", "NEEDS_INPUT"}
  <2>1. m = [owned EXCEPT !.job.checkpoint = s.checkpoint]
    BY <1>2 DEF Adopt
  <2>2. k.job.owner = None /\ s.owner # None => Good(given, j) /\ given.job.pending = k.job.pending /\ given.job.state = k.job.state
    BY OwnedGood
  <2> HIDE DEF given
  <2>3. Good(owned, j) /\ owned.job.pending = k.job.pending /\ owned.job.state = k.job.state
    BY <2>2
  <2> HIDE DEF owned, m
  <2>4. Placed(owned, m, s.checkpoint)
    BY <2>1, <2>3, CheckpointPlaced DEF Good
  <2>5. Good(m, j)
    BY <2>3, <2>4, PlacedGood
  <2> QED
    BY <2>3, <2>4, <2>5 DEF Adopted, Placed, m
<1> QED
  BY <1>1, <1>2

\* An event that reads its snapshot, stale or not.
LEMMA ObservedGood ==
  ASSUME NEW k, NEW j, NEW e, HostInv(j), Good(k, j), Truthful(snapshot[j], j)
  PROVE  Good(Observed(k, j, e, snapshot[j]), j)
<1> DEFINE s == snapshot[j]
           acked == Acknowledge(k, j, s)
           seen == Adopt(acked, e, s)
           ready == [seen EXCEPT !.job.state = "READY"]
           resumed == [seen EXCEPT !.job.state = IF e = "RESUME" THEN "READY" ELSE @,
                                   !.job.checkpoint = IF e = "RESUME" THEN s.checkpoint ELSE @]
           late == IF TimedOut(resumed.job) THEN Manual(resumed, j, "ACTION_ACK_TIMEOUT") ELSE resumed
           m == Observed(k, j, e, s)
<1>1. CASE Stale(k, e, s)
  <2>1. m = k
    BY <1>1 DEF Observed
  <2> QED
    BY <2>1
<1>2. CASE ~Stale(k, e, s)
  <2>1. \/ m = acked
        \/ \E reason : m = Manual(acked, j, reason)
        \/ \E reason : m = Manual(seen, j, reason)
        \/ m = late
        \/ late.job.state # "PAUSED" /\ ~Active(resumed.job) /\ m = Continue(late, j, e, s)
    BY <1>2 DEF Observed
  <2>2. k.job.pending # {} => s.generation \in Expected(k)
    BY <1>2 DEF Stale, Adopting
  <2>3. Acked(k, acked, j)
    BY <2>2, AcknowledgeGood
  <2> HIDE DEF m, acked
  <2>4. Good(acked, j)
    BY <2>3 DEF Acked
  <2>5. \A a \in acked.job.pending : a.kind = "START_SESSION" => s.generation <= a.next
    <3> SUFFICES ASSUME NEW a \in acked.job.pending, a.kind = "START_SESSION"
                 PROVE  s.generation <= a.next
      OBVIOUS
    <3>1. a \in k.job.pending /\ a \in Mine(k, j)
      BY <2>3 DEF Acked, Good, Granting
    <3>2. s.generation = k.job.generation \/ s.generation = a.next
      BY <2>2, <3>1 DEF Expected, Good, Granting
    <3>3. a.next \in Nat /\ k.job.generation <= a.next
      BY <3>1 DEF Good, Starting
    <3> HIDE DEF s
    <3> QED
      BY <3>2, <3>3
  <2>6. Adopted(acked, seen, j)
    BY <2>4, <2>5, AdoptGood
  <2> HIDE DEF seen
  <2>7. Good(seen, j)
    BY <2>6 DEF Adopted
  <2>8. /\ Good(resumed, j)
        /\ e = "RESUME" => resumed.job.checkpoint = s.checkpoint
        /\ e # "RESUME" => resumed.job.checkpoint = seen.job.checkpoint /\ resumed.job.state = seen.job.state
    <3>1. CASE e = "RESUME"
      <4>1. resumed = [ready EXCEPT !.job.checkpoint = s.checkpoint]
        BY <2>7, <3>1 DEF Good, IsWork, IsJob
      <4>2. Noted(seen, ready)
        BY <2>7, NotesAreNoted DEF Good
      <4> HIDE DEF ready, resumed
      <4>3. Good(ready, j)
        BY <2>7, <4>2, NotedGood
      <4>4. Placed(ready, resumed, s.checkpoint)
        BY <4>1, <4>3, CheckpointPlaced DEF Good
      <4>5. Good(resumed, j) /\ resumed.job.checkpoint = s.checkpoint
        BY <4>3, <4>4, PlacedGood DEF Placed
      <4> QED
        BY <3>1, <4>5 DEF resumed
    <3>2. CASE e # "RESUME"
      <4>1. resumed = seen
        BY <2>7, <3>2 DEF Good, IsWork, IsJob
      <4> QED
        BY <2>7, <3>2, <4>1
    <3> QED
      BY <3>1, <3>2
  <2>9. resumed.job.state # "NEEDS_INPUT" /\ resumed.job.state # "PAUSED" => resumed.job.checkpoint = s.checkpoint
    BY <2>6, <2>8 DEF Adopted
  <2> HIDE DEF resumed
  <2>10. /\ Good(Manual(resumed, j, "ACTION_ACK_TIMEOUT"), j)
         /\ Told(resumed, Manual(resumed, j, "ACTION_ACK_TIMEOUT"), j)
         /\ Manual(resumed, j, "ACTION_ACK_TIMEOUT").job.state = "NEEDS_INPUT"
    BY <2>8, ManualGood, ManualTells DEF Good
  <2>11. Good(late, j) /\ Told(resumed, late, j) /\ (late = resumed \/ late.job.state = "NEEDS_INPUT")
    BY <2>8, <2>10, NotedIsTold DEF Good
  <2> HIDE DEF late
  <2>12. ~Active(resumed.job) => ~Active(late.job)
    BY <2>11 DEF Told, Active
  <2>13. late.job.state # "PAUSED" /\ ~Active(resumed.job) => Good(Continue(late, j, e, s), j)
    BY <2>9, <2>11, <2>12, ContinueGood
  <2>14. Good(m, j)
    BY <2>1, <2>4, <2>7, <2>11, <2>13, ManualGood
  <2> QED
    BY <2>14 DEF m
<1> QED
  BY <1>1, <1>2

\* Every event.
LEMMA HandleGood ==
  ASSUME NEW k, NEW j, NEW e, HostInv(j), Good(k, j), snapshot[j] = None \/ Truthful(snapshot[j], j)
  PROVE  Good(Handle(k, j, e), j)
<1> DEFINE status == Emit(k, j, "CHECK_STATUS", None)
           paused == [k EXCEPT !.job.state = "PAUSED"]
           cancelled == [k EXCEPT !.job.state = "CANCELLED"]
           observed == Observed(k, j, e, snapshot[j])
           m == Handle(k, j, e)
<1>1. \/ m = k
      \/ k.job.pending = {} /\ m = status
      \/ m = paused
      \/ m = cancelled
      \/ \E reason : m = Manual(k, j, reason)
      \/ snapshot[j] # None /\ m = observed
  <2>1. m = CASE e = "STATUS" -> IF k.job.pending = {} /\ k.job.state \notin Stopped THEN status ELSE k
              [] e = "PAUSE" -> paused
              [] e = "CANCEL" -> cancelled
              [] e \notin {"STATUS", "PAUSE", "CANCEL"} ->
                   IF \/ k.job.state \in {"COMPLETED", "CANCELLED"}
                      \/ e = "HEARTBEAT" /\ k.job.state \in {"PAUSED", "NEEDS_INPUT"}
                   THEN k
                   ELSE IF Exhausted(e) THEN Manual(k, j, BudgetDecision(entries))
                   ELSE IF ~Readable(snapshot[j]) THEN Manual(k, j, "CLIENT_CONTROL_UNAVAILABLE")
                   ELSE observed
    BY DEF Handle
  <2> HIDE DEF m, status, paused, cancelled, observed
  <2>2. CASE e = "STATUS"
    BY <2>1, <2>2
  <2>3. CASE e = "PAUSE"
    BY <2>1, <2>3
  <2>4. CASE e = "CANCEL"
    BY <2>1, <2>4
  <2>5. CASE e \notin {"STATUS", "PAUSE", "CANCEL"}
    BY <2>1, <2>5 DEF Readable
  <2> QED
    BY <2>2, <2>3, <2>4, <2>5
<1>2. k.job.pending = {} => Good(status, j)
  BY EmitGood DEF Active
<1>3. Noted(k, paused) /\ Noted(k, cancelled)
  BY NotesAreNoted DEF Good
<1> HIDE DEF status, paused, cancelled, m
<1>4. Good(paused, j) /\ Good(cancelled, j)
  BY <1>3, NotedGood
<1>5. snapshot[j] # None => Good(observed, j)
  BY ObservedGood
<1> HIDE DEF observed
<1>6. Good(m, j)
  BY <1>1, <1>2, <1>4, <1>5, ManualGood
<1> QED
  BY <1>6 DEF m

-----------------------------------------------------------------------------
(* Every step keeps the invariant.                                         *)

\* No job is registered, and the host has at most the session it starts with.
LEMMA InitHolds == Init => IInv
<1> SUFFICES ASSUME Init PROVE IInv
  OBVIOUS
<1>1. ASSUME NEW j \in Job PROVE HostInv(j)
  <2> DEFINE first == setup.session[j]
             g == IF first = None THEN 0 ELSE first
  <2>1. first \in {None} \cup Nat
    BY SetupsAssumption, BoundsAssumption DEF Init, Generation
  <2>2. host[j] = [live |-> {first} \ {None}, generation |-> g, execution |-> "IDLE", checkpoint |-> 0, base |-> 0,
                   performed |-> {}, refused |-> {}]
    BY DEF Init
  <2>3. g \in Nat /\ {first} \ {None} \subseteq {g}
    BY <2>1
  <2>4. {first} \ {None} \subseteq {first}
    OBVIOUS
  <2> QED
    BY <2>2, <2>3, <2>4 DEF HostInv, IsHost
<1>2. DOMAIN job = {} /\ DOMAIN host = Job /\ DOMAIN snapshot = Job /\ grants = {}
  BY DEF Init
<1>3. \A j \in Job : snapshot[j] = None
  BY DEF Init
<1>4. ledger = [used |-> ledger.used, settlement |-> ledger.settlement] /\ ledger.used \in Int
  BY DEF Init
<1> QED
  BY <1>1, <1>2, <1>3, <1>4 DEF IInv

\* The host goes forward, and a generation that has ended has no session again.
Forward(j) ==
  /\ host[j].generation <= host'[j].generation
  /\ host[j].checkpoint <= host'[j].checkpoint
  /\ host[j].generation = host'[j].generation /\ ~Alive(j) => ~Alive(j)'
  /\ host[j].performed \subseteq host'[j].performed
  /\ host[j].refused \subseteq host'[j].refused

\* A snapshot is written.
Renewed(j) ==
  /\ Truthful(snapshot[j], j)'
  /\ Truthful(snapshot[j], j) => snapshot[j].checkpoint <= snapshot'[j].checkpoint

\* When the host goes forward, jobs stay good and snapshots stay true.
LEMMA HostMoves ==
  ASSUME IInv, UNCHANGED <<job, ledger, grants>>, DOMAIN host' = Job, DOMAIN snapshot' = Job,
         \A j \in Job : Forward(j) /\ HostInv(j)',
         \A j \in Job : snapshot'[j] = snapshot[j] \/ Renewed(j)
  PROVE  IInv'
<1>1. ASSUME NEW j \in Job, Truthful(snapshot[j], j)
      PROVE  /\ Truthful(snapshot[j], j)'
             /\ snapshot[j].checkpoint <= snapshot'[j].checkpoint
  <2>1. CASE Renewed(j)
    BY <1>1, <2>1 DEF Renewed
  <2>2. CASE snapshot'[j] = snapshot[j]
    <3> DEFINE s == snapshot[j]
    <3>1. HostInv(j) /\ HostInv(j)' /\ Forward(j)
      BY DEF IInv
    <3>2. /\ s.generation \in Nat /\ s.generation <= host'[j].generation
          /\ s.checkpoint \in Nat /\ s.checkpoint <= host'[j].checkpoint
      BY <1>1, <3>1 DEF Truthful, HostInv, Forward
    <3>3. s.retired /\ s.generation = host'[j].generation => ~Alive(j)'
      BY <1>1, <3>1 DEF Truthful, HostInv, Forward
    <3>4. s.ack # None => /\ s.ack.outcome = "SUCCEEDED" => s.ack.action \in host'[j].performed
                          /\ s.ack.outcome = "NOT_STARTED" => s.ack.action \in host'[j].refused
      BY <1>1, <3>1 DEF Truthful, Forward
    <3>5. /\ s.generation # 0 => s.owner = s.generation
          /\ s.generation = 0 => s.owner \in {None, 0}
          /\ s.lifecycle # None => s.owner # None
      BY <1>1 DEF Truthful
    <3>6. s.checkpoint <= s.checkpoint
      BY <3>2
    <3> QED
      BY <2>2, <3>2, <3>3, <3>4, <3>5, <3>6 DEF Truthful
  <2> QED
    BY <2>1, <2>2
<1>2. ASSUME NEW j \in Job PROVE (snapshot[j] = None \/ Truthful(snapshot[j], j))'
  BY <1>1, <1>2 DEF IInv, Renewed
<1>3. ASSUME NEW j \in DOMAIN job PROVE Good(Saved(j), j)'
  <2> DEFINE r == job[j]
             mine == {a \in grants : a.job = j}
  <2>1. /\ Good(Saved(j), j) /\ HostInv(j) /\ HostInv(j)' /\ Forward(j) /\ job'[j] = r /\ j \in Job
        /\ ledger' = ledger /\ grants' = grants
    BY <1>3 DEF IInv
  <2>2. IsWork(Saved(j))'
    BY <2>1 DEF Good, IsWork, IsJob, Saved
  <2>3. Granting(Saved(j), j)'
    BY <2>1 DEF Good, Granting, Mine, Saved
  <2>4. Owning(Saved(j), j)'
    <3>1. /\ r.generation \in Nat /\ r.generation <= host[j].generation
          /\ r.owner = None => r.generation = 0 /\ r.resumed = None /\ ~r.quiescent
          /\ \A a \in r.pending : a.kind = "PREPARE_HANDOFF" => r.owner # None
          /\ r.quiescent /\ r.generation = host[j].generation => ~Alive(j)
      BY <2>1 DEF Good, Owning, Saved
    <3>2. r.generation <= host'[j].generation
      BY <2>1, <3>1 DEF Forward, HostInv
    <3>3. r.quiescent /\ r.generation = host'[j].generation => ~Alive(j)'
      BY <2>1, <3>1 DEF Forward, HostInv
    <3> QED
      BY <2>1, <3>1, <3>2, <3>3 DEF Owning, Saved
  <2>5. Continuing(Saved(j), j)'
    <3>1. Saved(j).job = r /\ Mine(Saved(j), j) = mine /\ Saved(j).job' = r /\ Mine(Saved(j), j)' = mine
      BY <2>1 DEF Saved, Mine
    <3>2. r.resumed # None =>
            /\ r.resumed \in Pair /\ r.resumed[1] <= r.generation
            /\ Truthful(snapshot[j], j)' /\ r.resumed[2] <= snapshot'[j].checkpoint
      <4> SUFFICES ASSUME r.resumed # None
                   PROVE  /\ r.resumed \in Pair /\ r.resumed[1] <= r.generation
                          /\ Truthful(snapshot[j], j)' /\ r.resumed[2] <= snapshot'[j].checkpoint
        OBVIOUS
      <4>1. /\ r.resumed \in Pair /\ r.resumed[1] <= r.generation
            /\ Truthful(snapshot[j], j) /\ r.resumed[2] <= snapshot[j].checkpoint
        BY <2>1, <3>1 DEF Good, Continuing
      <4>2. Truthful(snapshot[j], j)' /\ snapshot[j].checkpoint <= snapshot'[j].checkpoint
        BY <1>1, <2>1, <4>1
      <4>3. r.resumed[2] \in Nat /\ snapshot[j].checkpoint \in Nat /\ snapshot'[j].checkpoint \in Nat
        BY <4>1, <4>2 DEF Pair, Truthful
      <4>4. r.resumed[2] <= snapshot'[j].checkpoint
        BY <4>1, <4>2, <4>3
      <4> QED
        BY <4>1, <4>2, <4>4
    <3>3. /\ \A a \in mine : a.kind = "RESUME_SESSION" =>
               /\ a.generation \in Nat /\ a.checkpoint \in Nat /\ r.resumed # None
               /\ \/ a.generation < r.resumed[1]
                  \/ a.generation = r.resumed[1] /\ a.checkpoint <= r.resumed[2]
          /\ \A a, b \in mine :
               a.kind = "RESUME_SESSION" /\ b.kind = "RESUME_SESSION" /\ a.generation = b.generation
                 /\ a.checkpoint = b.checkpoint => a = b
      BY <2>1, <3>1 DEF Good, Continuing
    <3> HIDE DEF r, mine
    <3> QED
      BY <3>1, <3>2, <3>3 DEF Continuing
  <2>6. Starting(Saved(j), j)'
    <3>1. ASSUME NEW a \in mine, a.kind = "START_SESSION"
          PROVE  /\ a.generation \in Nat /\ a.next = a.generation + 1 /\ a.generation <= host'[j].generation
                 /\ a.owner = None => a.generation = 0
                 /\ a \in r.pending => r.generation <= a.next
                 /\ Unused(a)' => a \in r.pending
                 /\ Unused(a)' /\ a.owner # None /\ a.generation = host'[j].generation => ~Alive(j)'
      <4>1. /\ a.generation \in Nat /\ a.next = a.generation + 1 /\ a.generation <= host[j].generation
            /\ a.owner = None => a.generation = 0
            /\ a \in r.pending => r.generation <= a.next
            /\ Unused(a) => a \in r.pending
            /\ Unused(a) /\ a.owner # None /\ a.generation = host[j].generation => ~Alive(j)
        BY <2>1, <3>1 DEF Good, Starting, Mine, Saved
      <4>2. Unused(a)' => Unused(a)
        BY <2>1, <3>1 DEF Unused, Forward
      <4>3. host[j].generation \in Nat /\ host'[j].generation \in Nat /\ host[j].generation <= host'[j].generation
        BY <2>1 DEF HostInv, Forward
      <4>4. a.generation <= host'[j].generation
        BY <4>1, <4>3
      <4>5. a.generation = host'[j].generation => host[j].generation = host'[j].generation
        BY <4>1, <4>3
      <4> QED
        BY <2>1, <4>1, <4>2, <4>4, <4>5 DEF Forward
    <3>2. Saved(j).job' = r /\ Mine(Saved(j), j)' = mine
      BY <2>1 DEF Saved, Mine
    <3> HIDE DEF r, mine
    <3> QED
      BY <3>1, <3>2 DEF Starting
  <2> QED
    BY <2>2, <2>3, <2>4, <2>5, <2>6 DEF Good
<1> QED
  BY <1>2, <1>3 DEF IInv

\* A host that stays where it is.
LEMMA StaysForward ==
  ASSUME NEW j, HostInv(j), host'[j] = host[j], grants' = grants, setup' = setup
  PROVE  Forward(j) /\ HostInv(j)'
<1>1. HostInv(j)'
  BY DEF HostInv, IsHost
<1>2. Forward(j)
  BY DEF Forward, HostInv, Alive
<1> QED
  BY <1>1, <1>2

\* An event changes its job only, and grants actions to its job only.
\* What an event reads.
Read(j) ==
  [job |-> IF j \in DOMAIN job THEN job[j] ELSE NewJob, ledger |-> ledger, actions |-> {}, failed |-> FALSE]

LEMMA ReadGood ==
  ASSUME IInv, NEW j \in Job
  PROVE  Good(Read(j), j)
<1> DEFINE w == Read(j)
<1>1. CASE j \in DOMAIN job
  <2>1. w = Saved(j)
    BY <1>1 DEF Saved, Read
  <2> QED
    BY <1>1, <2>1 DEF IInv
<1>2. CASE j \notin DOMAIN job
  <2>1. w = [job |-> NewJob, ledger |-> ledger, actions |-> {}, failed |-> FALSE]
    BY <1>2 DEF Read
  <2> HIDE DEF w
  <2>2. w.job = NewJob /\ w.ledger = ledger /\ w.actions = {}
    BY <2>1
  <2>3. Mine(w, j) = {}
    BY <1>2, <2>2 DEF Mine, IInv
  <2>4. IsWork(w)
    BY <2>1 DEF IsWork, IsJob, NewJob, IInv
  <2>5. Granting(w, j)
    BY <2>2, <2>3 DEF Granting, NewJob
  <2>6. Owning(w, j)
    BY <2>2 DEF Owning, NewJob, IInv, HostInv
  <2>7. Continuing(w, j)
    BY <2>2, <2>3 DEF Continuing, NewJob
  <2>8. Starting(w, j)
    BY <2>3 DEF Starting
  <2>9. Good(w, j)
    BY <2>4, <2>5, <2>6, <2>7, <2>8 DEF Good
  <2> QED
    BY <2>9 DEF w
<1> QED
  BY <1>1, <1>2

LEMMA ControlKeeps ==
  ASSUME IInv, NEW j \in Job, NEW e, Control(j, e)
  PROVE  IInv'
<1> DEFINE w == Read(j)
           k == Handle(w, j, e)
<1>1. /\ job' = [i \in DOMAIN job \cup {j} |-> IF i = j THEN k.job ELSE job[i]]
      /\ ledger' = k.ledger /\ grants' = grants \cup k.actions
      /\ snapshot' = snapshot /\ host' = host /\ setup' = setup
  BY DEF Control, Read
<1>2. Good(w, j)
  BY ReadGood
<1> HIDE DEF w
<1>3. Good(k, j)
  BY <1>2, HandleGood DEF IInv
<1> HIDE DEF k
<1>4. DOMAIN job' = DOMAIN job \cup {j} /\ job'[j] = k.job /\ \A i \in DOMAIN job \ {j} : job'[i] = job[i]
  BY <1>1
<1>5. ledger' = [used |-> ledger'.used, settlement |-> ledger'.settlement] /\ ledger'.used \in Int
  BY <1>1, <1>3 DEF Good, IsWork
<1>6. \A a \in k.actions : a.job = j
  BY <1>3 DEF Good, Granting
<1>7. \A i \in Job : (HostInv(i) /\ (snapshot[i] = None \/ Truthful(snapshot[i], i)))'
  <2> SUFFICES ASSUME NEW i \in Job PROVE (HostInv(i) /\ (snapshot[i] = None \/ Truthful(snapshot[i], i)))'
    OBVIOUS
  <2>1. HostInv(i) /\ (snapshot[i] = None \/ Truthful(snapshot[i], i))
    BY DEF IInv
  <2>2. HostInv(i)'
    BY <1>1, <2>1 DEF HostInv, IsHost
  <2>3. (snapshot[i] = None \/ Truthful(snapshot[i], i))'
    BY <1>1, <2>1 DEF Truthful, Alive
  <2> QED
    BY <2>2, <2>3
<1>8. Good(Saved(j), j)'
  <2> DEFINE mine == {a \in grants' : a.job = j}
  <2>1. Mine(k, j) = mine
    BY <1>1 DEF Mine
  <2>2. /\ Saved(j).job' = k.job /\ Saved(j).actions' = {} /\ Mine(Saved(j), j)' = mine
    BY <1>4 DEF Saved, Mine
  <2>3. IsWork(Saved(j))'
    BY <1>3, <1>4, <1>5 DEF Good, IsWork, IsJob, Saved
  <2> HIDE DEF mine
  <2>4. Granting(Saved(j), j)'
    BY <1>3, <2>1, <2>2 DEF Good, Granting
  <2>5. Owning(Saved(j), j)'
    BY <1>1, <1>3, <2>2 DEF Good, Owning, Alive
  <2>6. Continuing(Saved(j), j)'
    BY <1>1, <1>3, <2>1, <2>2 DEF Good, Continuing, Truthful, Alive
  <2>7. Starting(Saved(j), j)'
    BY <1>1, <1>3, <2>1, <2>2 DEF Good, Starting, Unused, Alive
  <2> QED
    BY <2>3, <2>4, <2>5, <2>6, <2>7 DEF Good
<1>9. ASSUME NEW i \in DOMAIN job, i # j PROVE Good(Saved(i), i)'
  <2> DEFINE mine == {a \in grants : a.job = i}
             r == job[i]
  <2>1. Good(Saved(i), i) /\ job'[i] = r
    BY <1>4, <1>9 DEF IInv
  <2>2. /\ Saved(i).job = r /\ Saved(i).actions = {} /\ Mine(Saved(i), i) = mine
        /\ Saved(i).job' = r /\ Saved(i).actions' = {}
    BY <2>1 DEF Saved, Mine
  <2>3. Mine(Saved(i), i)' = mine
    BY <1>1, <1>6, <1>9 DEF Saved, Mine
  <2>4. IsWork(Saved(i))'
    BY <1>5, <2>1 DEF Good, IsWork, IsJob, Saved
  <2> HIDE DEF mine, r
  <2>5. Granting(Saved(i), i)'
    BY <2>1, <2>2, <2>3 DEF Good, Granting
  <2>6. Owning(Saved(i), i)'
    BY <1>1, <2>1, <2>2 DEF Good, Owning, Alive
  <2>7. Continuing(Saved(i), i)'
    BY <1>1, <2>1, <2>2, <2>3 DEF Good, Continuing, Truthful, Alive
  <2>8. Starting(Saved(i), i)'
    BY <1>1, <2>1, <2>2, <2>3 DEF Good, Starting, Unused, Alive
  <2> QED
    BY <2>4, <2>5, <2>6, <2>7, <2>8 DEF Good
<1>10. (DOMAIN job \subseteq Job /\ DOMAIN host = Job /\ DOMAIN snapshot = Job)'
  BY <1>1, <1>4 DEF IInv
<1>11. \A a \in grants' : a.job \in DOMAIN job'
  BY <1>1, <1>4, <1>6 DEF IInv
<1> QED
  BY <1>4, <1>5, <1>7, <1>8, <1>9, <1>10, <1>11 DEF IInv

\* A start finds no session, and what it starts is a later generation.
LEMMA PerformKeeps ==
  ASSUME IInv, NEW a \in grants, Perform(a)
  PROVE  IInv'
<1> DEFINE j == a.job
           h == host[j]
           n == host'[j]
<1>1. j \in Job /\ j \in DOMAIN job /\ HostInv(j) /\ Good(Saved(j), j) /\ DOMAIN host = Job
  BY DEF IInv
<1>2. /\ a \notin h.performed /\ a \notin h.refused /\ a.generation = h.generation
      /\ UNCHANGED <<setup, job, ledger, grants, snapshot>>
  BY DEF Perform, control
<1>3. /\ DOMAIN host' = Job /\ \A i \in Job : i # j => host'[i] = host[i]
      /\ n = CASE a.kind = "START_SESSION" ->
                    [h EXCEPT !.live = @ \cup {a.next}, !.generation = a.next, !.execution = "RUNNING", !.base = h.checkpoint,
                              !.performed = @ \cup {a}]
               [] a.kind = "RESUME_SESSION" -> [h EXCEPT !.execution = "RUNNING", !.base = h.checkpoint, !.performed = @ \cup {a}]
               [] OTHER -> [h EXCEPT !.performed = @ \cup {a}]
  BY <1>1 DEF Perform
<1>4. IsHost(h)
  BY <1>1 DEF HostInv
<1>5. /\ IsHost(n) /\ n.checkpoint = h.checkpoint /\ n.performed = h.performed \cup {a} /\ n.refused = h.refused
      /\ a.kind = "START_SESSION" => n.live = h.live \cup {a.next} /\ n.generation = a.next
      /\ a.kind # "START_SESSION" => n.live = h.live /\ n.generation = h.generation
  <2> HIDE DEF h, n
  <2>1. CASE a.kind = "START_SESSION"
    BY <1>3, <1>4, <2>1 DEF IsHost
  <2>2. CASE a.kind = "RESUME_SESSION"
    BY <1>3, <1>4, <2>2 DEF IsHost
  <2>3. CASE a.kind \notin {"START_SESSION", "RESUME_SESSION"}
    BY <1>3, <1>4, <2>3 DEF IsHost
  <2> QED
    BY <2>1, <2>2, <2>3
<1>6. a.kind = "START_SESSION" => /\ a.generation \in Nat /\ a.next = a.generation + 1
                                  /\ a.owner = None => h.generation = 0
                                  /\ a.owner # None => h.generation \notin h.live
  BY <1>1, <1>2 DEF Good, Starting, Mine, Saved, Unused, Alive
<1>7. Forward(j) /\ HostInv(j)'
  <2> DEFINE first == setup.session[j]
  <2>1. /\ h.generation \in Nat /\ h.checkpoint \in Nat
        /\ h.live \subseteq {h.generation, first}
        /\ h.generation = 0 => h.live \subseteq {first}
        /\ Successors(h.performed) => h.live \subseteq {h.generation}
        /\ h.performed \cap h.refused = {}
        /\ \A b \in h.performed \cup h.refused : b \in grants /\ b.job = j
    BY <1>1 DEF HostInv
  <2>2. CASE a.kind = "START_SESSION"
    <3>1. n.generation = h.generation + 1 /\ n.live = h.live \cup {n.generation} /\ n.generation \in Nat /\ n.generation # 0
      BY <1>2, <1>5, <1>6, <2>1, <2>2
    <3>2. Forward(j)
      BY <1>5, <2>1, <3>1 DEF Forward
    <3>3. h.live \subseteq {first}
      BY <1>6, <2>1, <2>2
    <3>4. n.live \subseteq {n.generation, first}
      BY <3>1, <3>3
    <3>5. Successors(n.performed) => n.live \subseteq {n.generation}
      <4> SUFFICES ASSUME Successors(n.performed) PROVE h.live = {}
        BY <3>1
      <4>1. a.owner # None /\ Successors(h.performed)
        BY <1>5, <2>2 DEF Successors
      <4> QED
        BY <1>6, <2>1, <2>2, <4>1
    <3>6. HostInv(j)'
      BY <1>2, <1>5, <2>1, <3>1, <3>4, <3>5 DEF HostInv
    <3> QED
      BY <3>2, <3>6
  <2>3. CASE a.kind # "START_SESSION"
    <3>1. Forward(j)
      BY <1>5, <2>1, <2>3 DEF Forward, Alive
    <3>2. Successors(n.performed) => Successors(h.performed)
      BY <1>5 DEF Successors
    <3>3. HostInv(j)'
      BY <1>2, <1>5, <2>1, <2>3, <3>2 DEF HostInv
    <3> QED
      BY <3>1, <3>3
  <2> QED
    BY <2>2, <2>3
<1>8. \A i \in Job : Forward(i) /\ HostInv(i)'
  <2> SUFFICES ASSUME NEW i \in Job, i # j PROVE Forward(i) /\ HostInv(i)'
    BY <1>7
  <2>1. HostInv(i) /\ host'[i] = host[i]
    BY <1>3 DEF IInv
  <2> QED
    BY <1>2, <2>1, StaysForward
<1>9. DOMAIN snapshot' = Job /\ \A i \in Job : snapshot'[i] = snapshot[i]
  BY <1>2 DEF IInv
<1> QED
  BY <1>2, <1>3, <1>8, <1>9, HostMoves

\* A session stops at a checkpoint that is not behind it.
LEMMA StopKeeps ==
  ASSUME IInv, NEW j \in Job, Stop(j)
  PROVE  IInv'
<1>1. PICK c \in {host[j].checkpoint, host[j].checkpoint + 1} :
        host' = [host EXCEPT ![j].execution = "IDLE", ![j].checkpoint = c]
  BY DEF Stop
<1>2. UNCHANGED <<setup, job, ledger, grants, snapshot>> /\ HostInv(j)
  BY DEF Stop, control, IInv
<1>3. /\ DOMAIN host' = Job /\ \A i \in Job : i # j => host'[i] = host[i]
      /\ host'[j] = [host[j] EXCEPT !.execution = "IDLE", !.checkpoint = c]
  BY <1>1 DEF IInv
<1>4. IsHost(host[j]) /\ host[j].checkpoint \in Nat /\ c \in Nat /\ host[j].checkpoint <= c
  BY <1>1, <1>2 DEF HostInv
<1>5. /\ IsHost(host'[j]) /\ host'[j].checkpoint = c /\ host'[j].generation = host[j].generation
      /\ host'[j].live = host[j].live /\ host'[j].performed = host[j].performed /\ host'[j].refused = host[j].refused
  BY <1>3, <1>4 DEF IsHost
<1>6. Forward(j) /\ HostInv(j)'
  BY <1>2, <1>4, <1>5 DEF Forward, HostInv, Alive
<1>7. \A i \in Job : Forward(i) /\ HostInv(i)'
  BY <1>2, <1>3, <1>6, StaysForward DEF IInv
<1>8. DOMAIN snapshot' = Job /\ \A i \in Job : snapshot'[i] = snapshot[i]
  BY <1>2 DEF IInv
<1> QED
  BY <1>2, <1>3, <1>7, <1>8, HostMoves

\* A session goes away.
LEMMA RetireKeeps ==
  ASSUME IInv, NEW j \in Job, Retire(j)
  PROVE  IInv'
<1>1. host' = [host EXCEPT ![j].live = @ \ {host[j].generation}] /\ UNCHANGED <<setup, job, ledger, grants, snapshot>> /\ HostInv(j)
  BY DEF Retire, control, IInv
<1>2. /\ DOMAIN host' = Job /\ \A i \in Job : i # j => host'[i] = host[i]
      /\ host'[j] = [host[j] EXCEPT !.live = @ \ {host[j].generation}]
  BY <1>1 DEF IInv
<1>3. /\ IsHost(host'[j]) /\ host'[j].checkpoint = host[j].checkpoint /\ host'[j].generation = host[j].generation
      /\ host'[j].live = host[j].live \ {host[j].generation} /\ host'[j].performed = host[j].performed /\ host'[j].refused = host[j].refused
  BY <1>1, <1>2 DEF HostInv, IsHost
<1>4. Forward(j) /\ HostInv(j)'
  BY <1>1, <1>3 DEF Forward, HostInv, Alive
<1>5. \A i \in Job : Forward(i) /\ HostInv(i)'
  BY <1>1, <1>2, <1>4, StaysForward DEF IInv
<1>6. DOMAIN snapshot' = Job /\ \A i \in Job : snapshot'[i] = snapshot[i]
  BY <1>1 DEF IInv
<1> QED
  BY <1>1, <1>2, <1>5, <1>6, HostMoves

\* A snapshot is true when it is written, and not older than the one it replaces.
LEMMA ObserveKeeps ==
  ASSUME IInv, NEW j \in Job, NEW ack, NEW operator, NEW lifecycle, Observe(j, ack, operator, lifecycle),
         ack = None \/ (j \in DOMAIN job /\ ack.outcome \in Outcome(ack.action))
  PROVE  IInv'
<1> DEFINE s == snapshot'[j]
           a == ack.action
           h == host[j]
           n == host'[j]
<1>1. UNCHANGED <<setup, job, ledger, grants>> /\ HostInv(j) /\ DOMAIN host = Job /\ DOMAIN snapshot = Job
  BY DEF Observe, control, IInv
<1>2. ack # None => a \in grants /\ a.job = j
  BY DEF Observe, IInv, Good, Granting, Mine, Saved
<1>3. host' = IF ack = None \/ a \in h.performed THEN host ELSE [host EXCEPT ![j].refused = @ \cup {a}]
  BY DEF Observe
<1>4. /\ DOMAIN host' = Job /\ \A i \in Job : i # j => host'[i] = host[i]
      /\ n = IF ack = None \/ a \in h.performed THEN h ELSE [h EXCEPT !.refused = @ \cup {a}]
  BY <1>1, <1>3
<1>5. /\ IsHost(n) /\ n.checkpoint = h.checkpoint /\ n.generation = h.generation /\ n.live = h.live
      /\ n.performed = h.performed
      /\ n.refused = IF ack = None \/ a \in h.performed THEN h.refused ELSE h.refused \cup {a}
  <2>1. IsHost(h)
    BY <1>1 DEF HostInv
  <2> HIDE DEF h, n, a
  <2> QED
    BY <1>4, <2>1 DEF IsHost
<1>6. Forward(j) /\ HostInv(j)'
  BY <1>1, <1>2, <1>5 DEF Forward, HostInv, Alive
<1>7. \A i \in Job : Forward(i) /\ HostInv(i)'
  BY <1>1, <1>4, <1>6, StaysForward DEF IInv
<1>8. DOMAIN snapshot' = Job /\ \A i \in Job : i # j => snapshot'[i] = snapshot[i]
  BY <1>1 DEF Observe
<1>9. Renewed(j)
  <2> DEFINE first == setup.session[j]
  <2>1. /\ s.generation = h.generation /\ s.owner = Session(j) /\ s.checkpoint = h.checkpoint
        /\ s.retired => h.generation \notin h.live
        /\ s.ack = ack /\ s.lifecycle = lifecycle
    BY <1>1 DEF Observe, Alive
  <2>2. lifecycle # None => h.generation \in h.live
    BY DEF Observe, Alive
  <2>3. ack # None => /\ ack.outcome = "SUCCEEDED" => a \in n.performed
                      /\ ack.outcome = "NOT_STARTED" => a \in n.refused
    BY <1>2, <1>5 DEF Outcome
  <2>4. /\ h.generation \in Nat /\ h.checkpoint \in Nat
        /\ h.generation = 0 => h.live \subseteq {first}
    BY <1>1 DEF HostInv
  <2>5. Session(j) = IF h.generation = 0 /\ first = None THEN None ELSE h.generation
    BY DEF Session
  <2> HIDE DEF s, h, n, a, first
  <2>6. /\ s.generation \in Nat /\ s.generation <= n.generation
        /\ s.checkpoint \in Nat /\ s.checkpoint <= n.checkpoint
    BY <1>5, <2>1, <2>4
  <2>10. /\ s.generation # 0 => s.owner = s.generation
         /\ s.generation = 0 => s.owner \in {None, 0}
    BY <2>1, <2>5
  <2>11. /\ s.retired /\ s.generation = n.generation => n.generation \notin n.live
         /\ s.lifecycle # None => s.owner # None
    BY <1>5, <2>1, <2>2, <2>4, <2>5, NoneAssumption
  <2>7. s.ack # None => /\ s.ack.outcome = "SUCCEEDED" => s.ack.action \in n.performed
                        /\ s.ack.outcome = "NOT_STARTED" => s.ack.action \in n.refused
    BY <2>1, <2>3 DEF a
  <2>8. Truthful(snapshot[j], j)'
    BY <2>6, <2>7, <2>10, <2>11 DEF Truthful, Alive, s, n
  <2>9. Truthful(snapshot[j], j) => snapshot[j].checkpoint <= snapshot'[j].checkpoint
    BY <2>1 DEF Truthful, s, h
  <2> QED
    BY <2>8, <2>9 DEF Renewed
<1> QED
  BY <1>1, <1>4, <1>7, <1>8, <1>9, HostMoves

\* Budgets and time do not matter.
LEMMA StillKeeps ==
  ASSUME IInv, UNCHANGED <<setup, job, ledger, grants, snapshot, host>>
  PROVE  IInv'
<1>1. \A i \in Job : Forward(i) /\ HostInv(i)'
  BY StaysForward DEF IInv
<1>2. DOMAIN host' = Job /\ DOMAIN snapshot' = Job /\ \A i \in Job : snapshot'[i] = snapshot[i]
  BY DEF IInv
<1> QED
  BY <1>1, <1>2, HostMoves

\* The invariant is inductive.
LEMMA StepKeeps == IInv /\ [Next]_vars => IInv'
<1> SUFFICES ASSUME IInv, [Next]_vars PROVE IInv'
  OBVIOUS
<1>1. ASSUME NEW j \in Configured, NEW e \in setup.events, Control(j, e) PROVE IInv'
  BY <1>1, ControlKeeps DEF Configured
<1>2. ASSUME NEW a \in grants, Perform(a) PROVE IInv'
  BY <1>2, PerformKeeps
<1>3. ASSUME NEW j \in Job, Stop(j) PROVE IInv'
  BY <1>3, StopKeeps
<1>4. ASSUME NEW j \in Job, Retire(j) PROVE IInv'
  BY <1>4, RetireKeeps
<1>5. ASSUME NEW j \in Configured, NEW lifecycle, NEW operator, Observe(j, None, operator, lifecycle) PROVE IInv'
  BY <1>5, ObserveKeeps DEF Configured
<1>6. ASSUME NEW a \in grants, NEW outcome \in Outcome(a),
             Observe(a.job, [action |-> a, outcome |-> outcome], outcome = "NOT_STARTED", None)
      PROVE  IInv'
  <2> DEFINE ack == [action |-> a, outcome |-> outcome]
  <2>1. a.job \in DOMAIN job /\ a.job \in Job /\ ack.outcome \in Outcome(ack.action)
    BY DEF IInv
  <2>2. Observe(a.job, ack, outcome = "NOT_STARTED", None)
    BY <1>6
  <2> HIDE DEF ack
  <2> QED
    BY <2>1, <2>2, ObserveKeeps
<1>7. ASSUME NEW a \in grants, Enter(a) PROVE IInv'
  BY <1>7, StillKeeps DEF Enter, control
<1>8. CASE Tick
  BY <1>8, StillKeeps DEF Tick, control
<1>9. CASE UNCHANGED vars
  BY <1>9, StillKeeps DEF vars, control
<1> QED
  BY <1>1, <1>2, <1>3, <1>4, <1>5, <1>6, <1>7, <1>8, <1>9 DEF Next

\* The invariant holds.
LEMMA InvHolds == Spec => []IInv
BY InitHolds, StepKeeps, PTL DEF Spec

\* A continuation is granted once for a generation and a checkpoint: acknowledge and resume_or_start
\* remember where they continued last, and what is continued later is later.
THEOREM ContinuedOnce == Spec => []OneContinuation
<1>1. IInv => OneContinuation
  <2> SUFFICES ASSUME IInv, NEW a \in grants, NEW b \in grants, a.kind = "RESUME_SESSION", b.kind = "RESUME_SESSION",
                      a.job = b.job, a.generation = b.generation, a.checkpoint = b.checkpoint
               PROVE  a = b
    BY DEF OneContinuation
  <2>1. Continuing(Saved(a.job), a.job)
    BY DEF IInv, Good
  <2>2. a \in Mine(Saved(a.job), a.job) /\ b \in Mine(Saved(a.job), a.job)
    BY DEF Mine, Saved
  <2> QED
    BY <2>1, <2>2 DEF Continuing
<1> QED
  BY <1>1, InvHolds, PTL

\* A job never has two sessions, whatever answers are lost or late and whenever the operator comes in.
THEOREM SessionIsOne == Spec => []OneSession
<1>1. ASSUME NEW S, NEW g, S \subseteq {g} PROVE Cardinality(S) <= 1
  <2>1. S = {} \/ S = {g}
    BY <1>1
  <2>2. Cardinality({}) = 0 /\ Cardinality({g}) = 1
    BY FS_EmptySet, FS_Singleton
  <2> QED
    BY <2>1, <2>2
<1>2. IInv => OneSession
  <2> SUFFICES ASSUME IInv, NEW j \in Job
               PROVE  /\ Cardinality(host[j].live \ {setup.session[j]}) <= 1
                      /\ Successors(host[j].performed) => Cardinality(host[j].live) <= 1
    BY DEF OneSession, Successors
  <2>1. /\ host[j].live \ {setup.session[j]} \subseteq {host[j].generation}
        /\ Successors(host[j].performed) => host[j].live \subseteq {host[j].generation}
    BY DEF IInv, HostInv
  <2> QED
    BY <1>1, <2>1
<1> QED
  BY <1>2, InvHolds, PTL

(***************************************************************************)
(* Every step keeps what is so of the budget.                              *)
(***************************************************************************)
LEMMA MoneyInit == Init => Money
<1> SUFFICES ASSUME Init PROVE Money
  OBVIOUS
<1>1. /\ setup \in Setups /\ grants = {} /\ DOMAIN entries = {}
      /\ ledger.used = 0 /\ DOMAIN ledger.settlement = {}
  BY DEF Init
<1>2. Spent(grants) = {}
  BY <1>1 DEF Spent
<1>3. Entered
  BY <1>1, <1>2 DEF Entered
<1>4. setup.limit # None => 0 <= setup.limit
  BY <1>1, SetupsAssumption
<1>5. IsFiniteSet(Spent(grants)) /\ Cardinality(Spent(grants)) = 0
  BY <1>2, FS_EmptySet
<1>6. Covered(ledger, grants)
  BY <1>2 DEF Covered
<1>7. InBudget(ledger, grants)
  BY <1>1, <1>2, <1>4, <1>5, <1>6 DEF InBudget
<1> QED
  BY <1>1, <1>3, <1>7 DEF Money

LEMMA ControlKeepsMoney ==
  ASSUME IInv, Money, NEW j \in Job, NEW e, Control(j, e)
  PROVE  Money'
<1> DEFINE w == Read(j)
           k == Handle(w, j, e)
<1>1. /\ ledger' = k.ledger /\ grants' = grants \cup k.actions
      /\ entries' = entries /\ setup' = setup
  BY DEF Control, Read
<1>2. Ready(w)
  <2>1. IsWork(w)
    BY ReadGood DEF Good
  <2>2. w.ledger = ledger /\ w.actions = {}
    BY DEF Read
  <2> HIDE DEF w
  <2>3. Spent(w.actions) = {} /\ grants \cup w.actions = grants
    BY <2>2 DEF Spent
  <2>4. InBudget(w.ledger, grants \cup w.actions)
    BY <2>2, <2>3 DEF Money
  <2> QED
    BY <2>1, <2>3, <2>4 DEF Ready, Sound
<1> HIDE DEF w
<1>3. Sound(k)
  BY <1>2, HandleSound
<1> HIDE DEF k
<1>4. InBudget(ledger, grants)'
  BY <1>1, <1>3 DEF Sound, InBudget, Covered, Spent, Committed, Exposure
<1>5. Entered'
  BY <1>1 DEF Money, Entered, Spent
<1> QED
  BY <1>1, <1>4, <1>5 DEF Money

\* An entry takes the place of a reservation, and is not more.
LEMMA EnterKeepsMoney ==
  ASSUME Money, NEW a \in grants, Enter(a)
  PROVE  Money'
<1>1. /\ setup.budget # None /\ a.kind \in Spending /\ a \notin DOMAIN entries
      /\ setup' = setup /\ ledger' = ledger /\ grants' = grants
      /\ DOMAIN entries' = DOMAIN entries \cup {a}
      /\ \A b \in DOMAIN entries : entries'[b] = entries[b]
      /\ entries'[a].reserved = 0 /\ entries'[a].provenance = "MEASURED"
      /\ entries'[a].consumed \in {0, setup.budget.next}
  BY DEF Enter, control
<1>2. a \in Spent(grants) /\ Spent(grants)' = Spent(grants)
  BY <1>1 DEF Spent
<1>3. Entered'
  BY <1>1, <1>2 DEF Money, Entered
<1> DEFINE S == Spent(grants)
           f == [x \in S |-> Exposure(x)]
           g == [x \in S |-> Exposure(x)']
<1>4. IsFiniteSet(S) /\ (S # {} => Committed(S) < setup.budget.hard) /\ S \subseteq DOMAIN ledger.settlement \cup DOMAIN entries
  BY <1>1 DEF Money, InBudget, Covered
<1>5. setup.budget.next \in Nat /\ setup.budget.hard \in Nat
  BY <1>1, SetupNumbers
<1>6. \A x \in S : f[x] \in Nat /\ g[x] \in Nat /\ g[x] <= f[x]
  <2> SUFFICES ASSUME NEW x \in S PROVE Exposure(x) \in Nat /\ Exposure(x)' \in Nat /\ Exposure(x)' <= Exposure(x)
    OBVIOUS
  <2>1. CASE x = a
    BY <1>1, <1>5, <2>1 DEF Exposure
  <2>2. CASE x # a
    <3>1. Exposure(x) \in Nat
      BY <1>1, ExposureIsNat
    <3>2. Exposure(x)' = Exposure(x)
      BY <1>1, <2>2 DEF Exposure
    <3> QED
      BY <3>1, <3>2
  <2> QED
    BY <2>1, <2>2
<1>7. Committed(S) = Total(f, S)
  BY DEF Committed
<1>8. Committed(Spent(grants))' = Total(g, S)
  BY <1>2 DEF Committed
<1> HIDE DEF f, g
<1>9. Total(g, S) <= Total(f, S) /\ Total(f, S) \in Int /\ Total(g, S) \in Int
  BY <1>4, <1>6, TotalMonotone, TotalNat
<1>10. (Spent(grants) # {} => Committed(Spent(grants)) < setup.budget.hard)'
  BY <1>1, <1>2, <1>4, <1>5, <1>7, <1>8, <1>9
<1>11. Covered(ledger, grants)'
  BY <1>1, <1>2, <1>4, <1>10 DEF Covered
<1>12. InBudget(ledger, grants)'
  BY <1>1, <1>2, <1>11 DEF Money, InBudget
<1> QED
  BY <1>1, <1>3, <1>12 DEF Money

LEMMA StillKeepsMoney ==
  ASSUME Money, UNCHANGED <<setup, ledger, grants, entries>>
  PROVE  Money'
BY DEF Money, Entered, InBudget, Covered, Spent, Committed, Exposure

LEMMA MoneyHolds == Spec => []Money
<1>1. ASSUME IInv, Money, [Next]_vars PROVE Money'
  <2>1. ASSUME NEW j \in Configured, NEW e \in setup.events, Control(j, e) PROVE Money'
    BY <1>1, <2>1, ControlKeepsMoney DEF Configured
  <2>2. ASSUME NEW a \in grants, Perform(a) PROVE Money'
    BY <1>1, <2>2, StillKeepsMoney DEF Perform, control
  <2>3. ASSUME NEW j \in Job, Stop(j) \/ Retire(j) PROVE Money'
    BY <1>1, <2>3, StillKeepsMoney DEF Stop, Retire, control
  <2>4. ASSUME NEW j, NEW ack, NEW operator, NEW lifecycle, Observe(j, ack, operator, lifecycle) PROVE Money'
    BY <1>1, <2>4, StillKeepsMoney DEF Observe, control
  <2>5. ASSUME NEW a \in grants, Enter(a) PROVE Money'
    BY <1>1, <2>5, EnterKeepsMoney
  <2>6. CASE Tick
    BY <1>1, <2>6, StillKeepsMoney DEF Tick, control
  <2>7. CASE UNCHANGED vars
    BY <1>1, <2>7, StillKeepsMoney DEF vars, control
  <2> QED
    BY <1>1, <2>1, <2>2, <2>3, <2>4, <2>5, <2>6, <2>7 DEF Next
<1> QED
  BY <1>1, MoneyInit, InvHolds, PTL DEF Spec

\* Over all jobs that share them, grants stay within the bound on dispatches and below the hard limit
\* of the budget file: reserve counts a grant that has no entry yet with its reservation.
THEOREM GrantsAreCovered == Spec => []NoOverspending
<1>1. Money => NoOverspending
  <2> SUFFICES ASSUME Money PROVE NoOverspending
    OBVIOUS
  <2>1. IsFiniteSet(Spent(grants)) /\ Cardinality(Spent(grants)) \in Nat
    BY FS_CardinalityType DEF Money, InBudget
  <2>2. setup.limit # None => Cardinality(Spent(grants)) <= setup.limit
    BY <2>1, SetupNumbers DEF Money, InBudget
  <2>3. setup.budget # None /\ Spent(grants) # {} => Committed(Spent(grants)) < setup.budget.hard
    BY DEF Money, InBudget, Covered
  <2> QED
    BY <2>2, <2>3 DEF NoOverspending
<1> QED
  BY <1>1, MoneyHolds, PTL
=============================================================================
