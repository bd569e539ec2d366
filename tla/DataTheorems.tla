----------------------------- MODULE DataTheorems -----------------------------
(***************************************************************************)
(* What is computed by recursion. The theorems on induction that the       *)
(* library has take a predicate; here a claim about all numbers, or about  *)
(* all subsets of a finite set, is proved of the smallest one it could     *)
(* fail for.                                                               *)
(***************************************************************************)
EXTENDS Sums, FiniteSetTheorems, WellFoundedInduction, TLAPS

(***************************************************************************)
(* Induction: of a set of natural numbers, or of subsets of a finite set,  *)
(* that is not empty, one is minimal.                                      *)
(***************************************************************************)
LEMMA LeastNumber ==
  ASSUME NEW T \in SUBSET Nat, T # {}
  PROVE  \E n \in T : \A m \in T : n <= m
<1>1. \E n \in T : \A m \in T : <<m, n>> \notin OpToRel(<, Nat)
  BY NatLessThanWellFounded, WFMin
<1>2. OpToRel(<, Nat) = {p \in Nat \X Nat : p[1] < p[2]}
  BY Zenon DEF OpToRel
<1>3. PICK n \in T : \A m \in T : <<m, n>> \notin {p \in Nat \X Nat : p[1] < p[2]}
  BY <1>1, <1>2, Zenon
<1>4. \A m \in Nat : m < n => <<m, n>> \in {p \in Nat \X Nat : p[1] < p[2]}
  OBVIOUS
<1>5. ASSUME NEW m \in T
      PROVE  n <= m
  <2>1. m \in Nat /\ n \in Nat
    OBVIOUS
  <2>2. ~(m < n)
    BY <1>3, <1>4, <2>1
  <2> QED
    BY <2>1, <2>2
<1> QED
  BY <1>5

LEMMA MinimalSubset ==
  ASSUME NEW S, IsFiniteSet(S), NEW T \in SUBSET (SUBSET S), T # {}
  PROVE  \E s \in T : \A x \in s : s \ {x} \notin T
<1> DEFINE sizes == {Cardinality(s) : s \in T}
<1>1. \A s \in T : IsFiniteSet(s) /\ Cardinality(s) \in Nat
  BY FS_Subset, FS_CardinalityType
<1>2. sizes \in SUBSET Nat /\ sizes # {}
  BY <1>1
<1>3. PICK n \in sizes : \A m \in sizes : n <= m
  BY <1>2, LeastNumber
<1>4. PICK s \in T : Cardinality(s) = n
  BY <1>3
<1>5. \A x \in s : Cardinality(s \ {x}) = n - 1
  BY <1>1, <1>4, FS_RemoveElement
<1>6. ASSUME NEW x \in s, s \ {x} \in T
      PROVE  FALSE
  <2>1. n - 1 \in sizes
    BY <1>5, <1>6
  <2> HIDE DEF sizes
  <2> QED
    BY <1>2, <1>3, <2>1
<1> QED
  BY <1>6

(***************************************************************************)
(* Sums over finite sets (Sums): whatever the order in which the fold     *)
(* takes the elements, a sum is that of the elements.                      *)
(*                                                                         *)
(* The recursion the sum is defined by has a solution, and what it yields  *)
(* for a set depends on the values on that set only.                       *)
(***************************************************************************)
Pick(s) == CHOOSE x \in s : TRUE
Step(F, f, s) == IF s = {} THEN 0 ELSE f[Pick(s)] + F[s \ {Pick(s)}]
Solves(F, f, S) == F = [s \in SUBSET S |-> Step(F, f, s)]

LEMMA TotalIsStep ==
  ASSUME NEW f, NEW S
  PROVE  Total(f, S) = (CHOOSE F : Solves(F, f, S))[S]
BY DEF Total, MapThenSumSet, MapThenFoldSet, Solves, Step, Pick

SolvesUpTo(f, S, n) ==
  \E F : F = [s \in SUBSET S |-> F[s]] /\ \A s \in SUBSET S : Cardinality(s) <= n => F[s] = Step(F, f, s)

LEMMA SolutionUpTo ==
  ASSUME NEW f, NEW S, IsFiniteSet(S), NEW n \in Nat
  PROVE  SolvesUpTo(f, S, n)
<1> DEFINE T == {m \in Nat : ~SolvesUpTo(f, S, m)}
<1>0. \A s \in SUBSET S : IsFiniteSet(s) /\ Cardinality(s) \in Nat /\ (Cardinality(s) = 0 <=> s = {})
  BY FS_Subset, FS_CardinalityType, FS_EmptySet
<1>1. SolvesUpTo(f, S, 0)
  <2> DEFINE F == [s \in SUBSET S |-> 0]
  <2>1. F = [s \in SUBSET S |-> F[s]] /\ \A s \in SUBSET S : Cardinality(s) <= 0 => F[s] = Step(F, f, s)
    BY <1>0 DEF Step
  <2> QED
    BY <2>1 DEF SolvesUpTo
<1>2. ASSUME NEW m \in Nat, SolvesUpTo(f, S, m)
      PROVE  SolvesUpTo(f, S, m + 1)
  <2>1. PICK F : F = [s \in SUBSET S |-> F[s]] /\ \A s \in SUBSET S : Cardinality(s) <= m => F[s] = Step(F, f, s)
    BY <1>2 DEF SolvesUpTo
  <2> DEFINE G == [s \in SUBSET S |-> IF Cardinality(s) <= m THEN F[s] ELSE Step(F, f, s)]
  <2>2. ASSUME NEW s \in SUBSET S, Cardinality(s) <= m + 1
        PROVE  G[s] = Step(G, f, s)
    <3>1. CASE s = {}
      BY <3>1, <1>0, <2>1 DEF Step
    <3>2. CASE s # {}
      <4> DEFINE r == s \ {Pick(s)}
      <4>1. Pick(s) \in s
        BY <3>2 DEF Pick
      <4>2. r \in SUBSET S /\ Cardinality(r) = Cardinality(s) - 1
        BY <4>1, <1>0, FS_RemoveElement
      <4>3. G[r] = F[r]
        BY <4>2, <2>2, <1>0
      <4>4. Step(F, f, s) = Step(G, f, s)
        BY <4>3, <3>2 DEF Step
      <4>5. F[s] = Step(F, f, s) \/ ~(Cardinality(s) <= m)
        BY <2>1
      <4> QED
        BY <4>4, <4>5
    <3> QED
      BY <3>1, <3>2
  <2>3. G = [s \in SUBSET S |-> G[s]]
    OBVIOUS
  <2> QED
    BY <2>2, <2>3 DEF SolvesUpTo
<1>3. T = {}
  <2> SUFFICES ASSUME T # {} PROVE FALSE
    OBVIOUS
  <2>1. PICK m \in T : \A k \in T : m <= k
    BY LeastNumber
  <2>2. m # 0
    BY <2>1, <1>1
  <2>3. m - 1 \in Nat /\ SolvesUpTo(f, S, m - 1)
    BY <2>1, <2>2
  <2>4. SolvesUpTo(f, S, (m - 1) + 1)
    BY <2>3, <1>2
  <2> QED
    BY <2>1, <2>4
<1>4. SolvesUpTo(f, S, n)
  BY <1>3
<1> QED
  BY <1>4

LEMMA Solution ==
  ASSUME NEW f, NEW S, IsFiniteSet(S)
  PROVE  \E F : Solves(F, f, S)
<1>1. Cardinality(S) \in Nat /\ \A s \in SUBSET S : Cardinality(s) <= Cardinality(S)
  BY FS_CardinalityType, FS_Subset
<1>2. PICK F : F = [s \in SUBSET S |-> F[s]] /\ \A s \in SUBSET S : Cardinality(s) <= Cardinality(S) => F[s] = Step(F, f, s)
  <2>1. SolvesUpTo(f, S, Cardinality(S))
    BY <1>1, SolutionUpTo
  <2> QED
    BY <2>1 DEF SolvesUpTo
<1>3. F = [s \in SUBSET S |-> Step(F, f, s)]
  BY <1>1, <1>2
<1> QED
  BY <1>3 DEF Solves

AgreesOn(f, g, S) == \A x \in S : f[x] = g[x]

LEMMA SolutionsAgree ==
  ASSUME NEW f, NEW g, NEW U, NEW V, NEW F, NEW G, NEW S,
         Solves(F, f, U), Solves(G, g, V), S \subseteq U, S \subseteq V, IsFiniteSet(S), AgreesOn(f, g, S)
  PROVE  F[S] = G[S]
<1> DEFINE T == {s \in SUBSET S : F[s] # G[s]}
<1> SUFFICES ASSUME T # {} PROVE FALSE
  OBVIOUS
<1>1. PICK s \in T : \A x \in s : s \ {x} \notin T
  BY MinimalSubset
<1>2. \A r \in SUBSET S : F[r] = Step(F, f, r) /\ G[r] = Step(G, g, r)
  BY DEF Solves
<1>3. CASE s = {}
  BY <1>1, <1>2, <1>3 DEF Step
<1>4. CASE s # {}
  <2>1. Pick(s) \in s
    BY <1>4 DEF Pick
  <2>2. F[s \ {Pick(s)}] = G[s \ {Pick(s)}]
    BY <1>1, <2>1
  <2>3. f[Pick(s)] = g[Pick(s)]
    BY <1>1, <2>1 DEF AgreesOn
  <2> QED
    BY <1>1, <1>2, <1>4, <2>2, <2>3 DEF Step
<1> QED
  BY <1>3, <1>4

(***************************************************************************)
(* The sum.                                                                *)
(***************************************************************************)
LEMMA TotalOfSolution ==
  ASSUME NEW f, NEW S, IsFiniteSet(S), NEW U, S \in SUBSET U, NEW F, Solves(F, f, U)
  PROVE  Total(f, S) = F[S]
<1> DEFINE G == CHOOSE H : Solves(H, f, S)
<1>1. Solves(G, f, S)
  BY Solution
<1>2. Total(f, S) = G[S]
  BY TotalIsStep
<1> HIDE DEF G
<1>3. S \subseteq S /\ S \subseteq U /\ AgreesOn(f, f, S)
  BY DEF AgreesOn
<1>4. G[S] = F[S]
  BY <1>1, <1>3, SolutionsAgree
<1> QED
  BY <1>2, <1>4

\* Functions that agree on a set have the same sum over it.
LEMMA TotalSame ==
  ASSUME NEW f, NEW g, NEW S, IsFiniteSet(S), \A x \in S : f[x] = g[x]
  PROVE  Total(f, S) = Total(g, S)
<1>1. PICK F : Solves(F, f, S)
  BY Solution
<1>2. PICK G : Solves(G, g, S)
  BY Solution
<1>3. F[S] = G[S]
  <2>1. S \subseteq S /\ AgreesOn(f, g, S)
    BY DEF AgreesOn
  <2> QED
    BY <1>1, <1>2, <2>1, SolutionsAgree
<1>4. Total(f, S) = F[S] /\ Total(g, S) = G[S]
  BY <1>1, <1>2, TotalOfSolution
<1> QED
  BY <1>3, <1>4

LEMMA TotalEmpty ==
  ASSUME NEW f
  PROVE  Total(f, {}) = 0
<1>1. IsFiniteSet({})
  BY FS_EmptySet
<1>2. PICK F : Solves(F, f, {})
  BY <1>1, Solution
<1>3. F[{}] = 0
  BY <1>2 DEF Solves, Step
<1> QED
  BY <1>1, <1>2, <1>3, TotalOfSolution

LEMMA TotalPick ==
  ASSUME NEW f, NEW S, IsFiniteSet(S), S # {}
  PROVE  Total(f, S) = f[Pick(S)] + Total(f, S \ {Pick(S)})
<1>1. PICK F : Solves(F, f, S)
  BY Solution
<1>2. F[S] = f[Pick(S)] + F[S \ {Pick(S)}]
  BY <1>1 DEF Solves, Step
<1>3. IsFiniteSet(S \ {Pick(S)})
  BY FS_RemoveElement
<1>4. Total(f, S) = F[S]
  BY <1>1, TotalOfSolution
<1>5. Total(f, S \ {Pick(S)}) = F[S \ {Pick(S)}]
  BY <1>1, <1>3, TotalOfSolution
<1> QED
  BY <1>2, <1>4, <1>5

\* A sum of integers is one, and of natural numbers too.
LEMMA TotalType ==
  ASSUME NEW f, NEW S, IsFiniteSet(S), \A x \in S : f[x] \in Int
  PROVE  Total(f, S) \in Int
<1> DEFINE T == {s \in SUBSET S : Total(f, s) \notin Int}
<1> SUFFICES ASSUME T # {} PROVE FALSE
  OBVIOUS
<1>1. PICK s \in T : \A x \in s : s \ {x} \notin T
  BY MinimalSubset
<1>2. s # {}
  BY <1>1, TotalEmpty
<1>3. Pick(s) \in s
  BY <1>2 DEF Pick
<1>4. IsFiniteSet(s)
  BY FS_Subset
<1>5. Total(f, s \ {Pick(s)}) \in Int
  BY <1>1, <1>3
<1>6. f[Pick(s)] \in Int
  BY <1>1, <1>3
<1>7. Total(f, s) = f[Pick(s)] + Total(f, s \ {Pick(s)})
  BY <1>2, <1>4, TotalPick
<1> QED
  BY <1>1, <1>5, <1>6, <1>7

LEMMA TotalNat ==
  ASSUME NEW f, NEW S, IsFiniteSet(S), \A x \in S : f[x] \in Nat
  PROVE  Total(f, S) \in Nat
<1> DEFINE T == {s \in SUBSET S : Total(f, s) \notin Nat}
<1> SUFFICES ASSUME T # {} PROVE FALSE
  OBVIOUS
<1>1. PICK s \in T : \A x \in s : s \ {x} \notin T
  BY MinimalSubset
<1>2. s # {}
  BY <1>1, TotalEmpty
<1>3. Pick(s) \in s
  BY <1>2 DEF Pick
<1>4. IsFiniteSet(s)
  BY FS_Subset
<1>5. Total(f, s \ {Pick(s)}) \in Nat
  BY <1>1, <1>3
<1>6. f[Pick(s)] \in Nat
  BY <1>1, <1>3
<1>7. Total(f, s) = f[Pick(s)] + Total(f, s \ {Pick(s)})
  BY <1>2, <1>4, TotalPick
<1> QED
  BY <1>1, <1>5, <1>6, <1>7

\* Any element may be taken out first.
LEMMA TotalRemove ==
  ASSUME NEW f, NEW S, IsFiniteSet(S), \A x \in S : f[x] \in Int, NEW y \in S
  PROVE  Total(f, S) = f[y] + Total(f, S \ {y})
<1> DEFINE T == {s \in SUBSET S : \E x \in s : Total(f, s) # f[x] + Total(f, s \ {x})}
<1> SUFFICES ASSUME T # {} PROVE FALSE
  OBVIOUS
<1>1. PICK s \in T : \A x \in s : s \ {x} \notin T
  BY MinimalSubset
<1>2. PICK x \in s : Total(f, s) # f[x] + Total(f, s \ {x})
  BY <1>1
<1> DEFINE p == Pick(s)
<1>3. p \in s
  BY <1>2 DEF Pick
<1>4. \A r \in SUBSET S : IsFiniteSet(r) /\ Total(f, r) \in Int
  BY FS_Subset, TotalType
<1>5. Total(f, s) = f[p] + Total(f, s \ {p})
  BY <1>2, <1>4, TotalPick
<1>6. x # p
  BY <1>2, <1>5
<1>7. Total(f, s \ {p}) = f[x] + Total(f, (s \ {p}) \ {x})
  BY <1>1, <1>2, <1>3, <1>6
<1>8. Total(f, s \ {x}) = f[p] + Total(f, (s \ {x}) \ {p})
  BY <1>1, <1>2, <1>3, <1>6
<1>9. (s \ {p}) \ {x} = (s \ {x}) \ {p} /\ (s \ {p}) \ {x} \in SUBSET S
  OBVIOUS
<1>10. f[x] \in Int /\ f[p] \in Int /\ Total(f, (s \ {p}) \ {x}) \in Int
  BY <1>1, <1>3, <1>4, <1>9
<1> HIDE DEF p
<1> QED
  BY <1>2, <1>5, <1>7, <1>8, <1>9, <1>10

LEMMA TotalAdd ==
  ASSUME NEW f, NEW S, IsFiniteSet(S), NEW y, y \notin S, \A x \in S \cup {y} : f[x] \in Int
  PROVE  Total(f, S \cup {y}) = f[y] + Total(f, S)
<1>1. IsFiniteSet(S \cup {y}) /\ (S \cup {y}) \ {y} = S
  BY FS_AddElement
<1> QED
  BY <1>1, TotalRemove

\* Sums are ordered like what they add up.
LEMMA TotalMonotone ==
  ASSUME NEW f, NEW g, NEW S, IsFiniteSet(S), \A x \in S : f[x] \in Int /\ g[x] \in Int /\ f[x] <= g[x]
  PROVE  Total(f, S) <= Total(g, S)
<1> DEFINE T == {s \in SUBSET S : ~(Total(f, s) <= Total(g, s))}
<1> SUFFICES ASSUME T # {} PROVE FALSE
  OBVIOUS
<1>1. PICK s \in T : \A x \in s : s \ {x} \notin T
  BY MinimalSubset
<1>2. s # {}
  BY <1>1, TotalEmpty
<1>3. PICK x : x \in s
  BY <1>2
<1>4. IsFiniteSet(s) /\ IsFiniteSet(s \ {x})
  BY FS_Subset
<1>5. Total(f, s \ {x}) <= Total(g, s \ {x})
  BY <1>1, <1>3
<1>6. Total(f, s) = f[x] + Total(f, s \ {x}) /\ Total(g, s) = g[x] + Total(g, s \ {x})
  BY <1>3, <1>4, TotalRemove
<1>7. /\ f[x] \in Int /\ g[x] \in Int /\ f[x] <= g[x]
      /\ Total(f, s \ {x}) \in Int /\ Total(g, s \ {x}) \in Int
  BY <1>3, <1>4, TotalType
<1> QED
  BY <1>1, <1>5, <1>6, <1>7

LEMMA TotalSubset ==
  ASSUME NEW f, NEW S, IsFiniteSet(S), \A x \in S : f[x] \in Nat, NEW R \in SUBSET S
  PROVE  Total(f, R) <= Total(f, S)
<1> DEFINE T == {s \in SUBSET S : R \in SUBSET s /\ ~(Total(f, R) <= Total(f, s))}
<1> SUFFICES ASSUME T # {} PROVE FALSE
  OBVIOUS
<1>0. T \in SUBSET (SUBSET S)
  OBVIOUS
<1>1. PICK s \in T : \A x \in s : s \ {x} \notin T
  <2> HIDE DEF T
  <2> QED
    BY <1>0, MinimalSubset
<1>2. \A r \in SUBSET S : IsFiniteSet(r) /\ Total(f, r) \in Nat
  BY FS_Subset, TotalNat
<1>3. s # R
  BY <1>1, <1>2
<1>4. PICK x \in s : x \notin R
  BY <1>1, <1>3
<1>5. Total(f, R) <= Total(f, s \ {x})
  BY <1>1, <1>4
<1>6. Total(f, s) = f[x] + Total(f, s \ {x})
  BY <1>2, <1>4, TotalRemove
<1>7. f[x] \in Nat /\ Total(f, R) \in Nat /\ Total(f, s \ {x}) \in Nat /\ Total(f, s) \in Nat
  BY <1>1, <1>2, <1>4
<1> QED
  BY <1>1, <1>5, <1>6, <1>7

(***************************************************************************)
(* What is repeated: a function that is defined by recursion over the      *)
(* natural numbers has a solution, and sets that only shrink, or only      *)
(* grow, come to rest.                                                     *)
(***************************************************************************)
Iterates(F, step, first, n) ==
  F[0] = first /\ \A k \in Nat : k < n => F[k + 1] = step[F[k]]

LEMMA IteratesUpTo ==
  ASSUME NEW T, NEW step \in [T -> T], NEW first \in T, NEW n \in Nat
  PROVE  \E F \in [Nat -> T] : Iterates(F, step, first, n)
<1> DEFINE Bad == {m \in Nat : ~\E F \in [Nat -> T] : Iterates(F, step, first, m)}
<1>1. \E F \in [Nat -> T] : Iterates(F, step, first, 0)
  <2> DEFINE F == [k \in Nat |-> first]
  <2>1. F \in [Nat -> T] /\ F[0] = first
    OBVIOUS
  <2>2. Iterates(F, step, first, 0)
    BY <2>1 DEF Iterates
  <2> QED
    BY <2>1, <2>2
<1>2. ASSUME NEW m \in Nat, NEW F \in [Nat -> T], Iterates(F, step, first, m)
      PROVE  \E G \in [Nat -> T] : Iterates(G, step, first, m + 1)
  <2> DEFINE G == [k \in Nat |-> IF k = m + 1 THEN step[F[m]] ELSE F[k]]
  <2>1. G \in [Nat -> T]
    OBVIOUS
  <2>2. \A k \in Nat : k < m + 1 => G[k + 1] = step[G[k]]
    BY <1>2 DEF Iterates
  <2>3. G[0] = first
    BY <1>2 DEF Iterates
  <2> QED
    BY <2>1, <2>2, <2>3 DEF Iterates
<1>3. Bad = {}
  <2> SUFFICES ASSUME Bad # {} PROVE FALSE
    OBVIOUS
  <2>1. PICK m \in Bad : \A k \in Bad : m <= k
    BY LeastNumber
  <2>2. m # 0 /\ m \in Nat
    BY <2>1, <1>1
  <2>3. m - 1 \in Nat /\ m - 1 \notin Bad
    BY <2>1, <2>2
  <2>4. PICK F \in [Nat -> T] : Iterates(F, step, first, m - 1)
    BY <2>3
  <2>5. \E G \in [Nat -> T] : Iterates(G, step, first, (m - 1) + 1)
    BY <2>3, <2>4, <1>2
  <2>6. (m - 1) + 1 = m
    BY <2>2
  <2> QED
    BY <2>1, <2>5, <2>6
<1> QED
  BY <1>3

LEMMA IteratesAgree ==
  ASSUME NEW step, NEW first, NEW F, NEW G, NEW m \in Nat, NEW n \in Nat,
         Iterates(F, step, first, m), Iterates(G, step, first, n),
         NEW k \in Nat, k <= m, k <= n
  PROVE  F[k] = G[k]
<1> DEFINE Bad == {i \in Nat : i <= m /\ i <= n /\ F[i] # G[i]}
<1> SUFFICES ASSUME Bad # {} PROVE FALSE
  OBVIOUS
<1>1. PICK i \in Bad : \A j \in Bad : i <= j
  BY LeastNumber
<1>2. i # 0 /\ i \in Nat /\ i <= m /\ i <= n
  BY <1>1 DEF Iterates
<1>3. i - 1 \in Nat /\ i - 1 \notin Bad /\ i - 1 < m /\ i - 1 < n
  BY <1>1, <1>2
<1>4. F[i - 1] = G[i - 1]
  BY <1>2, <1>3
<1>5. F[(i - 1) + 1] = step[F[i - 1]] /\ G[(i - 1) + 1] = step[G[i - 1]]
  BY <1>3 DEF Iterates
<1>6. (i - 1) + 1 = i
  BY <1>2
<1> QED
  BY <1>1, <1>4, <1>5, <1>6

Iteration(F, step, first) == F[0] = first /\ \A n \in Nat : F[n + 1] = step[F[n]]

LEMMA IterationExists ==
  ASSUME NEW T, NEW step \in [T -> T], NEW first \in T
  PROVE  \E F \in [Nat -> T] : Iteration(F, step, first)
<1> DEFINE P(n) == CHOOSE F \in [Nat -> T] : Iterates(F, step, first, n)
           G == [n \in Nat |-> P(n)[n]]
<1>1. \A n \in Nat : P(n) \in [Nat -> T] /\ Iterates(P(n), step, first, n)
  BY IteratesUpTo
<1> HIDE DEF P
<1>2. G \in [Nat -> T] /\ G[0] = first
  BY <1>1 DEF Iterates
<1>3. ASSUME NEW n \in Nat PROVE G[n + 1] = step[G[n]]
  <2>1. P(n + 1)[n] = P(n)[n]
    BY <1>1, IteratesAgree
  <2>2. P(n + 1)[n + 1] = step[P(n + 1)[n]]
    BY <1>1 DEF Iterates
  <2> QED
    BY <2>1, <2>2
<1> HIDE DEF G
<1> QED
  BY <1>2, <1>3 DEF Iteration

LEMMA Descends ==
  ASSUME NEW F, \A n \in Nat : F[n + 1] \subseteq F[n], NEW n \in Nat
  PROVE  F[n] \subseteq F[0]
<1> DEFINE Bad == {i \in Nat : ~(F[i] \subseteq F[0])}
<1> SUFFICES ASSUME Bad # {} PROVE FALSE
  OBVIOUS
<1>1. PICK i \in Bad : \A j \in Bad : i <= j
  BY LeastNumber
<1>2. i # 0 /\ i \in Nat /\ ~(F[i] \subseteq F[0])
  BY <1>1
<1>3. i - 1 \in Nat /\ i - 1 \notin Bad /\ (i - 1) + 1 = i
  BY <1>1, <1>2
<1>4. F[(i - 1) + 1] \subseteq F[i - 1] /\ F[i - 1] \subseteq F[0]
  BY <1>3
<1> QED
  BY <1>2, <1>3, <1>4

\* Sets that shrink, and stay as they are once they do not, come to rest.
LEMMA DescentRests ==
  ASSUME NEW F, IsFiniteSet(F[0]), \A n \in Nat : F[n + 1] \subseteq F[n],
         \A n \in Nat : F[n + 1] = F[n] => F[n + 2] = F[n + 1]
  PROVE  F[Cardinality(F[0]) + 1] = F[Cardinality(F[0])]
<1> DEFINE C == Cardinality(F[0])
           Bad == {i \in Nat : F[i + 1] # F[i] /\ ~(Cardinality(F[i]) + i <= C)}
<1>1. \A n \in Nat : IsFiniteSet(F[n]) /\ Cardinality(F[n]) \in Nat
  <2> TAKE n \in Nat
  <2>1. F[n] \subseteq F[0]
    BY Descends
  <2> QED
    BY <2>1, FS_Subset, FS_CardinalityType
<1>2. Bad = {}
  <2> SUFFICES ASSUME Bad # {} PROVE FALSE
    OBVIOUS
  <2>1. PICK i \in Bad : \A j \in Bad : i <= j
    BY LeastNumber
  <2>2. i # 0 /\ i \in Nat
    BY <2>1, <1>1
  <2> DEFINE h == i - 1
  <2>3. h \in Nat /\ h \notin Bad /\ h + 1 = i /\ h + 2 = i + 1
    BY <2>1, <2>2
  <2>4. F[h + 1] # F[h]
    BY <2>1, <2>3
  <2>5. Cardinality(F[h]) + h <= C
    BY <2>3, <2>4
  <2>6. F[i] \subseteq F[h] /\ F[i] # F[h]
    BY <2>3, <2>4
  <2>7. Cardinality(F[i]) < Cardinality(F[h])
    <3>1. IsFiniteSet(F[h]) /\ Cardinality(F[h]) \in Nat /\ Cardinality(F[i]) \in Nat
      BY <1>1, <2>2, <2>3
    <3>2. Cardinality(F[i]) <= Cardinality(F[h]) /\ Cardinality(F[i]) # Cardinality(F[h])
      BY <2>6, <3>1, FS_Subset
    <3> QED
      BY <3>1, <3>2
  <2> HIDE DEF h, C
  <2>8. C \in Nat
    BY <1>1 DEF C
  <2>9. Cardinality(F[i]) \in Nat /\ Cardinality(F[h]) \in Nat
    BY <1>1, <2>2, <2>3
  <2>10. Cardinality(F[i]) + i <= C
    BY <2>2, <2>3, <2>5, <2>7, <2>8, <2>9
  <2> QED
    BY <2>1, <2>10
<1>3. C \in Nat
  BY <1>1
<1>4. CASE Cardinality(F[C]) + C <= C
  <2>1. Cardinality(F[C]) = 0
    BY <1>1, <1>3, <1>4
  <2>2. F[C] = {}
    BY <1>1, <1>3, <2>1, FS_EmptySet
  <2>3. F[C + 1] \subseteq F[C]
    BY <1>3
  <2> QED
    BY <2>2, <2>3
<1> QED
  BY <1>2, <1>3, <1>4
===============================================================================
