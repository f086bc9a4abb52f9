----------------------------- MODULE DataLemmas -----------------------------
(***************************************************************************)
(* Facts about data that the proofs of several components need.            *)
(***************************************************************************)
EXTENDS Filtering, SequencesExt, FiniteSetTheorems, WellFoundedInduction, TLAPS

(* Induction, with a set of numbers where the usual rule has a predicate.  *)
LEMMA Induction ==
    ASSUME NEW S, 0 \in S, \A n \in Nat : n \in S => n + 1 \in S
    PROVE  Nat \subseteq S
<1>. DEFINE T == Nat \ S
            R == OpToRel(<, Nat)
<1>1. SUFFICES ASSUME T # {} PROVE FALSE
  OBVIOUS
<1>2. PICK m \in T : \A y \in T : <<y, m>> \notin R
  <2>. HIDE DEF R
  <2>1. IsWellFoundedOn(R, Nat)
    BY NatLessThanWellFounded DEF R
  <2>2. T \subseteq Nat
    OBVIOUS
  <2>. HIDE DEF T
  <2>. QED  BY <1>1, <2>1, <2>2, WFMin
<1>3. m # 0 /\ m \in Nat /\ m - 1 \in Nat
  OBVIOUS
<1>4. m - 1 \in T
  BY <1>3
<1>5. <<m - 1, m>> \in R
  BY <1>3 DEF OpToRel
<1>. QED  BY <1>2, <1>4, <1>5

(* A set of numbers that is not empty has a least one.                     *)
LEMMA LeastExists ==
    ASSUME NEW S \in SUBSET Nat, S # {}
    PROVE  \E m \in S : \A k \in S : m <= k
<1>. DEFINE R == OpToRel(<, Nat)
<1>1. IsWellFoundedOn(R, Nat)
  BY NatLessThanWellFounded
<1>2. PICK m \in S : \A k \in S : <<k, m>> \notin R
  <2>. HIDE DEF R
  <2>. QED  BY <1>1, WFMin
<1>3. \A k \in S : ~(k < m)
  BY <1>2 DEF OpToRel
<1>. QED  BY <1>3

(* What starts with base and goes on by step[n] is one function of n.      *)
Iterates(f, n, base, step) ==
    f[0] = base /\ \A k \in 0..n - 1 : f[k + 1] = step[k][f[k]]

(* ... and is determined, as far as it goes.                               *)
LEMMA IteratesUnique ==
    ASSUME NEW base, NEW step, NEW f, NEW g, NEW n \in Nat, NEW m \in Nat,
           Iterates(f, n, base, step), Iterates(g, m, base, step),
           NEW k \in Nat, k <= n, k <= m
    PROVE  f[k] = g[k]
<1>. DEFINE S == {i \in Nat : i <= n /\ i <= m => f[i] = g[i]}
<1>1. 0 \in S
  BY DEF Iterates
<1>2. ASSUME NEW i \in Nat, i \in S
      PROVE  i + 1 \in S
  <2>. SUFFICES ASSUME i + 1 <= n, i + 1 <= m
                PROVE  f[i + 1] = g[i + 1]
    OBVIOUS
  <2>1. i \in 0..n - 1 /\ i \in 0..m - 1 /\ f[i] = g[i]
    BY <1>2
  <2>. QED  BY <2>1 DEF Iterates
<1>3. k \in S
  <2>. HIDE DEF S
  <2>. QED  BY <1>1, <1>2, Induction
<1>. QED  BY <1>3

(* ... and exists.                                                         *)
Recurs(f, base, step) == f[0] = base /\ \A n \in Nat : f[n + 1] = step[n][f[n]]

(* A function that is so defined exists.                                   *)
LEMMA Recurrence ==
    ASSUME NEW X, NEW base \in X, NEW step \in [Nat -> [X -> X]]
    PROVE  \E f \in [Nat -> X] : Recurs(f, base, step)
<1>. DEFINE Good(n) == {g \in [0..n -> X] : Iterates(g, n, base, step)}
            S == {n \in Nat : Good(n) # {}}
<1>1. 0 \in S
  <2>1. [k \in 0..0 |-> base] \in Good(0)
    BY DEF Iterates
  <2>. QED  BY <2>1
<1>2. ASSUME NEW n \in Nat, n \in S
      PROVE  n + 1 \in S
  <2>1. PICK g \in [0..n -> X] : Iterates(g, n, base, step)
    BY <1>2
  <2>. DEFINE h == [k \in 0..n + 1 |-> IF k = n + 1 THEN step[n][g[n]] ELSE g[k]]
  <2>2. g[n] \in X /\ step[n][g[n]] \in X
    <3>1. g[n] \in X
      OBVIOUS
    <3>. QED  BY <3>1
  <2>3. h \in [0..n + 1 -> X]
    <3>1. \A k \in 0..n + 1 : k = n + 1 \/ k \in 0..n
      OBVIOUS
    <3>. QED  BY <2>2, <3>1
  <2>4. h[0] = base
    BY <2>1 DEF Iterates
  <2>5. ASSUME NEW k \in 0..n
        PROVE  h[k + 1] = step[k][h[k]]
    <3>1. CASE k = n
      BY <3>1
    <3>2. CASE k \in 0..n - 1
      <4>1. h[k + 1] = g[k + 1] /\ h[k] = g[k]
        BY <3>2
      <4>. QED  BY <2>1, <3>2, <4>1 DEF Iterates
    <3>. QED  BY <3>1, <3>2
  <2>6. h \in Good(n + 1)
    <3>1. \A k \in 0..(n + 1) - 1 : k \in 0..n
      OBVIOUS
    <3>. HIDE DEF h
    <3>. QED  BY <2>3, <2>4, <2>5, <3>1 DEF Iterates
  <2>. HIDE DEF h
  <2>. QED  BY <2>6
<1>3. \A n \in Nat : Good(n) # {}
  <2>. HIDE DEF Good
  <2>1. Nat \subseteq S
    <3>. HIDE DEF S
    <3>. QED  BY <1>1, <1>2, Induction
  <2>. QED  BY <2>1
<1>. DEFINE G == [n \in Nat |-> CHOOSE g \in Good(n) : TRUE]
            f == [n \in Nat |-> G[n][n]]
<1>4. \A n \in Nat : G[n] \in Good(n)
  <2>. HIDE DEF Good
  <2>. QED  BY <1>3
<1>5. \A n \in Nat : G[n] \in [0..n -> X] /\ Iterates(G[n], n, base, step)
  <2>. HIDE DEF G
  <2>. QED  BY <1>4
<1>. HIDE DEF G, Good
<1>6. f \in [Nat -> X]
  <2>1. \A n \in Nat : n \in 0..n
    OBVIOUS
  <2>. QED  BY <1>5, <2>1
<1>7. f[0] = base
  BY <1>5 DEF Iterates
<1>8. ASSUME NEW n \in Nat
      PROVE  f[n + 1] = step[n][f[n]]
  <2>1. n + 1 \in Nat /\ n <= n + 1 /\ n <= n /\ n \in 0..(n + 1) - 1
    OBVIOUS
  <2>2. G[n + 1][n] = G[n][n]
    BY <1>5, <2>1, IteratesUnique
  <2>3. G[n + 1][n + 1] = step[n][G[n + 1][n]]
    BY <1>5, <2>1 DEF Iterates
  <2>. QED  BY <2>1, <2>2, <2>3
<1>. HIDE DEF f
<1>. QED  BY <1>6, <1>7, <1>8 DEF Recurs

(* The same, spelled out.                                                  *)
LEMMA Recursion ==
    ASSUME NEW X, NEW base \in X, NEW step \in [Nat -> [X -> X]]
    PROVE  \E f \in [Nat -> X] :
              f[0] = base /\ \A n \in Nat : f[n + 1] = step[n][f[n]]
<1>1. PICK f \in [Nat -> X] : Recurs(f, base, step)
  BY Recurrence
<1>. QED  BY <1>1 DEF Recurs

-----------------------------------------------------------------------------
(* Every number up to how many positions are kept is the rank of one.      *)
LEMMA NthFacts ==
    ASSUME NEW n \in Nat, NEW keep \in SUBSET (1..n)
    PROVE  /\ IsFiniteSet(keep) /\ Cardinality(keep) \in Nat
           /\ \A k \in 1..Cardinality(keep) : Nth(keep, k) \in keep
           /\ \A i \in keep : \E k \in 1..Cardinality(keep) : Nth(keep, k) = i
           /\ \A k, l \in 1..Cardinality(keep) : Nth(keep, k) = Nth(keep, l) => k = l
<1>. DEFINE Upto(i) == {j \in keep : j <= i}
            C == Cardinality(keep)
            rank == [i \in keep |-> Cardinality(Upto(i))]
<1>1. n \in Int /\ 1 \in Int /\ \A i \in keep : i \in Nat
  OBVIOUS
<1>2. IsFiniteSet(keep) /\ C \in Nat
  <2>1. IsFiniteSet(1..n)
    BY <1>1, FS_Interval
  <2>. QED  BY <2>1, FS_Subset, FS_CardinalityType
<1>3. \A i \in keep : /\ IsFiniteSet(Upto(i)) /\ Cardinality(Upto(i)) \in 1..C
                      /\ Cardinality(Upto(i)) \in Int
                      /\ Cardinality(Upto(i) \ {i}) = Cardinality(Upto(i)) - 1
  <2>. TAKE i \in keep
  <2>1. Upto(i) \in SUBSET keep /\ i \in Upto(i)
    OBVIOUS
  <2>. HIDE DEF Upto
  <2>2. IsFiniteSet(Upto(i)) /\ Cardinality(Upto(i)) <= C /\ Cardinality(Upto(i)) \in Nat
    BY <1>2, <2>1, FS_Subset, FS_CardinalityType
  <2>3. /\ Cardinality(Upto(i) \ {i}) = Cardinality(Upto(i)) - 1
        /\ Cardinality(Upto(i) \ {i}) \in Nat
    BY <2>1, <2>2, FS_RemoveElement, FS_CardinalityType
  <2>. QED  BY <1>2, <2>2, <2>3
<1>4. ASSUME NEW i \in keep, NEW j \in keep, i < j
      PROVE  rank[i] # rank[j]
  <2>1. Upto(i) \in SUBSET (Upto(j) \ {j})
    <3>1. \A k \in keep : k <= i => k <= j /\ k # j
      BY <1>1, <1>4
    <3>. QED  BY <3>1
  <2>2. IsFiniteSet(Upto(j) \ {j})
    BY <1>3, FS_Subset
  <2>3. Cardinality(Upto(i)) <= Cardinality(Upto(j)) - 1
    <3>. HIDE DEF Upto
    <3>1. Cardinality(Upto(i)) <= Cardinality(Upto(j) \ {j})
      BY <2>1, <2>2, FS_Subset
    <3>. QED  BY <1>3, <3>1
  <2>4. rank[i] = Cardinality(Upto(i)) /\ rank[j] = Cardinality(Upto(j))
    OBVIOUS
  <2>. DEFINE a == Cardinality(Upto(i))
              b == Cardinality(Upto(j))
  <2>. HIDE DEF Upto, rank
  <2>5. a \in Int /\ b \in Int
    BY <1>3
  <2>6. a <= b - 1
    BY <2>3
  <2>. HIDE DEF a, b
  <2>7. a # b
    BY <2>5, <2>6
  <2>. QED  BY <2>4, <2>7 DEF a, b
<1>5. rank \in Surjection(keep, 1..C)
  <2>1. \A i, j \in keep : rank[i] = rank[j] => i = j
    <3>. HIDE DEF rank
    <3>. SUFFICES ASSUME NEW i \in keep, NEW j \in keep, i # j, rank[i] = rank[j] PROVE FALSE
      OBVIOUS
    <3>1. i < j \/ j < i
      OBVIOUS
    <3>. QED  BY <1>4, <3>1
  <2>2. rank \in [keep -> 1..C]
    BY <1>3
  <2>3. IsFiniteSet(1..C) /\ Cardinality(1..C) = C
    BY <1>2, FS_Interval
  <2>. HIDE DEF rank
  <2>4. rank \in Injection(keep, 1..C)
    BY <2>1, <2>2 DEF Injection, IsInjective
  <2>. QED  BY <1>2, <2>3, <2>4, FS_Injection
<1>6. \A k \in 1..C : Nth(keep, k) \in keep /\ rank[Nth(keep, k)] = k
  <2>. TAKE k \in 1..C
  <2>1. \E i \in keep : Cardinality({j \in keep : j <= i}) = k
    BY <1>5 DEF Surjection
  <2>. QED  BY <2>1 DEF Nth
<1>7. ASSUME NEW i \in keep
      PROVE  Nth(keep, rank[i]) = i
  <2>1. rank[i] \in 1..C
    BY <1>3
  <2>. HIDE DEF rank
  <2>2. /\ Nth(keep, rank[i]) \in keep /\ rank[Nth(keep, rank[i])] = rank[i]
    BY <1>6, <2>1
  <2>3. ASSUME NEW j \in keep, rank[j] = rank[i] PROVE j = i
    <3>1. j < i \/ i < j \/ i = j
      OBVIOUS
    <3>. QED  BY <1>4, <2>3, <3>1
  <2>. QED  BY <2>2, <2>3
<1>. QED  BY <1>2, <1>3, <1>6, <1>7

(* What a filter leaves: as many as are kept, those, and no other.         *)
LEMMA FilterFacts ==
    ASSUME NEW S, NEW s \in Seq(S), NEW keep \in SUBSET DOMAIN s
    PROVE  /\ Filter(s, keep) \in Seq(S)
           /\ IsFiniteSet(keep) /\ Len(Filter(s, keep)) = Cardinality(keep)
           /\ \A k \in DOMAIN Filter(s, keep) : \E i \in keep : Filter(s, keep)[k] = s[i]
           /\ \A i \in keep : \E k \in DOMAIN Filter(s, keep) : Filter(s, keep)[k] = s[i]
<1>. DEFINE C == Cardinality(keep)
            F == Filter(s, keep)
<1>1. DOMAIN s = 1..Len(s) /\ Len(s) \in Nat /\ \A i \in DOMAIN s : s[i] \in S
  OBVIOUS
<1>2. /\ IsFiniteSet(keep) /\ C \in Nat
      /\ \A k \in 1..C : Nth(keep, k) \in keep
      /\ \A i \in keep : \E k \in 1..C : Nth(keep, k) = i
  <2>1. PICK n \in Nat : keep \in SUBSET (1..n)
    BY <1>1
  <2>. QED  BY ONLY <2>1, NthFacts
<1>3. F = [k \in 1..C |-> s[Nth(keep, k)]]
  BY DEF Filter
<1>4. \A k \in 1..C : s[Nth(keep, k)] \in S
  BY <1>1, <1>2
<1>. HIDE DEF C, F
<1>5. F \in Seq(S) /\ DOMAIN F = 1..C /\ Len(F) = C
  BY <1>2, <1>3, <1>4
<1>6. \A k \in DOMAIN F : F[k] = s[Nth(keep, k)]
  BY <1>3
<1>. QED  BY <1>2, <1>5, <1>6 DEF C, F

(* Where what it leaves was before.                                        *)
LEMMA FilterPlaces ==
    ASSUME NEW S, NEW s \in Seq(S), NEW keep \in SUBSET DOMAIN s
    PROVE  \E g \in Bijection(DOMAIN Filter(s, keep), keep) :
              \A k \in DOMAIN Filter(s, keep) : Filter(s, keep)[k] = s[g[k]]
<1>. DEFINE C == Cardinality(keep)
            F == Filter(s, keep)
            g == [k \in 1..C |-> Nth(keep, k)]
<1>1. DOMAIN s = 1..Len(s) /\ Len(s) \in Nat
  OBVIOUS
<1>2. /\ C \in Nat
      /\ \A k \in 1..C : Nth(keep, k) \in keep
      /\ \A i \in keep : \E k \in 1..C : Nth(keep, k) = i
      /\ \A k, l \in 1..C : Nth(keep, k) = Nth(keep, l) => k = l
  <2>1. PICK n \in Nat : keep \in SUBSET (1..n)
    BY <1>1
  <2>. QED  BY ONLY <2>1, NthFacts
<1>3. F = [k \in 1..C |-> s[Nth(keep, k)]]
  BY DEF Filter
<1>. HIDE DEF C, F
<1>4. DOMAIN F = 1..C /\ \A k \in DOMAIN F : F[k] = s[g[k]]
  BY <1>3
<1>5. g \in [1..C -> keep] /\ \A k \in 1..C : g[k] = Nth(keep, k)
  BY <1>2
<1>. HIDE DEF g
<1>6. g \in Bijection(DOMAIN F, keep)
  BY <1>2, <1>4, <1>5 DEF Bijection, Injection, Surjection, IsInjective
<1>. QED  BY <1>4, <1>6 DEF F

-----------------------------------------------------------------------------
(* A queue whose head is taken off, while more is appended.                *)
LEMMA QueueFacts ==
    ASSUME NEW S, NEW q \in Seq(S), q # <<>>, NEW more \in Seq(S),
           NEW r, r = Tail(q) \o more
    PROVE  /\ r \in Seq(S) /\ DOMAIN r \subseteq Nat
           /\ 1 \in DOMAIN q /\ Head(q) = q[1] /\ Head(q) \in S
           /\ DOMAIN q = 1..Len(q) /\ Len(q) \in Nat
           /\ \A i \in DOMAIN q : q[i] \in S
           /\ \A k \in DOMAIN more : k \in Nat /\ k >= 1
           /\ \A j \in DOMAIN r :
                 \/ j + 1 \in DOMAIN q /\ r[j] = q[j + 1]
                 \/ \E k \in DOMAIN more : j = Len(q) - 1 + k /\ r[j] = more[k]
           /\ \A i \in DOMAIN q : i # 1 => i - 1 \in DOMAIN r /\ r[i - 1] = q[i]
<1>. DEFINE t == Tail(q)
            n == Len(q)
            m == Len(more)
<1>1. /\ n \in Nat /\ n # 0 /\ DOMAIN q = 1..n /\ Head(q) = q[1]
      /\ \A i \in 1..n : q[i] \in S
      /\ t \in Seq(S) /\ Len(t) = n - 1 /\ \A i \in 1..n - 1 : t[i] = q[i + 1]
  OBVIOUS
<1>2. m \in Nat /\ DOMAIN more = 1..m
  OBVIOUS
<1>3. r = t \o more
  OBVIOUS
<1>. HIDE DEF t
<1>4. /\ r \in Seq(S) /\ Len(r) = Len(t) + m
      /\ \A i \in 1..Len(t) + m : r[i] = IF i <= Len(t) THEN t[i] ELSE more[i - Len(t)]
  BY <1>1, <1>3
<1>. HIDE DEF n, m
<1>5. /\ DOMAIN r = 1..n - 1 + m
      /\ \A i \in 1..n - 1 + m : r[i] = IF i <= n - 1 THEN t[i] ELSE more[i - (n - 1)]
  BY <1>1, <1>4
<1>6. ASSUME NEW j \in DOMAIN r
      PROVE  \/ j + 1 \in DOMAIN q /\ r[j] = q[j + 1]
             \/ \E k \in DOMAIN more : j = n - 1 + k /\ r[j] = more[k]
  <2>1. CASE j <= n - 1
    <3>1. j \in 1..n - 1 /\ j + 1 \in 1..n
      BY <1>1, <1>2, <1>5, <2>1
    <3>. QED  BY <1>1, <1>5, <2>1, <3>1
  <2>2. CASE ~(j <= n - 1)
    <3>1. j - (n - 1) \in 1..m /\ j = n - 1 + (j - (n - 1)) /\ r[j] = more[j - (n - 1)]
      BY <1>1, <1>2, <1>5, <2>2
    <3>. QED  BY <1>2, <3>1
  <2>. QED  BY <2>1, <2>2
<1>7. ASSUME NEW i \in DOMAIN q, i # 1
      PROVE  i - 1 \in DOMAIN r /\ r[i - 1] = q[i]
  <2>1. i - 1 \in 1..n - 1 /\ (i - 1) + 1 = i /\ i - 1 \in 1..n - 1 + m /\ i - 1 <= n - 1
    BY <1>1, <1>2, <1>7
  <2>2. t[i - 1] = q[i]
    BY <1>1, <2>1
  <2>. QED  BY <1>5, <2>1, <2>2
<1>8. DOMAIN r \subseteq Nat /\ \A k \in DOMAIN more : k \in Nat /\ k >= 1
  BY <1>2, <1>5
<1>9. 1 \in DOMAIN q /\ Head(q) \in S
  BY <1>1
<1>10. \A j \in DOMAIN r : \/ j + 1 \in DOMAIN q /\ r[j] = q[j + 1]
                           \/ \E k \in DOMAIN more : j = Len(q) - 1 + k /\ r[j] = more[k]
  BY <1>6 DEF n
<1>11. DOMAIN q = 1..Len(q) /\ Len(q) \in Nat /\ Head(q) = q[1] /\ \A i \in DOMAIN q : q[i] \in S
  BY <1>1 DEF n
<1>. QED  BY <1>4, <1>7, <1>8, <1>9, <1>10, <1>11

-----------------------------------------------------------------------------
(* What a sequence holds is finite.                                        *)
LEMMA RangeIsFinite ==
    ASSUME NEW S, NEW s \in Seq(S)
    PROVE  IsFiniteSet(Range(s)) /\ Range(s) \subseteq S
<1>. DEFINE E == Range(s)
<1>1. DOMAIN s = 1..Len(s) /\ Len(s) \in Nat /\ s \in [1..Len(s) -> S]
  OBVIOUS
<1>2. E \subseteq S
  BY <1>1 DEF Range
<1>3. s \in Surjection(1..Len(s), E)
  BY <1>1 DEF Surjection, Range
<1>4. IsFiniteSet(1..Len(s))
  BY <1>1, FS_Interval
<1>. HIDE DEF E
<1>5. IsFiniteSet(E)
  BY <1>3, <1>4, FS_Surjection
<1>. QED  BY <1>2, <1>5 DEF E

(* A set in some order: each element once.                                 *)
LEMMA OrderFacts ==
    ASSUME NEW E, IsFiniteSet(E), NEW s \in SetToSeqs(E)
    PROVE  /\ s \in Seq(E) /\ Len(s) = Cardinality(E) /\ Cardinality(E) \in Nat
           /\ \A i, j \in DOMAIN s : s[i] = s[j] => i = j
           /\ \A e \in E : \E k \in DOMAIN s : s[k] = e
<1>. DEFINE D == 1..Cardinality(E)
<1>1. Cardinality(E) \in Nat
  BY FS_CardinalityType
<1>2. s \in [D -> E] /\ \A i, j \in D : i # j => s[i] # s[j]
  BY DEF SetToSeqs
<1>3. s \in Seq(E) /\ Len(s) = Cardinality(E) /\ DOMAIN s = D
  BY <1>1, <1>2
<1>4. IsFiniteSet(D) /\ Cardinality(D) = Cardinality(E)
  BY <1>1, FS_Interval
<1>. HIDE DEF D
<1>5. s \in Injection(D, E)
  BY <1>2 DEF Injection, IsInjective
<1>6. s \in Surjection(D, E)
  BY <1>4, <1>5, FS_Injection
<1>7. \A e \in E : \E k \in DOMAIN s : s[k] = e
  BY <1>3, <1>6 DEF Surjection
<1>. QED  BY <1>1, <1>2, <1>3, <1>7

(* The least and the greatest of a set, where there are such.              *)
LEMMA MinIs ==
    ASSUME NEW S \in SUBSET Int, NEW m \in S, \A k \in S : m <= k
    PROVE  Min(S) = m
<1>. DEFINE x == CHOOSE x \in S : \A y \in S : x <= y
<1>1. x \in S /\ \A y \in S : x <= y
  OBVIOUS
<1>2. Min(S) = x
  BY DEF Min
<1>. HIDE DEF x
<1>3. x \in Int /\ m \in Int /\ x <= m /\ m <= x
  BY <1>1
<1>. QED  BY <1>2, <1>3

(* A number that is not below any other is the greatest.                   *)
LEMMA MaxIs ==
    ASSUME NEW S \in SUBSET Int, NEW m \in S, \A k \in S : k <= m
    PROVE  Max(S) = m
<1>. DEFINE x == CHOOSE x \in S : \A y \in S : x >= y
<1>1. x \in S /\ \A y \in S : x >= y
  <2>1. \A y \in S : m \in Int /\ y \in Int /\ m >= y
    OBVIOUS
  <2>. QED  BY <2>1
<1>2. Max(S) = x
  BY DEF Max
<1>. HIDE DEF x
<1>3. x \in Int /\ m \in Int /\ x >= m /\ x <= m
  BY <1>1
<1>. QED  BY <1>2, <1>3

(* One sequence after another: `to[n]' is the first n in one.              *)
Joins(to, ss) ==
    /\ to[0] = <<>>
    /\ \A n \in Nat : n + 1 <= Len(ss) => to[n + 1] = to[n] \o ss[n + 1]

Grows(to, ss, N, none) ==
    /\ to[0] = none
    /\ \A n \in Nat : to[n + 1] = IF n + 1 <= N THEN to[n] \o ss[n + 1] ELSE to[n]

(* What grows by one sequence at a time is a function of their number.     *)
LEMMA Joined ==
    ASSUME NEW X, NEW ss, NEW N \in Nat, NEW none \in X,
           \A n \in Nat, s \in X : n + 1 <= N => s \o ss[n + 1] \in X
    PROVE  \E to \in [Nat -> X] : Grows(to, ss, N, none)
<1>. DEFINE Next(n, s) == IF n + 1 <= N THEN s \o ss[n + 1] ELSE s
            step == [n \in Nat |-> [s \in X |-> Next(n, s)]]
<1>1. \A n \in Nat, s \in X : Next(n, s) \in X
  OBVIOUS
<1>. HIDE DEF Next
<1>2. PICK go \in [Nat -> [X -> X]] : go = step
  BY <1>1
<1>3. \A n \in Nat, s \in X : go[n][s] = Next(n, s)
  BY <1>2
<1>. HIDE DEF step
<1>4. PICK to \in [Nat -> X] : Recurs(to, none, go)
  BY ONLY Recurrence
<1>5. to[0] = none /\ \A n \in Nat : to[n + 1] = go[n][to[n]]
  BY <1>4 DEF Recurs
<1>6. \A n \in Nat : to[n] \in X /\ to[n + 1] = Next(n, to[n])
  BY <1>3, <1>5
<1>. QED  BY <1>5, <1>6 DEF Next, Grows

(* The conversion of places in a sequence and in its two parts.            *)
LEMMA Places ==
    /\ \A x, y \in Nat : x <= y => \A i \in 1..x : i \in 1..y
    /\ \A x, y \in Nat : \A k \in 1..y : x + k \in 1..(x + y)
    /\ \A x, y \in Nat : \A i \in 1..(x + y) :
          ~(i <= x) => i - x \in 1..y /\ i = x + (i - x)
OBVIOUS

(* FlattenSeq, a recursive function, computes that.                        *)
Flattens(to, ss) == \A n \in 0..Len(ss) : FlattenSeq([i \in 1..n |-> ss[i]]) = to[n]

(* The library's flattening is such a join.                                *)
LEMMA FlattenIsJoin ==
    ASSUME NEW T, NEW ss \in Seq(Seq(T))
    PROVE  \E to \in [Nat -> Seq(T)] : Joins(to, ss) /\ Flattens(to, ss)
<1>. DEFINE X == Seq(T)
            N == Len(ss)
<1>1. N \in Nat /\ \A i \in 1..N : ss[i] \in X
  OBVIOUS
<1>2. \A n \in Nat, s \in X : n + 1 <= N => s \o ss[n + 1] \in X
  <2>. TAKE n \in Nat, s \in X
  <2>1. CASE n + 1 <= N
    <3>1. n + 1 \in 1..N
      BY <1>1, <2>1
    <3>2. ss[n + 1] \in Seq(T)
      BY <1>1, <3>1
    <3>. QED  BY <2>1, <3>2
  <2>. QED  BY <2>1
<1>3. PICK to \in [Nat -> X] : Grows(to, ss, N, <<>>)
  <2>1. <<>> \in X
    OBVIOUS
  <2>. HIDE DEF X, N
  <2>. QED  BY <1>1, <1>2, <2>1, Joined
<1>4. to[0] = <<>> /\ \A n \in Nat : to[n + 1] = IF n + 1 <= N THEN to[n] \o ss[n + 1] ELSE to[n]
  BY <1>3 DEF Grows
<1>5. Joins(to, ss)
  BY <1>4 DEF Joins
<1>6. ASSUME NEW n \in 0..N
      PROVE  FlattenSeq([i \in 1..n |-> ss[i]]) = to[n]
  <2>. DEFINE first == [i \in 1..n |-> ss[i]]
              Fix(h) == h = [i \in 1..Len(first) |->
                               IF i = 1 THEN first[i] ELSE h[i - 1] \o first[i]]
              G == [i \in 1..n |-> to[i]]
              F == CHOOSE h : Fix(h)
  <2>1. n \in Nat /\ n <= N /\ \A i \in 1..n : ss[i] \in X /\ i \in 1..N
    <3>1. n \in Nat /\ n <= N /\ \A i \in 1..n : i \in 1..N
      OBVIOUS
    <3>. HIDE DEF X, N
    <3>. QED  BY <1>1, <3>1
  <2>2. Len(first) = n /\ \A i \in 1..n : first[i] = ss[i]
    BY <2>1
  <2>3. CASE n = 0
    <3>1. first = <<>>
      BY <2>3
    <3>. QED  BY <1>4, <2>3, <3>1 DEF FlattenSeq
  <2>4. CASE n # 0
    <3>. HIDE DEF first
    <3>1. ASSUME NEW i \in 1..n PROVE to[i] = IF i = 1 THEN first[i] ELSE to[i - 1] \o first[i]
      <4>1. i - 1 \in Nat /\ (i - 1) + 1 = i /\ (i - 1) + 1 <= N
        BY <2>1
      <4>2. to[i] = to[i - 1] \o ss[i]
        BY <1>4, <4>1
      <4>3. CASE i = 1
        <5>1. to[i - 1] = <<>> /\ ss[i] \in Seq(T)
          BY <1>4, <2>1, <4>3
        <5>2. \A s \in Seq(T) : <<>> \o s = s
          OBVIOUS
        <5>3. to[i] = ss[i] /\ first[i] = ss[i]
          BY <2>2, <4>2, <5>1, <5>2
        <5>. QED  BY <4>3, <5>3
      <4>. QED  BY <2>2, <4>2, <4>3
    <3>2. \A i \in 1..n : i # 1 => i - 1 \in 1..n
      BY <2>1
    <3>3. Fix(G)
      BY <2>2, <3>1, <3>2
    <3>4. Fix(F)
      <4>. HIDE DEF Fix, G
      <4>. QED  BY <3>3
    <3>5. \A i \in 1..n : F[i] = IF i = 1 THEN first[i] ELSE F[i - 1] \o first[i]
      BY <2>2, <3>4
    <3>. HIDE DEF F
    <3>. DEFINE S == {k \in Nat : k + 1 \in 1..n => F[k + 1] = to[k + 1]}
    <3>6. 0 \in S
      <4>1. 1 \in 1..n /\ 0 + 1 = 1
        BY <2>1, <2>4
      <4>2. F[1] = first[1] /\ to[1] = first[1]
        BY <3>1, <3>5, <4>1
      <4>. QED  BY <4>1, <4>2
    <3>7. ASSUME NEW k \in Nat, k \in S PROVE k + 1 \in S
      <4>. SUFFICES ASSUME (k + 1) + 1 \in 1..n PROVE F[(k + 1) + 1] = to[(k + 1) + 1]
        OBVIOUS
      <4>. DEFINE i == (k + 1) + 1
      <4>1. i \in 1..n /\ i # 1 /\ i - 1 = k + 1 /\ k + 1 \in 1..n
        BY <2>1
      <4>. HIDE DEF i
      <4>2. F[i - 1] = to[i - 1]
        BY <3>7, <4>1
      <4>3. F[i] = to[i]
        BY <3>1, <3>5, <4>1, <4>2
      <4>. QED  BY <4>3 DEF i
    <3>8. n - 1 \in S
      <4>. HIDE DEF S
      <4>1. n - 1 \in Nat
        BY <2>1, <2>4
      <4>. QED  BY <3>6, <3>7, <4>1, Induction
    <3>9. F[n] = to[n]
      <4>1. (n - 1) + 1 = n /\ n \in 1..n
        BY <2>1, <2>4
      <4>. QED  BY <3>8, <4>1
    <3>10. FlattenSeq(first) = F[Len(first)]
      BY <2>2, <2>4 DEF FlattenSeq, F
    <3>. QED  BY <2>2, <3>9, <3>10 DEF first
  <2>. QED  BY <2>3, <2>4
<1>. QED  BY <1>5, <1>6 DEF Flattens

(* Where the elements of a concatenation are.                              *)
LEMMA Concatenated ==
    ASSUME NEW T, NEW s \in Seq(T), NEW t \in Seq(T)
    PROVE  /\ Len(s \o t) = Len(s) + Len(t) /\ Len(s) \in Nat /\ Len(t) \in Nat
           /\ \A i \in 1..Len(s) : (s \o t)[i] = s[i]
           /\ \A k \in 1..Len(t) : (s \o t)[Len(s) + k] = t[k]
<1>1. Len(s \o t) = Len(s) + Len(t) /\ Len(s) \in Nat /\ Len(t) \in Nat
  OBVIOUS
<1>2. \A i \in 1..Len(s) : (s \o t)[i] = s[i]
  OBVIOUS
<1>3. \A k \in 1..Len(t) : (s \o t)[Len(s) + k] = t[k]
  OBVIOUS
<1>. QED  BY <1>1, <1>2, <1>3

(* Where the elements of the n-th are: after those before it.              *)
Placed(to, ss) ==
    /\ \A n \in 1..Len(ss) : Len(to[n]) = Len(to[n - 1]) + Len(ss[n])
    /\ \A m, n \in 0..Len(ss) : m <= n => Len(to[m]) <= Len(to[n])
    /\ \A n \in 1..Len(ss) : \A k \in 1..Len(ss[n]) :
          to[Len(ss)][Len(to[n - 1]) + k] = ss[n][k]
    /\ \A i \in 1..Len(to[Len(ss)]) :
          \E n \in 1..Len(ss) : \E k \in 1..Len(ss[n]) : i = Len(to[n - 1]) + k

(* That is where they are in every join.                                   *)
LEMMA JoinPlaces ==
    ASSUME NEW T, NEW ss \in Seq(Seq(T)), NEW to \in [Nat -> Seq(T)], Joins(to, ss)
    PROVE  Placed(to, ss)
<1>1. PICK N \in Nat : N = Len(ss)
  OBVIOUS
<1>2. PICK U \in [Nat -> Nat] : \A n \in Nat : U[n] = Len(to[n])
  <2>1. [n \in Nat |-> Len(to[n])] \in [Nat -> Nat]
    OBVIOUS
  <2>. QED  BY <2>1
<1>3. PICK L \in [1..N -> Nat] : \A n \in 1..N : L[n] = Len(ss[n])
  <2>1. [n \in 1..N |-> Len(ss[n])] \in [1..N -> Nat]
    BY <1>1
  <2>. QED  BY <2>1
<1>4. /\ N \in Nat /\ (\A i \in 1..N : ss[i] \in Seq(T))
      /\ \A n \in Nat : to[n] \in Seq(T) /\ U[n] = Len(to[n]) /\ U[n] \in Nat
  BY <1>1, <1>2
<1>5. ASSUME NEW n \in 1..N
      PROVE  /\ n - 1 \in Nat /\ U[n] = U[n - 1] + L[n] /\ U[n - 1] \in Nat /\ L[n] \in Nat
             /\ \A i \in 1..U[n - 1] : to[n][i] = to[n - 1][i]
             /\ \A k \in 1..L[n] : to[n][U[n - 1] + k] = ss[n][k]
  <2>1. n - 1 \in Nat /\ (n - 1) + 1 = n /\ n <= N
    BY <1>4
  <2>2. to[n] = to[n - 1] \o ss[n]
    BY <1>1, <2>1 DEF Joins
  <2>3. n \in Nat /\ to[n - 1] \in Seq(T) /\ ss[n] \in Seq(T) /\ n \in 1..N
    <3>1. n \in Nat
      BY <2>1
    <3>2. to[n - 1] \in Seq(T)
      BY <2>1
    <3>3. ss[n] \in Seq(T)
      BY <1>4
    <3>. QED  BY <3>1, <3>2, <3>3
  <2>4. PICK s \in Seq(T), t \in Seq(T) : s = to[n - 1] /\ t = ss[n]
    BY <2>3
  <2>5. /\ to[n] = s \o t /\ U[n - 1] = Len(s) /\ U[n] = Len(s \o t) /\ L[n] = Len(t)
    BY <1>4, <1>3, <2>1, <2>2, <2>3, <2>4
  <2>6. /\ Len(s \o t) = Len(s) + Len(t) /\ Len(s) \in Nat /\ Len(t) \in Nat
        /\ \A i \in 1..Len(s) : (s \o t)[i] = s[i]
        /\ \A k \in 1..Len(t) : (s \o t)[Len(s) + k] = t[k]
    BY Concatenated
  <2>7. /\ U[n] = U[n - 1] + L[n] /\ U[n - 1] \in Nat /\ L[n] \in Nat
    BY <2>5, <2>6
  <2>8. \A i \in 1..U[n - 1] : to[n][i] = to[n - 1][i]
    BY <2>4, <2>5, <2>6
  <2>9. \A k \in 1..L[n] : to[n][U[n - 1] + k] = ss[n][k]
    BY <2>4, <2>5, <2>6
  <2>. QED  BY <2>1, <2>7, <2>8, <2>9
<1>6. ASSUME NEW m \in Nat, NEW n \in Nat, m <= n, n <= N
      PROVE  U[m] <= U[n] /\ \A i \in 1..U[m] : to[n][i] = to[m][i]
  <2>. DEFINE S == {d \in Nat : m + d <= N => /\ U[m] <= U[m + d]
                                             /\ \A i \in 1..U[m] : to[m + d][i] = to[m][i]}
  <2>1. 0 \in S
    BY <1>4
  <2>2. ASSUME NEW d \in Nat, d \in S PROVE d + 1 \in S
    <3>. SUFFICES ASSUME m + (d + 1) <= N
                  PROVE  /\ U[m] <= U[m + (d + 1)]
                         /\ \A i \in 1..U[m] : to[m + (d + 1)][i] = to[m][i]
      OBVIOUS
    <3>. DEFINE a == m + d
                b == m + (d + 1)
    <3>1. a \in Nat /\ b \in 1..N /\ b - 1 = a /\ a <= N
      BY <1>4
    <3>2. U[m] <= U[a] /\ \A i \in 1..U[m] : to[a][i] = to[m][i]
      BY <2>2, <3>1
    <3>. HIDE DEF a, b
    <3>3. U[b] = U[a] + L[b] /\ L[b] \in Nat /\ \A i \in 1..U[a] : to[b][i] = to[a][i]
      BY <1>5, <3>1
    <3>4. U[m] \in Nat /\ U[a] \in Nat
      BY <1>4, <3>1
    <3>5. \A x, y, l \in Nat : x <= y => x <= y + l
      OBVIOUS
    <3>6. U[m] <= U[b]
      BY <3>2, <3>3, <3>4, <3>5
    <3>7. U[m] <= U[b] /\ \A i \in 1..U[m] : i \in 1..U[a]
      BY <3>2, <3>6, <3>4, Places
    <3>8. U[m] <= U[b] /\ \A i \in 1..U[m] : to[b][i] = to[m][i]
      BY <3>2, <3>3, <3>7
    <3>. QED  BY <3>8 DEF b
  <2>3. n - m \in S
    <3>1. n - m \in Nat
      BY <1>6
    <3>. HIDE DEF S
    <3>. QED  BY <2>1, <2>2, <3>1, Induction
  <2>4. m + (n - m) = n
    OBVIOUS
  <2>. QED  BY <1>6, <2>3, <2>4
<1>7. \A n \in 1..N : \A k \in 1..L[n] : to[N][U[n - 1] + k] = ss[n][k]
  <2>. TAKE n \in 1..N
  <2>. TAKE k \in 1..L[n]
  <2>1. n \in Nat /\ n <= N /\ N \in Nat
    BY <1>4
  <2>2. \A i \in 1..U[n] : to[N][i] = to[n][i]
    BY <1>6, <2>1
  <2>3. /\ U[n] = U[n - 1] + L[n] /\ U[n - 1] \in Nat /\ L[n] \in Nat
        /\ to[n][U[n - 1] + k] = ss[n][k]
    BY <1>5
  <2>4. U[n - 1] + k \in 1..U[n]
    <3>1. PICK x \in Nat, y \in Nat : x = U[n - 1] /\ y = L[n]
      BY <2>3
    <3>2. U[n] = x + y
      BY <2>3, <3>1
    <3>3. k \in 1..y
      BY <3>1
    <3>4. x + k \in 1..(x + y)
      BY ONLY <3>3
    <3>. QED  BY <3>1, <3>2, <3>4
  <2>. QED  BY <2>2, <2>3, <2>4
<1>8. \A i \in 1..U[N] : \E n \in 1..N : \E k \in 1..L[n] : i = U[n - 1] + k
  <2>. DEFINE Located(m) == \A i \in 1..U[m] : \E n \in 1..N : \E k \in 1..L[n] : i = U[n - 1] + k
              S == {m \in Nat : m <= N => Located(m)}
  <2>1. 0 \in S
    <3>1. U[0] = 0
      BY <1>4 DEF Joins
    <3>. QED  BY <3>1
  <2>2. ASSUME NEW m \in Nat, m \in S PROVE m + 1 \in S
    <3>. SUFFICES ASSUME m + 1 <= N PROVE Located(m + 1)
      OBVIOUS
    <3>1. m + 1 \in 1..N /\ (m + 1) - 1 = m /\ m <= N
      BY <1>4
    <3>2. U[m + 1] = U[m] + L[m + 1] /\ U[m] \in Nat /\ L[m + 1] \in Nat
      BY <1>5, <3>1
    <3>. SUFFICES ASSUME NEW i \in 1..U[m + 1]
                  PROVE  \E n \in 1..N : \E k \in 1..L[n] : i = U[n - 1] + k
      OBVIOUS
    <3>3. CASE i <= U[m]
      <4>1. i \in 1..U[m]
        BY <3>2, <3>3
      <4>. QED  BY <2>2, <3>1, <4>1
    <3>4. CASE ~(i <= U[m])
      <4>1. i - U[m] \in 1..L[m + 1] /\ i = U[(m + 1) - 1] + (i - U[m])
        <5>1. i \in 1..(U[m] + L[m + 1])
          BY <3>2
        <5>. QED  BY <3>1, <3>2, <3>4, <5>1, Places
      <4>. QED  BY <3>1, <4>1
    <3>. QED  BY <3>3, <3>4
  <2>3. N \in S
    <3>. HIDE DEF S
    <3>. QED  BY <1>4, <2>1, <2>2, Induction
  <2>. QED  BY <1>4, <2>3
<1>9. \A n \in 1..N : U[n] = Len(to[n]) /\ U[n - 1] = Len(to[n - 1])
  <2>1. \A n \in 1..N : n \in Nat /\ n - 1 \in Nat
    BY <1>4
  <2>. QED  BY <1>4, <2>1
<1>10. \A n \in 0..N : U[n] = Len(to[n]) /\ n \in Nat
  <2>1. \A n \in 0..N : n \in Nat
    BY <1>4
  <2>. QED  BY <1>2, <2>1
<1>11. \A m, n \in 0..N : m <= n => Len(to[m]) <= Len(to[n])
  BY <1>6, <1>10
<1>12. U[N] = Len(to[N])
  BY <1>4
<1>13. \A n \in 1..N : Len(to[n]) = Len(to[n - 1]) + Len(ss[n])
  BY <1>5, <1>9, <1>3
<1>14. \A n \in 1..N : \A k \in 1..Len(ss[n]) : to[N][Len(to[n - 1]) + k] = ss[n][k]
  BY <1>7, <1>9, <1>3
<1>15. \A i \in 1..Len(to[N]) : \E n \in 1..N : \E k \in 1..Len(ss[n]) : i = Len(to[n - 1]) + k
  <2>. TAKE i \in 1..Len(to[N])
  <2>1. i \in 1..U[N]
    BY <1>12
  <2>2. PICK n \in 1..N : \E k \in 1..L[n] : i = U[n - 1] + k
    BY <1>8, <2>1
  <2>. QED  BY <1>9, <1>3, <2>2
<1>. QED  BY <1>1, <1>11, <1>13, <1>14, <1>15 DEF Placed
=============================================================================
