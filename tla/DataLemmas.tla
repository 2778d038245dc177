------------------------------ MODULE DataLemmas ------------------------------
(***************************************************************************)
(* Lemmas about data, for the proofs of the other modules.  Of natural     *)
(* numbers: the least and the greatest of a set of them, and induction.    *)
(* Of recursive functions: a recursive definition is a CHOOSE among the    *)
(* functions that solve it, and what it computes is known once one does.   *)
(* Of sums over finite sets, which are recursive functions over subsets:   *)
(* what they do when an element comes or goes, and when a set is cut up.   *)
(* Induction over sets takes the form of a least counterexample.           *)
(***************************************************************************)
EXTENDS Integers, FiniteSetsExt, Functions, FiniteSetTheorems, TLAPS

\* A non-empty set of naturals has a least element, and Min returns it.
LEMMA LeastElement ==
    ASSUME NEW S \in SUBSET Nat, S # {}
    PROVE  Min(S) \in S /\ \A x \in S : Min(S) <= x
<1> DEFINE R == StrictSubsetOrdering(Nat)
           T == {0 .. x : x \in S}
<1>1. T \subseteq FiniteSubsetsOf(Nat) /\ T # {}
  <2>1. \A x \in S : 0 .. x \in SUBSET Nat
    OBVIOUS
  <2>2. \A x \in S : IsFiniteSet(0 .. x)
    BY FS_Interval
  <2>3. QED  BY <2>1, <2>2 DEF FiniteSubsetsOf
<1>2. PICK i \in T : \A j \in T : ~ (<<j, i>> \in R)
  BY <1>1, FS_StrictSubsetOrderingWellFounded, WFMin
<1>3. PICK m \in S : i = 0 .. m
  BY <1>2
<1>4. ASSUME NEW x \in S, x < m
      PROVE  FALSE
  <2>1. 0 .. x \subseteq Nat /\ 0 .. m \subseteq Nat /\ 0 .. x \subseteq 0 .. m
    BY <1>4
  <2>2. m \in 0 .. m /\ m \notin 0 .. x
    BY <1>4
  <2>3. <<0 .. x, 0 .. m>> \in R
    BY <2>1, <2>2 DEF StrictSubsetOrdering
  <2>4. QED  BY <1>2, <1>3, <2>3
<1>5. \A x \in S : m <= x
  BY <1>4
<1>6. QED  BY <1>5 DEF Min

\* A non-empty set of naturals with an upper bound has a greatest element, and
\* Max returns it.
LEMMA GreatestElement ==
    ASSUME NEW S \in SUBSET Nat, S # {},
           NEW b \in Nat, \A x \in S : x <= b
    PROVE  Max(S) \in S /\ \A x \in S : x <= Max(S)
<1> DEFINE T == {b - x : x \in S}
<1>1. T \in SUBSET Nat /\ T # {}
  <2>1. \A x \in S : b - x \in Nat
    OBVIOUS
  <2>2. QED  BY <2>1
<1>2. Min(T) \in T /\ \A y \in T : Min(T) <= y
  BY <1>1, LeastElement
<1>3. PICK m \in S : Min(T) = b - m
  BY <1>2
<1>4. \A x \in S : b - m <= b - x
  BY <1>2, <1>3
<1>5. \A x \in S : m >= x
  BY <1>4
<1>6. QED  BY <1>5 DEF Max


-----------------------------------------------------------------------------
\* A set of naturals that has 0, and the successor of each of its elements,
\* has all naturals: induction, with a set in place of a predicate.
LEMMA SetInduction ==
    ASSUME NEW N, 0 \in N, \A n \in Nat : n \in N => n + 1 \in N
    PROVE  Nat \subseteq N
<1> DEFINE Bad == Nat \ N
<1>1. SUFFICES ASSUME Bad # {} PROVE FALSE
  OBVIOUS
<1>2. Min(Bad) \in Bad /\ \A n \in Bad : Min(Bad) <= n
  BY <1>1, LeastElement
<1>3. PICK m \in Bad : \A n \in Bad : m <= n
  BY <1>2
<1>4. m \in Nat /\ m # 0 /\ m - 1 \in Nat /\ m - 1 \notin Bad
  BY <1>3
<1>5. (m - 1) + 1 \in N
  BY <1>4
<1>6. QED  BY <1>3, <1>4, <1>5

\* There is a sequence of what a step makes of its last element.
LEMMA NatRecursion ==
    ASSUME NEW X, NEW x \in X, NEW next \in [X -> X]
    PROVE  \E c \in [Nat -> X] : c[0] = x /\ \A k \in Nat : c[k + 1] = next[c[k]]
<1> DEFINE Begun(n, g) == /\ g \in [0 .. n -> X] /\ g[0] = x
                          /\ \A i \in 1 .. n : g[i] = next[g[i - 1]]
           N == {n \in Nat : \E g : Begun(n, g)}
           g(n) == CHOOSE h : Begun(n, h)
           c == [n \in Nat |-> g(n)[n]]
<1>1. 0 \in N
  <2>1. Begun(0, [i \in 0 .. 0 |-> x])
    OBVIOUS
  <2>2. QED  BY <2>1
<1>2. ASSUME NEW n \in Nat, n \in N
      PROVE  n + 1 \in N
  <2>1. PICK f : Begun(n, f)
    BY <1>2
  <2> DEFINE h == [i \in 0 .. n + 1 |-> IF i = n + 1 THEN next[f[n]] ELSE f[i]]
  <2>2. next[f[n]] \in X /\ \A i \in 0 .. n : f[i] \in X
    BY <2>1
  <2>3. /\ h[0] = x /\ h[n + 1] = next[f[n]]
        /\ \A i \in 0 .. n : h[i] = f[i]
    BY <2>1
  <2>4. h \in [0 .. n + 1 -> X]
    BY <2>2
  <2> HIDE DEF h
  <2>5. ASSUME NEW i \in 1 .. n + 1
        PROVE  h[i] = next[h[i - 1]]
    <3>1. CASE i = n + 1
      <4>1. i - 1 = n
        BY <3>1
      <4>2. QED  BY <2>3, <3>1, <4>1
    <3>2. CASE i # n + 1
      <4>1. i \in 1 .. n /\ i \in 0 .. n /\ i - 1 \in 0 .. n
        BY <3>2
      <4>2. QED  BY <2>1, <2>3, <4>1
    <3>3. QED  BY <3>1, <3>2
  <2>6. QED  BY <2>3, <2>4, <2>5
<1> HIDE DEF N
<1>3. \A n \in Nat : Begun(n, g(n))
  BY <1>1, <1>2, SetInduction DEF N
<1>4. ASSUME NEW n \in Nat
      PROVE  g(n + 1)[n] = g(n)[n]
  <2> DEFINE f == g(n)
             h == g(n + 1)
             M == {i \in Nat : i <= n => h[i] = f[i]}
  <2>1. Begun(n, f) /\ Begun(n + 1, h)
    <3>1. n + 1 \in Nat
      OBVIOUS
    <3> HIDE DEF Begun, g
    <3>2. QED  BY <1>3, <3>1
  <2> HIDE DEF f, h
  <2>2. 0 \in M
    BY <2>1
  <2>3. ASSUME NEW i \in Nat, i \in M
        PROVE  i + 1 \in M
    <3> SUFFICES ASSUME i + 1 <= n PROVE h[i + 1] = f[i + 1]
      OBVIOUS
    <3>1. h[i] = f[i] /\ i + 1 \in 1 .. n /\ i + 1 \in 1 .. n + 1 /\ (i + 1) - 1 = i
      BY <2>3
    <3>2. h[i + 1] = next[h[i]] /\ f[i + 1] = next[f[i]]
      BY <2>1, <3>1
    <3>3. QED  BY <3>1, <3>2
  <2> HIDE DEF M
  <2>4. n \in M
    BY <2>2, <2>3, SetInduction
  <2>5. QED  BY <2>4 DEF M, f, h
<1>5. \A n \in Nat : c[n] = g(n)[n] /\ g(n)[n] \in X
  BY <1>3
<1>6. c[0] = x /\ c \in [Nat -> X]
  <2> HIDE DEF g
  <2>1. c[0] = x
    BY <1>3, <1>5
  <2>2. QED  BY <1>5, <2>1
<1>7. ASSUME NEW k \in Nat
      PROVE  c[k + 1] = next[c[k]]
  <2>1. k + 1 \in 1 .. k + 1 /\ (k + 1) - 1 = k /\ Begun(k + 1, g(k + 1))
    <3>1. k + 1 \in Nat /\ k + 1 \in 1 .. k + 1 /\ (k + 1) - 1 = k
      OBVIOUS
    <3> HIDE DEF Begun, g
    <3>2. QED  BY <1>3, <3>1
  <2>2. g(k + 1)[k + 1] = next[g(k + 1)[k]]
    <3> DEFINE h == g(k + 1)
    <3> HIDE DEF h
    <3>1. Begun(k + 1, h)
      BY <2>1 DEF h
    <3>2. h[k + 1] = next[h[k]]
      BY <2>1, <3>1
    <3>3. QED  BY <3>2 DEF h
  <2>3. c[k + 1] = g(k + 1)[k + 1] /\ c[k] = g(k)[k]
    <3>1. k + 1 \in Nat
      OBVIOUS
    <3> HIDE DEF c, g
    <3>2. QED  BY <1>5, <3>1
  <2> HIDE DEF c, g
  <2>4. QED  BY <1>4, <2>2, <2>3
<1> HIDE DEF c
<1>8. QED  BY <1>6, <1>7

\* F is a set of functions on A that is given index by index.
PointByPoint(F, A) ==
    /\ \A f \in F : f = [a \in A |-> f[a]]
    /\ \A h : h = [a \in A |-> h[a]] /\ (\A a \in A : \E f \in F : h[a] = f[a]) => h \in F

LEMMA AllPointByPoint == \A A, X : PointByPoint([A -> X], A)
BY DEF PointByPoint

\* A recursive definition has a solution where what a function has at an index
\* is made of what it has at indices of lesser rank.
LEMMA RankedRecursion ==
    ASSUME NEW A, NEW F, PointByPoint(F, A), NEW rank, rank \in [A -> Nat],
           NEW next, next \in [F -> F], NEW start, start \in F,
           \A f, g \in F : \A a \in A :
               (\A b \in A : rank[b] < rank[a] => f[b] = g[b]) => next[f][a] = next[g][a]
    PROVE  \E f \in F : f = next[f]
<1>1. PICK c \in [Nat -> F] : c[0] = start /\ \A k \in Nat : c[k + 1] = next[c[k]]
  <2>1. start \in F /\ next \in [F -> F]
    OBVIOUS
  <2>2. QED  BY ONLY <2>1, NatRecursion
<1> DEFINE Settled(n) == \A a \in A : rank[a] < n => c[n + 1][a] = c[n][a]
           N == {n \in Nat : Settled(n)}
           f == [a \in A |-> c[rank[a] + 1][a]]
<1>2. 0 \in N
  OBVIOUS
<1>3. ASSUME NEW n \in Nat, n \in N
      PROVE  n + 1 \in N
  <2> SUFFICES ASSUME NEW a \in A, rank[a] < n + 1
               PROVE  c[(n + 1) + 1][a] = c[n + 1][a]
    OBVIOUS
  <2> DEFINE g == c[n]
             h == c[n + 1]
  <2>1. c[(n + 1) + 1] = next[h] /\ h = next[g] /\ g \in F /\ h \in F
    BY <1>1
  <2>2. \A b \in A : rank[b] < rank[a] => h[b] = g[b]
    BY <1>3
  <2> HIDE DEF g, h
  <2>3. next[h][a] = next[g][a]
    BY <2>1, <2>2
  <2>4. QED  BY <2>1, <2>3 DEF h
<1> HIDE DEF N
<1>4. \A n \in Nat : Settled(n)
  BY <1>2, <1>3, SetInduction DEF N
<1>5. ASSUME NEW a \in A, NEW m \in Nat
      PROVE  c[rank[a] + 1 + m][a] = c[rank[a] + 1][a]
  <2> DEFINE M == {k \in Nat : c[rank[a] + 1 + k][a] = c[rank[a] + 1][a]}
  <2>1. 0 \in M
    <3>1. rank[a] + 1 + 0 = rank[a] + 1
      OBVIOUS
    <3>2. QED  BY <3>1
  <2>2. ASSUME NEW k \in Nat, k \in M
        PROVE  k + 1 \in M
    <3> DEFINE n == rank[a] + 1 + k
    <3>1. n \in Nat /\ rank[a] < n /\ n + 1 = rank[a] + 1 + (k + 1)
      OBVIOUS
    <3>2. c[n + 1][a] = c[n][a]
      <4> HIDE DEF n
      <4>1. QED  BY <1>4, <3>1
    <3>3. QED  BY <2>2, <3>1, <3>2
  <2> HIDE DEF M
  <2>3. m \in M
    BY <2>1, <2>2, SetInduction
  <2>4. QED  BY <2>3 DEF M
<1>6. f \in F
  <2>1. f = [a \in A |-> f[a]] /\ \A a \in A : \E g \in F : f[a] = g[a]
    BY <1>1
  <2> HIDE DEF f
  <2>2. QED  BY <2>1 DEF PointByPoint
<1>7. ASSUME NEW a \in A
      PROVE  next[f][a] = f[a]
  <2> DEFINE r == rank[a]
  <2>1. r \in Nat /\ c[r] \in F
    BY <1>1
  <2>2. ASSUME NEW b \in A, rank[b] < r
        PROVE  f[b] = c[r][b]
    <3> DEFINE m == r - (rank[b] + 1)
    <3>1. m \in Nat /\ rank[b] + 1 + m = r
      BY <2>1, <2>2
    <3>2. c[rank[b] + 1 + m][b] = c[rank[b] + 1][b]
      <4> HIDE DEF m
      <4>1. QED  BY <1>5, <3>1
    <3>3. QED  BY <3>1, <3>2
  <2>3. next[f][a] = next[c[r]][a]
    <3> HIDE DEF f
    <3>1. QED  BY <1>6, <2>1, <2>2
  <2>4. c[r + 1] = next[c[r]]
    BY <1>1, <2>1
  <2>5. QED  BY <2>3, <2>4
<1>8. f = next[f]
  <2> HIDE DEF f
  <2>1. next[f] = [a \in A |-> next[f][a]] /\ f = [a \in A |-> f[a]]
    BY <1>6 DEF PointByPoint
  <2>2. QED  BY <1>7, <2>1
<1>9. QED  BY <1>6, <1>8

\* Every solution is a function of the kind that a step leads to.
LEMMA RankedSolution ==
    ASSUME NEW A, NEW F, PointByPoint(F, A), NEW rank, rank \in [A -> Nat],
           NEW next, next \in [F -> F], NEW start, start \in F,
           NEW p, p = [a \in A |-> p[a]],
           \A g \in F : \A a \in A :
               (\A b \in A : rank[b] < rank[a] => p[b] = g[b]) => p[a] = next[g][a]
    PROVE  p \in F
<1> DEFINE N == {n \in Nat : \A a \in A : rank[a] < n => \E f \in F : p[a] = f[a]}
<1>1. 0 \in N
  OBVIOUS
<1>2. ASSUME NEW n \in Nat, n \in N
      PROVE  n + 1 \in N
  <2> SUFFICES ASSUME NEW a \in A, rank[a] < n + 1
               PROVE  \E f \in F : p[a] = f[a]
    OBVIOUS
  <2> DEFINE g == [b \in A |-> IF rank[b] < rank[a] THEN p[b] ELSE start[b]]
  <2>1. \A b \in A : rank[b] < rank[a] => \E f \in F : p[b] = f[b]
    BY <1>2
  <2>2. g = [b \in A |-> g[b]] /\ \A b \in A : \E f \in F : g[b] = f[b]
    <3>1. \A b \in A : rank[b] < rank[a] => g[b] = p[b]
      OBVIOUS
    <3>2. \A b \in A : ~ (rank[b] < rank[a]) => g[b] = start[b]
      OBVIOUS
    <3>3. g = [b \in A |-> g[b]]
      OBVIOUS
    <3> HIDE DEF g
    <3>4. QED  BY <2>1, <3>1, <3>2, <3>3
  <2>3. \A b \in A : rank[b] < rank[a] => p[b] = g[b]
    OBVIOUS
  <2> HIDE DEF g
  <2>4. g \in F
    BY <2>2 DEF PointByPoint
  <2>5. p[a] = next[g][a] /\ next[g] \in F
    BY <2>3, <2>4
  <2>6. QED  BY <2>5
<1> HIDE DEF N
<1>3. \A n \in Nat : n \in N
  BY <1>1, <1>2, SetInduction
<1>4. ASSUME NEW a \in A PROVE \E f \in F : p[a] = f[a]
  <2>1. rank[a] + 1 \in N /\ rank[a] < rank[a] + 1
    BY <1>3
  <2>2. QED  BY <2>1 DEF N
<1>5. QED  BY <1>4 DEF PointByPoint

-----------------------------------------------------------------------------
(* Sums. *)

\* g is the sum of f over every subset of S, element by element.
IsSum(g, f, S) ==
    g = [s \in SUBSET S |->
            IF s = {} THEN 0
            ELSE f[CHOOSE x \in s : TRUE] + g[s \ {CHOOSE x \in s : TRUE}]]

Sum(f, S) == SumFunctionOnSet(f, S)

-----------------------------------------------------------------------------
\* Taking the chosen element out of a set makes it smaller by one.
LEMMA ChosenOut ==
    ASSUME NEW s, s # {}, IsFiniteSet(s)
    PROVE  /\ (CHOOSE x \in s : TRUE) \in s
           /\ \A x \in s : /\ IsFiniteSet(s \ {x})
                           /\ Cardinality(s \ {x}) = Cardinality(s) - 1
                           /\ Cardinality(s) \in Nat /\ Cardinality(s) >= 1
<1>1. (CHOOSE x \in s : TRUE) \in s
  OBVIOUS
<1>2. ASSUME NEW x \in s
      PROVE  /\ IsFiniteSet(s \ {x}) /\ Cardinality(s \ {x}) = Cardinality(s) - 1
             /\ Cardinality(s) \in Nat /\ Cardinality(s) >= 1
  <2>1. Cardinality(s) \in Nat /\ Cardinality(s) # 0
    BY FS_CardinalityType, FS_EmptySet
  <2>2. QED  BY <2>1, FS_RemoveElement
<1>3. QED  BY <1>1, <1>2

\* There is a sum of every function over a finite set.
LEMMA SumExists ==
    ASSUME NEW f, NEW S, IsFiniteSet(S)
    PROVE  \E g : IsSum(g, f, S)
<1> DEFINE pick(s) == CHOOSE x \in s : TRUE
           small(n) == {s \in SUBSET S : Cardinality(s) <= n}
           Summed(n) == \E g : g = [s \in small(n) |->
                            IF s = {} THEN 0 ELSE f[pick(s)] + g[s \ {pick(s)}]]
           N == {n \in Nat : Summed(n)}
<1>1. \A s \in SUBSET S : IsFiniteSet(s) /\ Cardinality(s) \in Nat
  BY FS_Subset, FS_CardinalityType
<1>2. 0 \in N
  <2> DEFINE g == [s \in small(0) |-> 0]
  <2>1. \A s \in small(0) : s = {}
    <3>1. \A s \in SUBSET S : Cardinality(s) <= 0 => Cardinality(s) = 0
      BY <1>1
    <3>2. QED  BY <1>1, <3>1, FS_EmptySet
  <2>2. g = [s \in small(0) |-> IF s = {} THEN 0 ELSE f[pick(s)] + g[s \ {pick(s)}]]
    BY <2>1
  <2>3. QED  BY <2>2
<1>3. ASSUME NEW n \in Nat, n \in N
      PROVE  n + 1 \in N
  <2>1. PICK g : g = [s \in small(n) |->
                         IF s = {} THEN 0 ELSE f[pick(s)] + g[s \ {pick(s)}]]
    BY <1>3
  <2> DEFINE h == [s \in small(n + 1) |->
                      IF s = {} THEN 0 ELSE f[pick(s)] + g[s \ {pick(s)}]]
  <2>2. small(n) \subseteq small(n + 1)
    BY <1>1
  <2>3. \A s \in small(n) : h[s] = g[s]
    BY <2>1, <2>2
  <2>4. \A s \in small(n + 1) : s # {} => s \ {pick(s)} \in small(n)
    <3> SUFFICES ASSUME NEW s \in small(n + 1), s # {}
                 PROVE  s \ {pick(s)} \in small(n)
      OBVIOUS
    <3>1. pick(s) \in s /\ Cardinality(s \ {pick(s)}) = Cardinality(s) - 1
      BY <1>1, ChosenOut
    <3>2. Cardinality(s) \in Nat /\ Cardinality(s) <= n + 1
      BY <1>1
    <3>3. QED  BY <3>1, <3>2
  <2>5. \A s \in small(n + 1) :
            h[s] = IF s = {} THEN 0 ELSE f[pick(s)] + h[s \ {pick(s)}]
    <3> HIDE DEF pick, small
    <3>1. \A s \in small(n + 1) :
              h[s] = IF s = {} THEN 0 ELSE f[pick(s)] + g[s \ {pick(s)}]
      OBVIOUS
    <3> HIDE DEF h
    <3>2. QED  BY <2>3, <2>4, <3>1
  <2>6. h = [s \in small(n + 1) |->
                IF s = {} THEN 0 ELSE f[pick(s)] + h[s \ {pick(s)}]]
    <3>1. h = [s \in small(n + 1) |-> h[s]]
      OBVIOUS
    <3> HIDE DEF h, pick, small
    <3>2. QED  BY <2>5, <3>1
  <2>7. \E k : k = [s \in small(n + 1) |->
                      IF s = {} THEN 0 ELSE f[pick(s)] + k[s \ {pick(s)}]]
    <3> HIDE DEF h, small, pick
    <3>1. QED  BY <2>6
  <2>8. Summed(n + 1)
    BY <2>7
  <2> HIDE DEF Summed
  <2>9. QED  BY <2>8
<1>4. Nat \subseteq N
  <2> HIDE DEF N
  <2>1. QED  BY <1>2, <1>3, SetInduction
<1>5. Cardinality(S) \in N
  BY <1>4, FS_CardinalityType
<1>6. small(Cardinality(S)) = SUBSET S
  BY FS_Subset
<1>7. QED  BY <1>5, <1>6 DEF IsSum

\* The sums of two functions that agree on a set are the same for that set,
\* whatever larger sets they were defined for.
LEMMA SumsAgree ==
    ASSUME NEW f, NEW g, NEW S, IsFiniteSet(S), IsSum(g, f, S),
           NEW e, NEW h, NEW T, IsFiniteSet(T), IsSum(h, e, T),
           NEW C, C \subseteq S, C \subseteq T, \A x \in C : f[x] = e[x]
    PROVE  g[C] = h[C]
<1> DEFINE pick(s) == CHOOSE x \in s : TRUE
           Same(n) == \A s \in SUBSET C : Cardinality(s) <= n => g[s] = h[s]
           N == {n \in Nat : Same(n)}
<1>1. \A s \in SUBSET C : IsFiniteSet(s) /\ Cardinality(s) \in Nat
  BY FS_Subset, FS_CardinalityType
<1>2. \A s \in SUBSET C : s # {} =>
          /\ pick(s) \in C /\ s \ {pick(s)} \in SUBSET C
          /\ Cardinality(s \ {pick(s)}) = Cardinality(s) - 1
  BY <1>1, ChosenOut
<1>3. /\ \A s \in SUBSET C : s # {} => g[s] = f[pick(s)] + g[s \ {pick(s)}]
      /\ \A s \in SUBSET C : s # {} => h[s] = e[pick(s)] + h[s \ {pick(s)}]
      /\ g[{}] = 0 /\ h[{}] = 0
  BY DEF IsSum
<1>4. Same(0)
  <2>1. \A s \in SUBSET C : Cardinality(s) <= 0 => s = {}
    BY <1>1, FS_EmptySet
  <2>2. QED  BY <1>3, <2>1
<1>5. ASSUME NEW n \in Nat, Same(n)
      PROVE  Same(n + 1)
  <2> SUFFICES ASSUME NEW s \in SUBSET C, Cardinality(s) <= n + 1
               PROVE  g[s] = h[s]
    OBVIOUS
  <2> HIDE DEF pick
  <2>1. CASE s = {}
    BY <1>3, <2>1
  <2>2. CASE s # {}
    <3>1. Cardinality(s \ {pick(s)}) <= n
      BY <1>1, <1>2, <2>2
    <3>2. g[s \ {pick(s)}] = h[s \ {pick(s)}]
      BY <1>2, <1>5, <2>2, <3>1
    <3>3. QED  BY <1>2, <1>3, <2>2, <3>2
  <2>3. QED  BY <2>1, <2>2
<1>6. Nat \subseteq N
  <2> HIDE DEF Same
  <2>1. 0 \in N /\ \A n \in Nat : n \in N => n + 1 \in N
    BY <1>4, <1>5
  <2> HIDE DEF N
  <2>2. QED  BY <2>1, SetInduction
<1>7. Cardinality(C) \in Nat
  BY <1>1
<1>8. QED  BY <1>6, <1>7

\* The sum of integers over a finite set does not depend on the element taken.
LEMMA SumTakesAny ==
    ASSUME NEW f, NEW g, NEW S, IsFiniteSet(S), IsSum(g, f, S),
           \A x \in S : f[x] \in Int
    PROVE  \A s \in SUBSET S : /\ g[s] \in Int
                              /\ \A x \in s : g[s] = f[x] + g[s \ {x}]
<1> DEFINE pick(s) == CHOOSE x \in s : TRUE
           Any(s) == g[s] \in Int /\ \A x \in s : g[s] = f[x] + g[s \ {x}]
           Good(n) == \A s \in SUBSET S : Cardinality(s) <= n => Any(s)
           N == {n \in Nat : Good(n)}
<1>1. \A s \in SUBSET S : IsFiniteSet(s) /\ Cardinality(s) \in Nat
  BY FS_Subset, FS_CardinalityType
<1>2. \A s \in SUBSET S : s # {} => pick(s) \in s
  OBVIOUS
<1>3. \A s \in SUBSET S : \A x \in s : Cardinality(s \ {x}) = Cardinality(s) - 1
  BY <1>1, ChosenOut
<1>4. /\ \A s \in SUBSET S : s # {} => g[s] = f[pick(s)] + g[s \ {pick(s)}]
      /\ g[{}] = 0
  BY DEF IsSum
<1>5. Good(0)
  <2>1. \A s \in SUBSET S : Cardinality(s) <= 0 => s = {}
    BY <1>1, FS_EmptySet
  <2>2. Any({})
    BY <1>4
  <2> HIDE DEF Any
  <2>3. QED  BY <2>1, <2>2
<1>6. ASSUME NEW n \in Nat, Good(n)
      PROVE  Good(n + 1)
  <2> SUFFICES ASSUME NEW s \in SUBSET S, Cardinality(s) <= n + 1
               PROVE  Any(s)
    OBVIOUS
  <2> HIDE DEF pick
  <2>1. CASE s = {}
    BY <1>4, <2>1
  <2>2. CASE s # {}
    <3> DEFINE y == pick(s)
    <3>1. y \in s /\ g[s] = f[y] + g[s \ {y}] /\ f[y] \in Int
      BY <1>2, <1>4, <2>2
    <3>2. \A x \in s : s \ {x} \in SUBSET S /\ Cardinality(s \ {x}) <= n
      BY <1>1, <1>3
    <3>3. \A x \in s : Any(s \ {x})
      BY <1>6, <3>2
    <3>4. g[s] \in Int
      <4>1. g[s \ {y}] \in Int
        BY <3>1, <3>3
      <4> HIDE DEF y
      <4>2. QED  BY <3>1, <4>1
    <3>5. ASSUME NEW x \in s, x # y
          PROVE  g[s] = f[x] + g[s \ {x}]
      <4>1. x \in s \ {y} /\ y \in s \ {x} /\ f[x] \in Int
        BY <3>1, <3>5
      <4>2. /\ g[s \ {y}] = f[x] + g[(s \ {y}) \ {x}]
            /\ g[s \ {x}] = f[y] + g[(s \ {x}) \ {y}]
        BY <3>1, <3>3, <4>1
      <4>3. (s \ {y}) \ {x} = (s \ {x}) \ {y}
        OBVIOUS
      <4>4. g[(s \ {y}) \ {x}] \in Int
        <5>1. (s \ {y}) \ {x} \in SUBSET S /\ s \ {y} \in SUBSET S
          OBVIOUS
        <5> DEFINE d == s \ {y}
                   r == (s \ {y}) \ {x}
        <5>2. Cardinality(d) \in Nat /\ Cardinality(d) <= n
          BY <1>1, <3>1, <3>2
        <5>3. Cardinality(r) = Cardinality(d) - 1
          BY <1>3, <4>1, <5>1
        <5>4. Cardinality(r) <= n
          <6> HIDE DEF r, d
          <6>1. QED  BY <5>2, <5>3
        <5>5. QED  BY <1>6, <5>1, <5>4
      <4>5. \E z \in Int : g[s \ {y}] = f[x] + z /\ g[s \ {x}] = f[y] + z
        BY <4>2, <4>3, <4>4
      <4> HIDE DEF y
      <4>6. QED  BY <3>1, <4>1, <4>5
    <3> HIDE DEF y
    <3>6. QED  BY <3>1, <3>4, <3>5
  <2>3. QED  BY <2>1, <2>2
<1>7. Nat \subseteq N
  <2> HIDE DEF Good
  <2>1. 0 \in N /\ \A n \in Nat : n \in N => n + 1 \in N
    BY <1>5, <1>6
  <2> HIDE DEF N
  <2>2. QED  BY <2>1, SetInduction
<1>8. QED
  <2> SUFFICES ASSUME NEW s \in SUBSET S PROVE Any(s)
    OBVIOUS
  <2>1. Cardinality(s) \in N
    BY <1>1, <1>7
  <2> HIDE DEF Any
  <2>2. QED  BY <1>1, <2>1

\* Sum is a sum in this sense.
LEMMA SumIsSum ==
    ASSUME NEW f, NEW S, IsFiniteSet(S)
    PROVE  \E g : IsSum(g, f, S) /\ Sum(f, S) = g[S]
<1> DEFINE g == CHOOSE h : IsSum(h, f, S)
<1>1. IsSum(g, f, S)
  BY SumExists
<1>2. Sum(f, S) = g[S]
  BY DEF Sum, SumFunctionOnSet, FoldFunctionOnSet, MapThenFoldSet, IsSum
<1>3. QED  BY <1>1, <1>2

-----------------------------------------------------------------------------
(* What the proofs about spans use. *)

LEMMA SumEmpty == \A f : Sum(f, {}) = 0
<1> SUFFICES ASSUME NEW f PROVE Sum(f, {}) = 0
  OBVIOUS
<1>1. PICK g : IsSum(g, f, {}) /\ Sum(f, {}) = g[{}]
  BY FS_EmptySet, SumIsSum
<1>2. g[{}] = 0
  BY <1>1 DEF IsSum
<1>3. QED  BY <1>1, <1>2

LEMMA SumType ==
    ASSUME NEW f, NEW S, IsFiniteSet(S), \A x \in S : f[x] \in Int
    PROVE  Sum(f, S) \in Int
<1>1. PICK g : IsSum(g, f, S) /\ Sum(f, S) = g[S]
  BY SumIsSum
<1>2. QED  BY <1>1, SumTakesAny

\* A sum looks only at the elements of its set.
LEMMA SumSame ==
    ASSUME NEW f, NEW e, NEW S, IsFiniteSet(S), \A x \in S : f[x] = e[x]
    PROVE  Sum(f, S) = Sum(e, S)
<1>1. PICK g : IsSum(g, f, S) /\ Sum(f, S) = g[S]
  BY SumIsSum
<1>2. PICK h : IsSum(h, e, S) /\ Sum(e, S) = h[S]
  BY SumIsSum
<1>3. g[S] = h[S]
  BY <1>1, <1>2, SumsAgree
<1>4. QED  BY <1>1, <1>2, <1>3

LEMMA SumRemove ==
    ASSUME NEW f, NEW S, IsFiniteSet(S), \A x \in S : f[x] \in Int, NEW y \in S
    PROVE  Sum(f, S) = f[y] + Sum(f, S \ {y})
<1> DEFINE T == S \ {y}
<1>1. IsFiniteSet(T)
  BY FS_Subset
<1>2. PICK g : IsSum(g, f, S) /\ Sum(f, S) = g[S]
  BY SumIsSum
<1>3. PICK h : IsSum(h, f, T) /\ Sum(f, T) = h[T]
  BY <1>1, SumIsSum
<1>4. g[S] = f[y] + g[T]
  BY <1>2, SumTakesAny
<1>5. g[T] = h[T]
  <2> HIDE DEF T
  <2>1. T \subseteq S
    BY DEF T
  <2>2. QED  BY <1>1, <1>2, <1>3, <2>1, SumsAgree
<1>6. QED  BY <1>2, <1>3, <1>4, <1>5

LEMMA SumAdd ==
    ASSUME NEW f, NEW S, IsFiniteSet(S), NEW y, y \notin S,
           \A x \in S \cup {y} : f[x] \in Int
    PROVE  Sum(f, S \cup {y}) = Sum(f, S) + f[y]
<1> DEFINE T == S \cup {y}
<1>1. IsFiniteSet(T) /\ T \ {y} = S /\ y \in T
  BY FS_AddElement
<1>2. Sum(f, T) = f[y] + Sum(f, S)
  <2> HIDE DEF T
  <2>1. \A x \in T : f[x] \in Int
    BY DEF T
  <2>2. Sum(f, T) = f[y] + Sum(f, T \ {y})
    BY <1>1, <2>1, SumRemove
  <2>3. QED  BY <1>1, <2>2
<1>3. Sum(f, S) \in Int /\ f[y] \in Int
  BY SumType
<1>4. QED  BY <1>2, <1>3

\* Of amounts, a set has no more than a larger set.
LEMMA SumGrows ==
    ASSUME NEW f, NEW S, IsFiniteSet(S), \A x \in S : f[x] \in Nat
    PROVE  \A T \in SUBSET S : Sum(f, T) \in Nat /\ Sum(f, T) <= Sum(f, S)
<1> DEFINE Less(n) == \A U \in SUBSET S : \A T \in SUBSET U :
                          Cardinality(U) <= n => Sum(f, T) \in Nat /\ Sum(f, T) <= Sum(f, U)
           N == {n \in Nat : Less(n)}
<1>1. \A U \in SUBSET S : IsFiniteSet(U) /\ Cardinality(U) \in Nat
  BY FS_Subset, FS_CardinalityType
<1>2. Less(0)
  <2>1. \A U \in SUBSET S : Cardinality(U) <= 0 => U = {}
    BY <1>1, FS_EmptySet
  <2>2. QED  BY <2>1, SumEmpty
<1>3. ASSUME NEW n \in Nat, Less(n)
      PROVE  Less(n + 1)
  <2> SUFFICES ASSUME NEW U \in SUBSET S, NEW T \in SUBSET U, Cardinality(U) <= n + 1
               PROVE  Sum(f, T) \in Nat /\ Sum(f, T) <= Sum(f, U)
    OBVIOUS
  <2>1. ASSUME NEW y \in U
        PROVE  /\ \A R \in SUBSET (U \ {y}) : Sum(f, R) \in Nat /\ Sum(f, R) <= Sum(f, U \ {y})
               /\ Sum(f, U) = f[y] + Sum(f, U \ {y})
    <3> DEFINE V == U \ {y}
    <3>1. V \in SUBSET S /\ Cardinality(V) <= n
      <4>1. Cardinality(V) = Cardinality(U) - 1
        BY <1>1, FS_RemoveElement
      <4>2. QED  BY <1>1, <4>1
    <3>2. \A R \in SUBSET V : Sum(f, R) \in Nat /\ Sum(f, R) <= Sum(f, V)
      <4> HIDE DEF V
      <4>1. QED  BY <1>3, <3>1
    <3>3. \A x \in U : f[x] \in Int
      OBVIOUS
    <3>4. Sum(f, U) = f[y] + Sum(f, V)
      BY <1>1, <3>3, SumRemove
    <3>5. QED  BY <3>2, <3>4
  <2>2. CASE T # U
    <3>1. PICK y \in U : y \notin T
      BY <2>2
    <3>2. /\ Sum(f, T) \in Nat /\ Sum(f, T) <= Sum(f, U \ {y}) /\ Sum(f, U \ {y}) \in Nat
          /\ Sum(f, U) = f[y] + Sum(f, U \ {y}) /\ f[y] \in Nat
      BY <2>1, <3>1
    <3>3. QED  BY <3>2
  <2>3. CASE T = U /\ U # {}
    <3>1. PICK y : y \in U
      BY <2>3
    <3>2. /\ Sum(f, U \ {y}) \in Nat /\ f[y] \in Nat
          /\ Sum(f, U) = f[y] + Sum(f, U \ {y})
      BY <2>1, <3>1
    <3>3. QED  BY <2>3, <3>2
  <2>4. CASE T = U /\ U = {}
    BY <2>4, SumEmpty
  <2>5. QED  BY <2>2, <2>3, <2>4
<1>4. Nat \subseteq N
  <2> HIDE DEF Less
  <2>1. 0 \in N /\ \A n \in Nat : n \in N => n + 1 \in N
    BY <1>2, <1>3
  <2> HIDE DEF N
  <2>2. QED  BY <2>1, SetInduction
<1>5. Cardinality(S) \in N
  BY <1>1, <1>4
<1>6. QED  BY <1>1, <1>5

\* Counting is summing ones.
LEMMA SumOfOnes ==
    ASSUME NEW f, NEW S, IsFiniteSet(S), \A x \in S : f[x] = 1
    PROVE  Sum(f, S) = Cardinality(S)
<1> DEFINE Ones(n) == \A T \in SUBSET S : Cardinality(T) <= n => Sum(f, T) = Cardinality(T)
           N == {n \in Nat : Ones(n)}
<1>1. \A T \in SUBSET S : IsFiniteSet(T) /\ Cardinality(T) \in Nat
  BY FS_Subset, FS_CardinalityType
<1>2. Ones(0)
  <2>1. \A T \in SUBSET S : Cardinality(T) <= 0 => T = {}
    BY <1>1, FS_EmptySet
  <2>2. QED  BY <2>1, SumEmpty, FS_EmptySet
<1>3. ASSUME NEW n \in Nat, Ones(n)
      PROVE  Ones(n + 1)
  <2> SUFFICES ASSUME NEW T \in SUBSET S, Cardinality(T) <= n + 1
               PROVE  Sum(f, T) = Cardinality(T)
    OBVIOUS
  <2>1. CASE T = {}
    BY <2>1, SumEmpty, FS_EmptySet
  <2>2. CASE T # {}
    <3>1. PICK y : y \in T
      BY <2>2
    <3> DEFINE R == T \ {y}
    <3>2. R \in SUBSET S /\ Cardinality(R) = Cardinality(T) - 1
      BY <1>1, <3>1, FS_RemoveElement
    <3>3. Sum(f, R) = Cardinality(R)
      <4> HIDE DEF R
      <4>1. Cardinality(R) <= n
        BY <1>1, <3>2
      <4>2. QED  BY <1>3, <3>2, <4>1
    <3>4. Sum(f, T) = f[y] + Sum(f, R)
      BY <1>1, <3>1, SumRemove
    <3> HIDE DEF R
    <3>5. QED  BY <1>1, <3>1, <3>2, <3>3, <3>4
  <2>3. QED  BY <2>1, <2>2
<1>4. Nat \subseteq N
  <2> HIDE DEF Ones
  <2>1. 0 \in N /\ \A n \in Nat : n \in N => n + 1 \in N
    BY <1>2, <1>3
  <2> HIDE DEF N
  <2>2. QED  BY <2>1, SetInduction
<1>5. Cardinality(S) \in N
  BY <1>1, <1>4
<1>6. QED  BY <1>1, <1>5

-----------------------------------------------------------------------------
(* Sums over sets that correspond. *)

\* A collection of subsets of S that has the empty set, and with a set every
\* set of one element more, has S.
LEMMA SubsetInduction ==
    ASSUME NEW S, IsFiniteSet(S), NEW C, {} \in C,
           \A U \in SUBSET S : \A x \in S \ U : U \in C => U \cup {x} \in C
    PROVE  S \in C
<1> DEFINE N == {n \in Nat : \A U \in SUBSET S : Cardinality(U) <= n => U \in C}
<1>1. \A U \in SUBSET S : IsFiniteSet(U) /\ Cardinality(U) \in Nat
  BY FS_Subset, FS_CardinalityType
<1>2. 0 \in N
  <2>1. \A U \in SUBSET S : Cardinality(U) <= 0 => U = {}
    BY <1>1, FS_EmptySet
  <2>2. QED  BY <2>1
<1>3. ASSUME NEW n \in Nat, n \in N
      PROVE  n + 1 \in N
  <2> SUFFICES ASSUME NEW U \in SUBSET S, Cardinality(U) <= n + 1
               PROVE  U \in C
    OBVIOUS
  <2>1. CASE U = {}
    BY <2>1
  <2>2. CASE U # {}
    <3>1. PICK x : x \in U
      BY <2>2
    <3>2. Cardinality(U \ {x}) = Cardinality(U) - 1
      BY <1>1, <3>1, FS_RemoveElement
    <3>3. U \ {x} \in SUBSET S /\ Cardinality(U \ {x}) <= n
      BY <1>1, <3>2
    <3>4. U \ {x} \in C /\ x \in S \ (U \ {x})
      BY <1>3, <3>1, <3>3
    <3>5. (U \ {x}) \cup {x} = U
      BY <3>1
    <3>6. QED  BY <3>3, <3>4, <3>5
  <2>3. QED  BY <2>1, <2>2
<1> HIDE DEF N
<1>4. Cardinality(S) \in N
  BY <1>1, <1>2, <1>3, SetInduction
<1>5. QED  BY <1>1, <1>4 DEF N

\* What is zero does not count.
LEMMA SumSupport ==
    ASSUME NEW f, NEW S, IsFiniteSet(S), \A x \in S : f[x] \in Int,
           NEW R \in SUBSET S, \A x \in S \ R : f[x] = 0
    PROVE  Sum(f, S) = Sum(f, R)
<1> DEFINE C == {U \in SUBSET S : Sum(f, U) = Sum(f, U \cap R)}
<1>1. {} \in C
  BY SumEmpty
<1>2. ASSUME NEW U \in SUBSET S, NEW x \in S \ U, U \in C
      PROVE  U \cup {x} \in C
  <2>1. IsFiniteSet(U) /\ IsFiniteSet(U \cap R)
    BY FS_Subset
  <2>2. Sum(f, U) = Sum(f, U \cap R) /\ Sum(f, U) \in Int
    BY <1>2, <2>1, SumType
  <2>3. Sum(f, U \cup {x}) = Sum(f, U) + f[x]
    BY <2>1, SumAdd
  <2> SUFFICES Sum(f, U \cup {x}) = Sum(f, (U \cup {x}) \cap R)
    BY DEF C
  <2>4. CASE x \in R
    <3>1. (U \cup {x}) \cap R = (U \cap R) \cup {x}
      BY <2>4
    <3>2. Sum(f, (U \cap R) \cup {x}) = Sum(f, U \cap R) + f[x]
      BY <2>1, SumAdd
    <3>3. QED  BY <2>2, <2>3, <3>1, <3>2
  <2>5. CASE x \notin R
    <3>1. (U \cup {x}) \cap R = U \cap R /\ f[x] = 0
      BY <2>5
    <3>2. Sum(f, U) + 0 = Sum(f, U)
      BY <2>2
    <3>3. QED  BY <2>2, <2>3, <3>1, <3>2
  <2>6. QED  BY <2>4, <2>5
<1> HIDE DEF C
<1>3. S \in C
  BY <1>1, <1>2, SubsetInduction
<1>4. S \cap R = R
  OBVIOUS
<1>5. QED  BY <1>3, <1>4 DEF C

\* A sum may be taken over names of what is summed.
LEMMA SumReindex ==
    ASSUME NEW f, NEW e, NEW g, NEW S, IsFiniteSet(S), \A x \in S : f[x] \in Int,
           \A x, y \in S : g[x] = g[y] => x = y,
           \A x \in S : f[x] = e[g[x]]
    PROVE  Sum(f, S) = Sum(e, {g[x] : x \in S})
<1> DEFINE image(U) == {g[x] : x \in U}
           C == {U \in SUBSET S : Sum(f, U) = Sum(e, image(U)) /\ IsFiniteSet(image(U))}
<1>1. {} \in C
  <2>1. image({}) = {}
    OBVIOUS
  <2>2. QED  BY <2>1, SumEmpty, FS_EmptySet
<1>2. ASSUME NEW U \in SUBSET S, NEW x \in S \ U, U \in C
      PROVE  U \cup {x} \in C
  <2>1. IsFiniteSet(U)
    BY FS_Subset
  <2>2. Sum(f, U) = Sum(e, image(U)) /\ IsFiniteSet(image(U))
    BY <1>2
  <2>3. image(U \cup {x}) = image(U) \cup {g[x]} /\ g[x] \notin image(U)
    OBVIOUS
  <2>4. \A y \in image(U) \cup {g[x]} : e[y] \in Int
    OBVIOUS
  <2>5. Sum(f, U \cup {x}) = Sum(f, U) + f[x]
    BY <2>1, SumAdd
  <2> HIDE DEF image
  <2>6. Sum(e, image(U) \cup {g[x]}) = Sum(e, image(U)) + e[g[x]]
    BY <2>2, <2>3, <2>4, SumAdd
  <2>7. IsFiniteSet(image(U) \cup {g[x]})
    BY <2>2, FS_AddElement
  <2>8. QED  BY <2>2, <2>3, <2>5, <2>6, <2>7
<1> HIDE DEF C
<1>3. S \in C
  BY <1>1, <1>2, SubsetInduction
<1>4. QED  BY <1>3 DEF C

-----------------------------------------------------------------------------
(* Sums that are cut up and put together. *)

LEMMA SumUnion ==
    ASSUME NEW f, NEW A, IsFiniteSet(A), NEW B, IsFiniteSet(B), A \cap B = {},
           \A x \in A \cup B : f[x] \in Int
    PROVE  Sum(f, A \cup B) = Sum(f, A) + Sum(f, B)
<1> DEFINE C == {U \in SUBSET B : Sum(f, A \cup U) = Sum(f, A) + Sum(f, U)}
<1>1. {} \in C
  <2>1. Sum(f, A) \in Int /\ Sum(f, {}) = 0 /\ A \cup {} = A
    BY SumType, SumEmpty
  <2>2. QED  BY <2>1
<1>2. ASSUME NEW U \in SUBSET B, NEW x \in B \ U, U \in C
      PROVE  U \cup {x} \in C
  <2> DEFINE AU == A \cup U
  <2>1. IsFiniteSet(U) /\ IsFiniteSet(AU) /\ x \notin AU /\ x \notin U
    BY FS_Subset, FS_Union
  <2>2. \A y \in AU \cup {x} : f[y] \in Int
    OBVIOUS
  <2>3. A \cup (U \cup {x}) = AU \cup {x}
    OBVIOUS
  <2>4. Sum(f, AU) = Sum(f, A) + Sum(f, U)
    BY <1>2
  <2> HIDE DEF AU
  <2>5. Sum(f, AU \cup {x}) = Sum(f, AU) + f[x]
    BY <2>1, <2>2, SumAdd
  <2>6. Sum(f, U \cup {x}) = Sum(f, U) + f[x]
    BY <2>1, SumAdd
  <2>7. Sum(f, A) \in Int /\ Sum(f, U) \in Int /\ f[x] \in Int
    BY <2>1, SumType
  <2>8. Sum(f, AU \cup {x}) = Sum(f, A) + Sum(f, U \cup {x})
    BY <2>4, <2>5, <2>6, <2>7
  <2>9. QED  BY <2>3, <2>8
<1> HIDE DEF C
<1>3. B \in C
  BY <1>1, <1>2, SubsetInduction
<1>4. QED  BY <1>3 DEF C

\* The sum of the sums of the parts of a set.
AddsUp(e, K, f, all, part) ==
    /\ IsFiniteSet(K)
    /\ \A v \in K : /\ IsFiniteSet(part[v]) /\ \A x \in part[v] : f[x] \in Int
                    /\ e[v] = Sum(f, part[v])
    /\ \A v, w \in K : v # w => part[v] \cap part[w] = {}
    /\ \A x : x \in all <=> \E v \in K : x \in part[v]

LEMMA SumOfParts ==
    ASSUME NEW e, NEW K, NEW f, NEW all, NEW part, AddsUp(e, K, f, all, part)
    PROVE  Sum(e, K) = Sum(f, all)
<1>1. /\ IsFiniteSet(K)
      /\ \A v \in K : /\ IsFiniteSet(part[v]) /\ \A x \in part[v] : f[x] \in Int
                      /\ e[v] = Sum(f, part[v])
      /\ \A v, w \in K : v # w => part[v] \cap part[w] = {}
      /\ \A x : x \in all <=> \E v \in K : x \in part[v]
  BY DEF AddsUp
<1> DEFINE parts(U) == UNION {part[v] : v \in U}
           C == {U \in SUBSET K : Sum(e, U) = Sum(f, parts(U)) /\ IsFiniteSet(parts(U))}
<1>2. {} \in C
  <2>1. parts({}) = {}
    OBVIOUS
  <2>2. QED  BY <2>1, SumEmpty, FS_EmptySet
<1>3. ASSUME NEW U \in SUBSET K, NEW v \in K \ U, U \in C
      PROVE  U \cup {v} \in C
  <2>1. parts(U \cup {v}) = parts(U) \cup part[v] /\ parts(U) \cap part[v] = {}
    BY <1>1
  <2>2. \A x \in parts(U) \cup part[v] : f[x] \in Int
    BY <1>1
  <2>3. Sum(e, U) = Sum(f, parts(U)) /\ IsFiniteSet(parts(U)) /\ IsFiniteSet(part[v])
    BY <1>1, <1>3
  <2> HIDE DEF parts
  <2>4. Sum(f, parts(U) \cup part[v]) = Sum(f, parts(U)) + Sum(f, part[v])
    BY <2>1, <2>2, <2>3, SumUnion
  <2>5. Sum(e, U \cup {v}) = Sum(e, U) + e[v]
    <3>1. \A w \in U \cup {v} : e[w] \in Int
      BY <1>1, SumType
    <3>2. IsFiniteSet(U)
      BY <1>1, FS_Subset
    <3>3. QED  BY <3>1, <3>2, SumAdd
  <2>6. IsFiniteSet(parts(U) \cup part[v])
    BY <2>3, FS_Union
  <2>7. QED  BY <1>1, <2>1, <2>3, <2>4, <2>5, <2>6
<1> HIDE DEF C
<1>4. K \in C
  BY <1>1, <1>2, <1>3, SubsetInduction
<1>5. parts(K) = all
  BY <1>1
<1>6. QED  BY <1>4, <1>5 DEF C

\* Sums add up element by element.
LEMMA SumPlus ==
    ASSUME NEW S, IsFiniteSet(S), NEW f, NEW e, NEW h,
           \A x \in S : f[x] \in Int /\ e[x] \in Int /\ h[x] = f[x] + e[x]
    PROVE  Sum(h, S) = Sum(f, S) + Sum(e, S)
<1> DEFINE C == {U \in SUBSET S : Sum(h, U) = Sum(f, U) + Sum(e, U)}
<1>1. {} \in C
  BY SumEmpty
<1>2. ASSUME NEW U \in SUBSET S, NEW x \in S \ U, U \in C
      PROVE  U \cup {x} \in C
  <2>1. IsFiniteSet(U) /\ x \notin U
    BY FS_Subset
  <2>2. \A y \in U \cup {x} : f[y] \in Int /\ e[y] \in Int /\ h[y] \in Int
    OBVIOUS
  <2>3. /\ Sum(h, U \cup {x}) = Sum(h, U) + h[x]
        /\ Sum(f, U \cup {x}) = Sum(f, U) + f[x]
        /\ Sum(e, U \cup {x}) = Sum(e, U) + e[x]
    BY <2>1, <2>2, SumAdd
  <2>4. Sum(f, U) \in Int /\ Sum(e, U) \in Int
    BY <2>1, <2>2, SumType
  <2>5. Sum(h, U) = Sum(f, U) + Sum(e, U) /\ h[x] = f[x] + e[x] /\ f[x] \in Int /\ e[x] \in Int
    BY <1>2
  <2>6. QED  BY <2>3, <2>4, <2>5
<1> HIDE DEF C
<1>3. S \in C
  BY <1>1, <1>2, SubsetInduction
<1>4. QED  BY <1>3 DEF C

LEMMA SumAtMost ==
    ASSUME NEW S, IsFiniteSet(S), NEW f, NEW e,
           \A x \in S : f[x] \in Int /\ e[x] \in Int /\ f[x] <= e[x]
    PROVE  Sum(f, S) <= Sum(e, S)
<1> DEFINE d == [x \in S |-> e[x] - f[x]]
<1>1. \A x \in S : f[x] \in Int /\ d[x] \in Nat /\ e[x] = f[x] + d[x]
  OBVIOUS
<1> HIDE DEF d
<1>2. Sum(e, S) = Sum(f, S) + Sum(d, S)
  BY <1>1, SumPlus
<1>3. Sum(d, S) \in Nat
  BY <1>1, SumGrows
<1>4. Sum(f, S) \in Int
  BY SumType
<1>5. QED  BY <1>2, <1>3, <1>4
=============================================================================
