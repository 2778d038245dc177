---------------------------- MODULE SelectionProofs ----------------------------
(***************************************************************************)
(* What select_count selects and which groups a policy chooses, for every  *)
(* count of a request and every sequence of groups: lemmas that both the   *)
(* walk over the graph and the way of one command rest on.                 *)
(***************************************************************************)
EXTENDS SelectCount, Policies, DataLemmas, SequenceTheorems

-----------------------------------------------------------------------------
(* select_count. *)

LEMMA ProductGrows ==
    ASSUME NEW a \in Nat, NEW b \in Nat, a >= 2, b >= 2
    PROVE  a * b \in Nat /\ a * b > a
<1>1. a * b \in Nat
  OBVIOUS
<1>2. a * b >= a * 2
  OBVIOUS
<1>3. QED  BY <1>1, <1>2

\* What "^" computes.
LEMMA PowerIs ==
    ASSUME NEW cur \in Nat
    PROVE  \E p : /\ \A n \in Nat : Power(cur, n) = p[n]
                 /\ \A i \in Nat : p[i] = IF i <= 1 THEN cur ELSE cur * p[i - 1]
<1> DEFINE A == Nat
           F == [A -> Nat]
           body(f, i) == IF i <= 1 THEN cur ELSE cur * f[i - 1]
           Q(f) == f = [i \in Nat |-> body(f, i)]
           next == [f \in F |-> [i \in Nat |-> body(f, i)]]
           rank == [i \in Nat |-> i]
           start == [i \in Nat |-> 0]
<1>1. \E f : Q(f)
  <2>1. \A f \in F : \A i \in Nat : body(f, i) \in Nat
    OBVIOUS
  <2>2. next \in [F -> F]
    <3> HIDE DEF body
    <3>1. QED  BY <2>1
  <2>3. \A f, g \in F : \A i \in A :
            (\A k \in A : rank[k] < rank[i] => f[k] = g[k]) => next[f][i] = next[g][i]
    <3> SUFFICES ASSUME NEW f \in F, NEW g \in F, NEW i \in Nat,
                        \A k \in Nat : rank[k] < rank[i] => f[k] = g[k]
                 PROVE  body(f, i) = body(g, i)
      <4> HIDE DEF body
      <4>1. QED  OBVIOUS
    <3>1. i > 1 => i - 1 \in Nat /\ i - 1 < i
      OBVIOUS
    <3>2. QED  BY <3>1
  <2>4. start \in F /\ rank \in [A -> Nat] /\ PointByPoint(F, A)
    BY AllPointByPoint
  <2>5. \A f \in F : next[f] = [i \in Nat |-> body(f, i)]
    OBVIOUS
  <2> HIDE DEF next, rank, start, F, A, body
  <2>6. PICK f \in F : f = next[f]
    BY <2>2, <2>3, <2>4, RankedRecursion
  <2>7. QED  BY <2>5, <2>6
<1> DEFINE p == CHOOSE f : Q(f)
<1>2. \A n \in Nat : Power(cur, n) = p[n]
  BY DEF Power
<1>3. \A i \in Nat : p[i] = body(p, i)
  <2>1. Q(p)
    BY <1>1
  <2> HIDE DEF p, body
  <2>2. QED  BY <2>1
<1> HIDE DEF p
<1>4. QED  BY <1>2, <1>3

LEMMA PowerType ==
    ASSUME NEW cur \in Nat, NEW n \in Nat
    PROVE  Power(cur, n) \in Nat
<1>1. PICK p : /\ \A m \in Nat : Power(cur, m) = p[m]
               /\ \A i \in Nat : p[i] = IF i <= 1 THEN cur ELSE cur * p[i - 1]
  BY PowerIs
<1> DEFINE N == {i \in Nat : p[i] \in Nat}
<1>2. 0 \in N
  BY <1>1
<1>3. ASSUME NEW i \in Nat, i \in N PROVE i + 1 \in N
  <2>1. p[i + 1] = IF i + 1 <= 1 THEN cur ELSE cur * p[i]
    BY <1>1
  <2>2. \A x \in Nat : cur * x \in Nat
    OBVIOUS
  <2>3. QED  BY <1>3, <2>1, <2>2
<1> HIDE DEF N
<1>4. n \in N
  BY <1>2, <1>3, SetInduction
<1>5. QED  BY <1>1, <1>4 DEF N

LEMMA PowerGrows ==
    ASSUME NEW cur \in Nat, cur >= 2, NEW n \in Nat, n >= 2
    PROVE  Power(cur, n) \in Nat /\ Power(cur, n) > cur
<1>1. PICK p : /\ \A m \in Nat : Power(cur, m) = p[m]
               /\ \A i \in Nat : p[i] = IF i <= 1 THEN cur ELSE cur * p[i - 1]
  BY PowerIs
<1> DEFINE N == {i \in Nat : p[i + 2] \in Nat /\ p[i + 2] > cur}
<1>4. 0 \in N
  <2>1. p[1] = cur
    BY <1>1
  <2>2. p[0 + 2] = cur * cur
    BY <1>1, <2>1
  <2>3. QED  BY <2>2, ProductGrows
<1>5. ASSUME NEW i \in Nat, i \in N
      PROVE  i + 1 \in N
  <2>1. p[(i + 1) + 2] = cur * p[i + 2]
    BY <1>1
  <2>2. QED  BY <1>5, <2>1, ProductGrows
<1> HIDE DEF N
<1>6. n - 2 \in N
  BY <1>4, <1>5, SetInduction
<1>7. QED  BY <1>1, <1>6 DEF N

\* The counts that jobspec.cpp accepts ...
CountShape(c) ==
    /\ c.min \in Nat /\ c.max \in Nat /\ c.operand \in Int
    /\ c.oper \in {"+", "*", "^"} /\ (c.min >= 1 \/ c.oper = "+")

\* ... and those of them that the loop over them ends for.
Countable(c) == CountShape(c) /\ Grows(c)

LEMMA GrownGrows ==
    ASSUME NEW c, Countable(c), ~ (c.oper = "^" /\ c.operand < 2),
           NEW cur \in Nat, cur >= c.min
    PROVE  Grown(c, cur) \in Nat /\ Grown(c, cur) > cur
<1>1. /\ c.min \in Nat /\ c.operand \in Int /\ (c.min >= 1 \/ c.oper = "+")
      /\ c.oper \in {"+", "*", "^"} /\ Grows(c)
  BY DEF Countable, CountShape
<1>2. CASE c.oper = "+"
  <2>1. Grown(c, cur) = cur + c.operand /\ c.operand >= 1
    BY <1>1, <1>2 DEF Grown, Grows
  <2>2. QED  BY <1>1, <2>1
<1>3. CASE c.oper = "*"
  <2> DEFINE n == c.operand
  <2>1. Grown(c, cur) = cur * n /\ n >= 2 /\ n \in Nat /\ c.min >= 1
    BY <1>1, <1>3 DEF Grown, Grows
  <2>2. cur * n \in Nat /\ cur * n > cur
    <3> HIDE DEF n
    <3>1. cur * n >= cur * 2 /\ cur * n \in Nat /\ cur >= 1
      BY <1>1, <2>1
    <3>2. QED  BY <3>1
  <2>3. QED  BY <2>1, <2>2
<1>4. CASE c.oper = "^"
  <2>1. Grown(c, cur) = Power(cur, c.operand) /\ c.min >= 2 /\ c.operand >= 2
    BY <1>1, <1>4 DEF Grown, Grows
  <2>2. cur >= 2
    BY <1>1, <2>1
  <2>3. c.operand \in Nat
    BY <1>1, <2>1
  <2>4. QED  BY <1>1, <2>1, <2>2, <2>3, PowerGrows
<1>5. QED  BY <1>1, <1>2, <1>3, <1>4

\* Where the loop ends that has come by a quantity.
LastsOf(c, limit, p) ==
    \A cur \in c.min .. limit :
        p[cur] \in c.min .. limit /\ p[cur] = IF Grown(c, cur) > limit THEN cur ELSE p[Grown(c, cur)]

LEMMA LastIs ==
    ASSUME NEW c, Countable(c), ~ (c.oper = "^" /\ c.operand < 2),
           NEW limit \in Nat, c.min <= limit
    PROVE  \E p : LastWithin(c, limit) = p[c.min] /\ LastsOf(c, limit, p)
<1> DEFINE A == c.min .. limit
           F == [A -> A]
           body(f, cur) == IF Grown(c, cur) > limit THEN cur ELSE f[Grown(c, cur)]
           Q(f) == f = [cur \in A |-> body(f, cur)]
           next == [f \in F |-> [cur \in A |-> body(f, cur)]]
           rank == [cur \in A |-> limit - cur]
           start == [cur \in A |-> cur]
<1>1. /\ c.min \in Nat /\ \A cur \in A : cur \in Nat /\ cur >= c.min
      /\ \A cur \in A : Grown(c, cur) \in Nat /\ Grown(c, cur) > cur
  <2>1. c.min \in Nat /\ \A cur \in A : cur \in Nat /\ cur >= c.min
    BY DEF Countable, CountShape
  <2>2. QED  BY <2>1, GrownGrows
<1>2. \A cur \in A : ~ (Grown(c, cur) > limit) => Grown(c, cur) \in A
  BY <1>1
<1>3. \A f \in F : \A cur \in A : body(f, cur) \in A
  <2> HIDE DEF A
  <2>1. QED  BY <1>2
<1>4. next \in [F -> F]
  <2> HIDE DEF body, A
  <2>1. QED  BY <1>3
<1>5. ASSUME NEW f, NEW g, NEW cur \in A, \A b \in A : rank[b] < rank[cur] => f[b] = g[b]
      PROVE  body(f, cur) = body(g, cur)
  <2>1. \A b \in A : rank[b] = limit - b
    OBVIOUS
  <2>2. ~ (Grown(c, cur) > limit) => rank[Grown(c, cur)] < rank[cur]
    BY <1>1, <1>2, <2>1
  <2> HIDE DEF rank, A
  <2>3. QED  BY <1>2, <1>5, <2>2
<1>6. start \in F /\ rank \in [A -> Nat] /\ PointByPoint(F, A)
  <2>1. \A cur \in A : limit - cur \in Nat
    BY <1>1
  <2> HIDE DEF A
  <2>2. QED  BY <2>1, AllPointByPoint
<1>7. \A f \in F : next[f] = [cur \in A |-> body(f, cur)]
  OBVIOUS
<1>8. \A f \in F : \A cur \in A : next[f][cur] = body(f, cur)
  OBVIOUS
<1> HIDE DEF next, rank, start, F, A, body
<1>9. \E f : Q(f)
  <2>1. \A f, g \in F : \A a \in A :
            (\A b \in A : rank[b] < rank[a] => f[b] = g[b]) => next[f][a] = next[g][a]
    BY <1>5, <1>8
  <2>2. PICK f \in F : f = next[f]
    BY ONLY <1>4, <1>6, <2>1, RankedRecursion
  <2>3. QED  BY <1>7, <2>2
<1> DEFINE p == CHOOSE f : Q(f)
<1>10. p = [cur \in A |-> body(p, cur)]
  BY <1>9
<1> HIDE DEF p
<1>11. \A cur \in A : p[cur] = body(p, cur)
  BY <1>10
<1>12. p \in F
  <2>1. p = [cur \in A |-> p[cur]]
    BY <1>10
  <2>2. \A g \in F : \A a \in A :
            (\A b \in A : rank[b] < rank[a] => p[b] = g[b]) => p[a] = next[g][a]
    BY <1>5, <1>8, <1>11
  <2>3. QED  BY ONLY <1>4, <1>6, <2>1, <2>2, RankedSolution
<1>13. LastWithin(c, limit) = p[c.min]
  BY DEF LastWithin, p, body, A
<1>14. LastsOf(c, limit, p)
  <2>1. \A cur \in A : p[cur] \in A
    BY <1>12 DEF F
  <2>2. QED  BY <1>11, <2>1 DEF LastsOf, body, A
<1>15. QED  BY <1>13, <1>14

LEMMA LastIsWithin ==
    ASSUME NEW c, Countable(c), ~ (c.oper = "^" /\ c.operand < 2),
           NEW limit \in Nat, c.min <= limit
    PROVE  LastWithin(c, limit) \in c.min .. limit
<1>1. PICK p : LastWithin(c, limit) = p[c.min] /\ LastsOf(c, limit, p)
  BY LastIs
<1>2. c.min \in c.min .. limit
  BY DEF Countable, CountShape
<1>3. QED  BY <1>1, <1>2 DEF LastsOf

\* What is selected is among what qualifies.
LEMMA SelectsWhatQualifies ==
    ASSUME NEW c, Countable(c), NEW qc \in Nat
    PROVE  SelectCount(c, qc) \in 0 .. qc
<1> DEFINE limit == Min({qc, c.max})
<1>1. c.min \in Nat /\ c.max \in Nat
  BY DEF Countable, CountShape
<1>2. limit \in Nat /\ limit <= qc
  <2>1. {qc, c.max} \in SUBSET Nat /\ {qc, c.max} # {}
    BY <1>1
  <2>2. limit \in {qc, c.max} /\ limit <= qc
    BY <2>1, LeastElement
  <2>3. QED  BY <1>1, <2>2
<1>3. CASE c.min > limit
  <2>1. SelectCount(c, qc) = 0
    BY <1>1, <1>2, <1>3 DEF SelectCount
  <2>2. QED  BY <2>1
<1>4. CASE c.min <= limit /\ c.oper = "^" /\ c.operand < 2
  <2>1. SelectCount(c, qc) = c.min
    <3> HIDE DEF limit
    <3>1. ~ (c.min > limit)
      BY <1>1, <1>2, <1>4
    <3>2. QED  BY <1>4, <3>1 DEF SelectCount, limit
  <2> HIDE DEF limit
  <2>2. QED  BY <1>1, <1>2, <1>4, <2>1
<1>5. CASE c.min <= limit /\ ~ (c.oper = "^" /\ c.operand < 2)
  <2> HIDE DEF limit
  <2>1. SelectCount(c, qc) = LastWithin(c, limit)
    <3>1. ~ (c.min > limit)
      BY <1>1, <1>2, <1>5
    <3>2. QED  BY <1>5, <3>1 DEF SelectCount, limit
  <2>2. LastWithin(c, limit) \in c.min .. limit
    BY <1>2, <1>5, LastIsWithin
  <2>3. QED  BY <1>1, <1>2, <2>1, <2>2
<1>6. QED  BY <1>1, <1>2, <1>3, <1>4, <1>5

-----------------------------------------------------------------------------
(* Sequences. *)

LEMMA SeqMeans ==
    ASSUME NEW S, NEW s
    PROVE  s \in Seq(S) <=> /\ Len(s) \in Nat /\ DOMAIN s = 1 .. Len(s)
                            /\ s = [i \in DOMAIN s |-> s[i]]
                            /\ \A i \in DOMAIN s : s[i] \in S
<1>1. ASSUME s \in Seq(S)
      PROVE  /\ Len(s) \in Nat /\ DOMAIN s = 1 .. Len(s)
             /\ s = [i \in DOMAIN s |-> s[i]] /\ \A i \in DOMAIN s : s[i] \in S
  BY <1>1, LenProperties
<1>2. ASSUME Len(s) \in Nat, DOMAIN s = 1 .. Len(s), s = [i \in DOMAIN s |-> s[i]],
             \A i \in DOMAIN s : s[i] \in S
      PROVE  s \in Seq(S)
  <2>1. s \in [1 .. Len(s) -> S]
    BY <1>2
  <2>2. QED  BY <1>2, <2>1, SeqDef
<1>3. QED  BY <1>1, <1>2

\* Of a sequence of the same length.
LEMMA SeqOnDomain ==
    ASSUME NEW S, NEW T, NEW s \in Seq(S), NEW t, t = [i \in DOMAIN s |-> t[i]],
           \A i \in DOMAIN s : t[i] \in T
    PROVE  t \in Seq(T) /\ DOMAIN t = DOMAIN s
<1>1. Len(s) \in Nat /\ DOMAIN s = 1 .. Len(s)
  BY SeqMeans
<1>2. t \in [1 .. Len(s) -> T] /\ DOMAIN t = DOMAIN s
  BY <1>1
<1>3. QED  BY <1>1, <1>2, SeqDef

-----------------------------------------------------------------------------
(* Groups in the order of a policy. *)

\* Those of n things that come before the i-th when they are ranked, the
\* earlier before those that rank the same.
Ahead(n, rank, i) == {j \in 1 .. n : rank[j] > rank[i] \/ (rank[j] = rank[i] /\ j < i)}

\* There is one at every place, and one place for each.
Placed(n, rank) ==
    /\ \A k \in 1 .. n : \E i \in 1 .. n : Cardinality(Ahead(n, rank, i)) = k - 1
    /\ \A i \in 1 .. n : \E k \in 1 .. n : Cardinality(Ahead(n, rank, i)) = k - 1
    /\ \A i, j \in 1 .. n : Cardinality(Ahead(n, rank, i)) = Cardinality(Ahead(n, rank, j)) => i = j
    /\ \A i \in 1 .. n : \A j \in Ahead(n, rank, i) :
           Cardinality(Ahead(n, rank, j)) < Cardinality(Ahead(n, rank, i))

LEMMA PlacesTaken ==
    ASSUME NEW n \in Nat, NEW rank, \A i \in 1 .. n : rank[i] \in Int
    PROVE  Placed(n, rank)
<1> DEFINE D == 1 .. n
           P == 0 .. n - 1
           before == [i \in D |-> Ahead(n, rank, i)]
           place == [i \in D |-> Cardinality(before[i])]
<1>1. \A i \in D :
          before[i] = {j \in D : rank[j] > rank[i] \/ (rank[j] = rank[i] /\ j < i)}
  BY DEF Ahead
<1>2. \A i \in D : before[i] = Ahead(n, rank, i)
  OBVIOUS
<1> HIDE DEF before
<1>3. IsFiniteSet(D) /\ Cardinality(D) = n
  BY FS_Interval
<1>4. IsFiniteSet(P) /\ Cardinality(P) = n
  <2>1. 0 \in Int /\ n - 1 \in Int
    OBVIOUS
  <2>2. IsFiniteSet(P) /\ Cardinality(P) = IF 0 > n - 1 THEN 0 ELSE n - 1 - 0 + 1
    BY <2>1, FS_Interval
  <2>3. QED  BY <2>2
<1>5. ASSUME NEW i \in D
      PROVE  /\ before[i] \subseteq D \ {i} /\ IsFiniteSet(before[i])
             /\ Cardinality(before[i]) \in P
  <2>1. before[i] \in SUBSET (D \ {i})
    BY <1>1
  <2>2. IsFiniteSet(D \ {i}) /\ Cardinality(D \ {i}) = n - 1
    BY <1>3, FS_RemoveElement
  <2> HIDE DEF D
  <2>3. IsFiniteSet(before[i]) /\ Cardinality(before[i]) <= n - 1
    BY <2>1, <2>2, FS_Subset
  <2>4. Cardinality(before[i]) \in Nat
    BY <2>3, FS_CardinalityType
  <2>5. QED  BY <2>1, <2>3, <2>4
<1>6. ASSUME NEW i \in D, NEW j \in before[i]
      PROVE  Cardinality(before[j]) < Cardinality(before[i])
  <2>1. j \in D /\ (rank[j] > rank[i] \/ (rank[j] = rank[i] /\ j < i))
    BY <1>1, <1>6
  <2>2. before[j] \cup {j} \in SUBSET before[i]
    <3> SUFFICES ASSUME NEW k \in before[j] PROVE k \in before[i]
      BY <1>6
    <3>1. k \in D /\ (rank[k] > rank[j] \/ (rank[k] = rank[j] /\ k < j))
      BY <1>1, <2>1
    <3>2. rank[i] \in Int /\ rank[j] \in Int /\ rank[k] \in Int
      BY <2>1, <3>1
    <3>3. rank[k] > rank[i] \/ (rank[k] = rank[i] /\ k < i)
      BY <2>1, <3>1, <3>2
    <3>4. QED  BY <1>1, <3>1, <3>3
  <2>3. /\ IsFiniteSet(before[i]) /\ IsFiniteSet(before[j]) /\ j \notin before[j]
        /\ Cardinality(before[i]) \in Nat /\ Cardinality(before[j]) \in Nat
    BY <1>5, <2>1
  <2>4. Cardinality(before[j] \cup {j}) = Cardinality(before[j]) + 1
    BY <2>3, FS_AddElement
  <2>5. Cardinality(before[j] \cup {j}) <= Cardinality(before[i])
    BY <2>2, <2>3, FS_Subset
  <2>6. QED  BY <2>3, <2>4, <2>5
<1>7. ASSUME NEW i \in D, NEW j \in D, i # j PROVE place[i] # place[j]
  <2>1. j \in before[i] \/ i \in before[j]
    <3>1. rank[i] \in Int /\ rank[j] \in Int /\ i \in Int /\ j \in Int
      OBVIOUS
    <3>2. rank[j] > rank[i] \/ rank[i] > rank[j] \/ (rank[i] = rank[j] /\ (i < j \/ j < i))
      BY <1>7, <3>1
    <3>3. QED  BY <1>1, <3>2
  <2>2. /\ Cardinality(before[i]) \in Nat /\ Cardinality(before[j]) \in Nat
        /\ place[i] = Cardinality(before[i]) /\ place[j] = Cardinality(before[j])
    BY <1>5
  <2>3. QED  BY <1>6, <2>1, <2>2
<1>8. place \in [D -> P]
  BY <1>5
<1>9. \A i \in D : place[i] = Cardinality(before[i])
  OBVIOUS
<1> HIDE DEF D, P
<1>10. place \in Injection(D, P)
  BY <1>7, <1>8 DEF Injection, IsInjective
<1>11. place \in Surjection(D, P)
  BY <1>3, <1>4, <1>10, FS_Injection
<1>12. \A k \in P : \E i \in D : Cardinality(before[i]) = k
  BY <1>11 DEF Surjection
<1>13. \A k \in D : k - 1 \in P
  BY DEF D, P
<1>14. \A i \in D : Cardinality(before[i]) + 1 \in D /\ Cardinality(before[i]) = (Cardinality(before[i]) + 1) - 1
  BY <1>5 DEF D, P
<1>15. \A i, j \in D : Cardinality(before[i]) = Cardinality(before[j]) => i = j
  BY <1>7, <1>9
<1>16. \A i \in D : \A j \in before[i] : j \in D
  BY <1>5
<1>17. \A k \in D : \E i \in D : Cardinality(before[i]) = k - 1
  BY <1>12, <1>13
<1>18. \A i \in D : \E k \in D : Cardinality(before[i]) = k - 1
  BY <1>14
<1>19. \A i \in D : \A j \in before[i] : Cardinality(before[j]) < Cardinality(before[i])
  BY <1>6
<1>20. QED  BY <1>2, <1>15, <1>16, <1>17, <1>18, <1>19 DEF D, Placed

LEMMA RankType ==
    ASSUME NEW policy \in {"high", "low", "locality"},
           NEW seen \in SUBSET Nat, NEW group, group.score \in Nat,
           policy = "locality" => group.score \in seen
    PROVE  Rank(policy, seen, group) \in Int
<1>1. CASE policy = "locality"
  <2> DEFINE S == RunOf(group.score, seen)
             s == group.score
  <2>1. s \in S
    <3>1. s \in seen /\ \A t \in s .. s : t = s
      BY <1>1
    <3>2. QED  BY <3>1 DEF RunOf
  <2>2. S \in SUBSET Nat
    BY DEF RunOf
  <2>3. Min(S) \in Nat
    <3> HIDE DEF S
    <3>1. QED  BY <2>1, <2>2, LeastElement
  <2>4. QED  BY <1>1, <2>3 DEF Rank
<1>2. QED  BY <1>1 DEF Rank

\* Ranking gives the same groups in another order, at[k] at place k.
Orders(policy, seen, groups, at) ==
    /\ \A k \in DOMAIN groups :
           at[k] \in DOMAIN groups /\ Ranked(policy, seen, groups)[k] = groups[at[k]]
    /\ \A i \in DOMAIN groups : \E k \in DOMAIN groups : at[k] = i
    /\ \A k, l \in DOMAIN groups : k < l =>
           /\ at[k] # at[l]
           /\ Rank(policy, seen, groups[at[k]]) >= Rank(policy, seen, groups[at[l]])

LEMMA RankedOrders ==
    ASSUME NEW policy \in {"high", "low", "locality"},
           NEW G, NEW groups \in Seq(G), \A i \in DOMAIN groups : groups[i].score \in Nat,
           NEW seen \in SUBSET Nat, policy = "locality" => Scores(groups) \subseteq seen
    PROVE  /\ Ranked(policy, seen, groups) \in Seq(G)
           /\ DOMAIN Ranked(policy, seen, groups) = DOMAIN groups
           /\ \E at : Orders(policy, seen, groups, at)
<1> DEFINE D == DOMAIN groups
           rank == [i \in D |-> Rank(policy, seen, groups[i])]
           ahead(i) == {j \in D : rank[j] > rank[i] \/ (rank[j] = rank[i] /\ j < i)}
           at(k) == CHOOSE i \in D : Cardinality(ahead(i)) = k - 1
           ranked == [k \in D |-> groups[at(k)]]
<1>1. Ranked(policy, seen, groups) = ranked
  BY DEF Ranked
<1>2. Len(groups) \in Nat /\ D = 1 .. Len(groups) /\ \A i \in D : groups[i] \in G
  BY SeqMeans
<1>3. \A i \in D : rank[i] \in Int
  <2>1. ASSUME NEW i \in D PROVE Rank(policy, seen, groups[i]) \in Int
    <3>1. policy = "locality" => groups[i].score \in seen
      BY DEF Scores
    <3>2. QED  BY <3>1, RankType
  <2>2. QED  BY <2>1
<1>4. \A i \in D : ahead(i) = Ahead(Len(groups), rank, i)
  BY <1>2 DEF Ahead
<1>5. /\ \A k \in D : \E i \in D : Cardinality(Ahead(Len(groups), rank, i)) = k - 1
      /\ \A i \in D : \E k \in D : Cardinality(Ahead(Len(groups), rank, i)) = k - 1
      /\ \A i, j \in D : Cardinality(Ahead(Len(groups), rank, i))
                             = Cardinality(Ahead(Len(groups), rank, j)) => i = j
      /\ \A i \in D : \A j \in Ahead(Len(groups), rank, i) :
             Cardinality(Ahead(Len(groups), rank, j)) < Cardinality(Ahead(Len(groups), rank, i))
  <2> HIDE DEF rank, D
  <2>1. Placed(Len(groups), rank)
    BY <1>2, <1>3, PlacesTaken
  <2>2. QED  BY <1>2, <2>1 DEF Placed
<1>6. \A i, j \in D : rank[j] > rank[i] => j \in ahead(i)
  OBVIOUS
<1>7. \A i \in D : rank[i] = Rank(policy, seen, groups[i])
  OBVIOUS
<1> HIDE DEF ahead, rank
<1>8. \A k \in D : at(k) \in D /\ Cardinality(ahead(at(k))) = k - 1
  BY <1>4, <1>5
<1> HIDE DEF at
<1>9. \A k \in D : ranked[k] = groups[at(k)] /\ ranked[k] \in G
  BY <1>2, <1>8
<1>10. ranked = [k \in D |-> ranked[k]]
  OBVIOUS
<1> HIDE DEF ranked
<1>11. ranked \in Seq(G) /\ DOMAIN ranked = D
  BY <1>9, <1>10, SeqOnDomain
<1> DEFINE places == [k \in D |-> at(k)]
<1>12. \A k \in D : places[k] = at(k)
  OBVIOUS
<1> HIDE DEF places
<1>13. \A i \in D : \E k \in D : places[k] = i
  <2> SUFFICES ASSUME NEW i \in D PROVE \E k \in D : places[k] = i
    OBVIOUS
  <2>1. PICK k \in D : Cardinality(ahead(i)) = k - 1
    BY <1>4, <1>5
  <2>2. Cardinality(ahead(at(k))) = Cardinality(ahead(i)) /\ at(k) \in D
    BY <1>8, <2>1
  <2>3. at(k) = i
    BY <1>4, <1>5, <2>2
  <2>4. QED  BY <1>12, <2>3
<1>14. ASSUME NEW k \in D, NEW l \in D, k < l
       PROVE  at(k) # at(l) /\ ~ (rank[at(l)] > rank[at(k)])
  <2>1. at(k) \in D /\ at(l) \in D /\ k \in Nat /\ l \in Nat
    BY <1>2, <1>8
  <2>2. Cardinality(ahead(at(k))) = k - 1 /\ Cardinality(ahead(at(l))) = l - 1
    BY <1>8
  <2>3. k - 1 < l - 1 /\ k - 1 # l - 1 /\ ~ (l - 1 < k - 1)
    BY <1>14, <2>1
  <2>4. at(l) \in ahead(at(k)) => Cardinality(ahead(at(l))) < Cardinality(ahead(at(k)))
    BY <1>4, <1>5, <2>1
  <2>5. at(l) \notin ahead(at(k))
    BY <2>2, <2>3, <2>4
  <2>6. QED  BY <1>6, <2>1, <2>2, <2>3, <2>5
<1>15. \A k, l \in D : k < l => /\ at(k) # at(l)
                               /\ Rank(policy, seen, groups[at(k)]) >= Rank(policy, seen, groups[at(l)])
  <2>1. \A k, l \in D : rank[at(k)] \in Int /\ rank[at(l)] \in Int
    BY <1>3, <1>8
  <2>2. \A k, l \in D : ~ (rank[at(l)] > rank[at(k)]) => rank[at(k)] >= rank[at(l)]
    BY <2>1
  <2>3. QED  BY <1>7, <1>8, <1>14, <2>2
<1>16. Orders(policy, seen, groups, places)
  <2>1. \A k \in D : places[k] \in D /\ Ranked(policy, seen, groups)[k] = groups[places[k]]
    BY <1>1, <1>8, <1>9, <1>12
  <2>2. \A k, l \in D : k < l =>
            /\ places[k] # places[l]
            /\ Rank(policy, seen, groups[places[k]]) >= Rank(policy, seen, groups[places[l]])
    BY <1>12, <1>15
  <2>3. QED  BY ONLY <1>13, <2>1, <2>2 DEF Orders
<1>17. QED  BY <1>1, <1>11, <1>16

LEMMA RankedChooses ==
    ASSUME NEW policy \in {"high", "low", "locality"},
           NEW G, NEW groups \in Seq(G), \A i \in DOMAIN groups : groups[i].score \in Nat,
           NEW seen \in SUBSET Nat, policy = "locality" => Scores(groups) \subseteq seen
    PROVE  /\ Ranked(policy, seen, groups) \in Seq(G)
           /\ DOMAIN Ranked(policy, seen, groups) = DOMAIN groups
           /\ \A k \in DOMAIN groups :
                  \E i \in DOMAIN groups : Ranked(policy, seen, groups)[k] = groups[i]
<1>1. /\ Ranked(policy, seen, groups) \in Seq(G)
      /\ DOMAIN Ranked(policy, seen, groups) = DOMAIN groups
      /\ \E at : Orders(policy, seen, groups, at)
  BY RankedOrders
<1>2. \A k \in DOMAIN groups :
          \E i \in DOMAIN groups : Ranked(policy, seen, groups)[k] = groups[i]
  BY ONLY <1>1 DEF Orders
<1>3. QED  BY <1>1, <1>2

\* Of a sequence, one up to somewhere.
LEMMA FirstOnes ==
    ASSUME NEW G, NEW groups \in Seq(G), NEW m \in Nat, NEW n \in Int, n <= Len(groups)
    PROVE  SubSeq(groups, m + 1, n) \in Seq(G)
<1>1. DOMAIN groups = 1 .. Len(groups) /\ Len(groups) \in Nat
      /\ \A i \in DOMAIN groups : groups[i] \in G
  BY SeqMeans
<1>2. \A i \in m + 1 .. n : groups[i] \in G
  BY <1>1
<1>3. m + 1 \in Int
  OBVIOUS
<1>4. QED  BY <1>2, <1>3, SubSeqProperties

LEMMA BestKType ==
    ASSUME NEW G, NEW groups \in Seq(G), NEW k
    PROVE  BestK(groups, k) \in Seq(G)
<1> DEFINE S == {i \in DOMAIN groups : Total(SubSeq(groups, 1, i - 1)) < k}
           n == Cardinality(S)
<1>1. Len(groups) \in Nat /\ DOMAIN groups = 1 .. Len(groups)
  BY SeqMeans
<1>2. IsFiniteSet(1 .. Len(groups)) /\ Cardinality(1 .. Len(groups)) = Len(groups)
  BY <1>1, FS_Interval
<1>3. S \in SUBSET (1 .. Len(groups))
  BY <1>1
<1>4. n \in Nat /\ n <= Len(groups)
  <2> HIDE DEF S
  <2>1. IsFiniteSet(S) /\ n <= Len(groups)
    BY <1>2, <1>3, FS_Subset
  <2>2. QED  BY <2>1, FS_CardinalityType
<1>5. BestK(groups, k) = SubSeq(groups, 1, n)
  BY DEF BestK
<1> HIDE DEF n
<1>6. SubSeq(groups, 0 + 1, n) \in Seq(G)
  BY <1>4, FirstOnes
<1>7. 0 + 1 = 1
  OBVIOUS
<1>8. QED  BY <1>5, <1>6, <1>7

LEMMA TotalType ==
    ASSUME NEW G, NEW groups \in Seq(G), \A i \in DOMAIN groups : groups[i].count \in Nat
    PROVE  Total(groups) \in Nat
<1> DEFINE D == DOMAIN groups
           f == [i \in D |-> groups[i].count]
<1>1. IsFiniteSet(D)
  <2>1. D = 1 .. Len(groups) /\ Len(groups) \in Int /\ 1 \in Int
    BY SeqMeans
  <2>2. QED  BY <2>1, FS_Interval
<1>2. Total(groups) = Sum(f, D)
  BY DEF Total, SumFunction, Sum
<1>3. \A i \in D : f[i] \in Nat
  OBVIOUS
<1> HIDE DEF f, D
<1>4. QED  BY <1>1, <1>2, <1>3, SumGrows

-----------------------------------------------------------------------------
(* choose_best_k. *)

LEMMA PrefixIs ==
    ASSUME NEW G, NEW groups \in Seq(G), NEW n \in 0 .. Len(groups)
    PROVE  /\ SubSeq(groups, 1, n) \in Seq(G)
           /\ Len(SubSeq(groups, 1, n)) = n /\ DOMAIN SubSeq(groups, 1, n) = 1 .. n
           /\ \A i \in 1 .. n : SubSeq(groups, 1, n)[i] = groups[i]
<1>1. Len(groups) \in Nat /\ DOMAIN groups = 1 .. Len(groups)
      /\ \A i \in 1 .. Len(groups) : groups[i] \in G
  BY SeqMeans
<1>2. n \in Nat /\ n <= Len(groups)
  BY <1>1
<1> DEFINE first == SubSeq(groups, 1, n)
<1>3. \A i \in 1 .. n : groups[i] \in G
  BY <1>1
<1>4. first \in Seq(G) /\ Len(first) = (IF 1 <= n THEN n - 1 + 1 ELSE 0)
      /\ \A i \in 1 .. (n - 1 + 1) : first[i] = groups[1 + i - 1]
  BY <1>2, <1>3, SubSeqProperties
<1> HIDE DEF first
<1>5. Len(first) = n
  BY <1>2, <1>4
<1>6. DOMAIN first = 1 .. n
  BY <1>4, <1>5, SeqMeans
<1>7. \A i \in 1 .. n : first[i] = groups[i]
  BY <1>2, <1>4
<1>8. QED  BY <1>4, <1>5, <1>6, <1>7 DEF first

LEMMA PrefixTotals ==
    ASSUME NEW G, NEW groups \in Seq(G), \A i \in DOMAIN groups : groups[i].count \in Nat
    PROVE  /\ Total(SubSeq(groups, 1, 0)) = 0
           /\ \A i \in 0 .. Len(groups) : Total(SubSeq(groups, 1, i)) \in Nat
           /\ \A i \in 1 .. Len(groups) :
                  Total(SubSeq(groups, 1, i)) = Total(SubSeq(groups, 1, i - 1)) + groups[i].count
           /\ Total(SubSeq(groups, 1, Len(groups))) = Total(groups)
<1> DEFINE D == DOMAIN groups
           f == [i \in D |-> groups[i].count]
           N == Len(groups)
<1>1. N \in Nat /\ D = 1 .. N
  BY SeqMeans
<1>2. \A i \in D : f[i] = groups[i].count /\ f[i] \in Nat
  OBVIOUS
<1>3. Total(groups) = Sum(f, D)
  BY DEF Total, SumFunction, Sum
<1> HIDE DEF D, f
<1>4. ASSUME NEW n \in 0 .. N
      PROVE  Total(SubSeq(groups, 1, n)) = Sum(f, 1 .. n) /\ IsFiniteSet(1 .. n)
  <2> DEFINE first == SubSeq(groups, 1, n)
             e == [i \in DOMAIN first |-> first[i].count]
  <2>1. DOMAIN first = 1 .. n /\ \A i \in 1 .. n : first[i] = groups[i]
    BY PrefixIs
  <2>2. Total(first) = Sum(e, DOMAIN first)
    BY DEF Total, SumFunction, Sum
  <2>3. IsFiniteSet(1 .. n)
    BY <1>1, FS_Interval
  <2>4. \A i \in 1 .. n : i \in D
    BY <1>1
  <2>5. \A i \in 1 .. n : e[i] = f[i]
    BY <1>2, <2>1, <2>4
  <2> HIDE DEF first, e
  <2>6. Sum(e, 1 .. n) = Sum(f, 1 .. n)
    BY <2>3, <2>5, SumSame
  <2>7. QED  BY <2>1, <2>2, <2>3, <2>6 DEF first
<1>5. \A n \in 0 .. N : \A i \in 1 .. n : f[i] \in Nat
  BY <1>1, <1>2
<1>6. \A n \in 0 .. N : Sum(f, 1 .. n) \in Nat
  BY <1>4, <1>5, SumGrows
<1>7. Total(SubSeq(groups, 1, 0)) = 0
  <2>1. 0 \in 0 .. N /\ 1 .. 0 = {}
    BY <1>1
  <2>2. QED  BY <1>4, <2>1, SumEmpty
<1>8. ASSUME NEW i \in 1 .. N
      PROVE  Total(SubSeq(groups, 1, i)) = Total(SubSeq(groups, 1, i - 1)) + groups[i].count
  <2>1. i - 1 \in 0 .. N /\ i \in 0 .. N /\ 1 .. i = (1 .. (i - 1)) \cup {i} /\ i \notin 1 .. (i - 1)
    BY <1>1
  <2>2. IsFiniteSet(1 .. (i - 1))
    BY <1>4, <2>1
  <2>3. \A x \in (1 .. (i - 1)) \cup {i} : f[x] \in Int
    BY <1>5, <2>1
  <2>4. Sum(f, (1 .. (i - 1)) \cup {i}) = Sum(f, 1 .. (i - 1)) + f[i]
    BY <2>1, <2>2, <2>3, SumAdd
  <2>5. f[i] = groups[i].count
    BY <1>1, <1>2
  <2>6. Total(SubSeq(groups, 1, i)) = Sum(f, 1 .. i)
    BY <1>4, <2>1
  <2>7. Total(SubSeq(groups, 1, i - 1)) = Sum(f, 1 .. (i - 1))
    BY <1>4, <2>1
  <2>8. QED  BY <2>1, <2>4, <2>5, <2>6, <2>7
<1>9. Total(SubSeq(groups, 1, N)) = Total(groups)
  BY <1>1, <1>3, <1>4
<1>10. QED  BY <1>4, <1>6, <1>7, <1>8, <1>9

\* Of groups that hold k, none of them nothing, the first few are chosen,
\* and with what is needed of each they hold k.
LEMMA BestHolds ==
    ASSUME NEW G, NEW groups \in Seq(G), \A i \in DOMAIN groups : groups[i].count \in Nat \ {0},
           NEW k \in Nat \ {0}, k <= Total(groups)
    PROVE  \E n \in 1 .. Len(groups) :
               /\ BestK(groups, k) = SubSeq(groups, 1, n)
               /\ DOMAIN Needs(BestK(groups, k), k) = 1 .. n
               /\ \A i \in 1 .. n : Needs(BestK(groups, k), k)[i] \in 1 .. groups[i].count
               /\ Needs(BestK(groups, k), k) = [i \in 1 .. n |-> Needs(BestK(groups, k), k)[i]]
               /\ SumFunction(Needs(BestK(groups, k), k)) = k
<1> DEFINE N == Len(groups)
           T(i) == Total(SubSeq(groups, 1, i))
           S == {i \in DOMAIN groups : T(i - 1) < k}
<1>1. N \in Nat /\ DOMAIN groups = 1 .. N
  BY SeqMeans
<1>2. \A i \in 1 .. N : groups[i].count \in Nat /\ groups[i].count >= 1
  BY <1>1
<1>3. /\ T(0) = 0 /\ T(N) = Total(groups)
      /\ \A i \in 0 .. N : T(i) \in Nat
      /\ \A i \in 1 .. N : T(i) = T(i - 1) + groups[i].count
  BY <1>1, PrefixTotals
<1> HIDE DEF N, T
<1>4. S \in SUBSET Nat /\ \A i \in S : i \in 1 .. N /\ i <= N
  BY <1>1
<1>5. \A i : i \in S <=> i \in 1 .. N /\ T(i - 1) < k
  BY <1>1
<1>6. 1 \in S
  <2>1. N # 0
    <3>1. T(N) >= k /\ k >= 1
      BY <1>3
    <3>2. QED  BY <1>3, <3>1
  <2>2. 1 \in 1 .. N /\ 1 - 1 = 0
    BY <1>1, <2>1
  <2>3. QED  BY <1>3, <1>5, <2>2
<1> DEFINE n == Max(S)
<1>7. n \in S /\ \A i \in S : i <= n
  <2> HIDE DEF S
  <2>1. QED  BY <1>1, <1>4, <1>6, GreatestElement
<1>8. n \in 1 .. N /\ T(n - 1) < k
  BY <1>5, <1>7
<1> HIDE DEF S, n
<1>9. T(n) >= k
  <2>1. CASE n = N
    BY <1>3, <2>1
  <2>2. CASE n # N
    <3>1. n + 1 \in 1 .. N /\ (n + 1) - 1 = n /\ ~ (n + 1 <= n)
      BY <1>1, <1>8, <2>2
    <3>2. ~ (T(n) < k)
      BY <1>5, <1>7, <3>1
    <3>3. T(n) \in Nat
      BY <1>3, <1>8
    <3>4. QED  BY <3>2, <3>3
  <2>3. QED  BY <2>1, <2>2
\* What comes before holds less the fewer they are.
<1>10. \A i \in 1 .. n : T(i - 1) < k
  <2> DEFINE P == {j \in Nat : j < n => T(n - 1 - j) < k}
  <2>1. 0 \in P
    BY <1>1, <1>8
  <2>2. ASSUME NEW j \in Nat, j \in P PROVE j + 1 \in P
    <3> SUFFICES ASSUME j + 1 < n PROVE T(n - 1 - (j + 1)) < k
      OBVIOUS
    <3>1. /\ n - 1 - j \in 1 .. N /\ n - 1 - (j + 1) = (n - 1 - j) - 1
          /\ n - 1 - j \in 0 .. N /\ (n - 1 - j) - 1 \in 0 .. N /\ j < n
      BY <1>1, <1>8
    <3>2. T(n - 1 - j) < k
      BY <2>2, <3>1
    <3>3. /\ T(n - 1 - j) = T((n - 1 - j) - 1) + groups[n - 1 - j].count
          /\ T(n - 1 - j) \in Nat /\ T((n - 1 - j) - 1) \in Nat
          /\ groups[n - 1 - j].count \in Nat
      BY <1>2, <1>3, <3>1
    <3>4. QED  BY <3>1, <3>2, <3>3
  <2>3. \A j \in Nat : j \in P
    <3> HIDE DEF P
    <3>1. QED  BY <2>1, <2>2, SetInduction
  <2>4. ASSUME NEW i \in 1 .. n PROVE T(i - 1) < k
    <3>1. n - i \in Nat /\ n - i < n /\ n - 1 - (n - i) = i - 1
      BY <1>1, <1>8
    <3>2. n - i \in P
      BY <2>3, <3>1
    <3>3. QED  BY <3>1, <3>2
  <2>5. QED  BY <2>4
<1>11. S = 1 .. n
  <2>1. \A i \in 1 .. n : i \in 1 .. N
    BY <1>1, <1>8
  <2>2. \A i : i \in S => i \in 1 .. n
    BY <1>1, <1>4, <1>7, <1>8
  <2>3. \A i : i \in 1 .. n => i \in S
    BY <1>5, <1>10, <2>1
  <2>4. QED  BY <2>2, <2>3
<1>12. Cardinality(S) = n
  <2>1. n \in Nat
    BY <1>1, <1>8
  <2>2. QED  BY <1>11, <2>1, FS_Interval
<1> DEFINE best == BestK(groups, k)
           needs == Needs(best, k)
<1>13. best = SubSeq(groups, 1, n)
  <2>1. best = SubSeq(groups, 1, Cardinality({i \in DOMAIN groups : Total(SubSeq(groups, 1, i - 1)) < k}))
    BY DEF BestK
  <2>2. QED  BY <1>12, <2>1 DEF S, T
<1> HIDE DEF best
<1>14. n \in 0 .. Len(groups) /\ n \in Nat
  BY <1>1, <1>8 DEF N
<1>15. /\ best \in Seq(G) /\ DOMAIN best = 1 .. n /\ Len(best) = n
       /\ \A i \in 1 .. n : best[i] = groups[i]
  BY <1>13, <1>14, PrefixIs
<1>16. \A i \in 0 .. n : Total(SubSeq(best, 1, i)) = T(i)
  <2> DEFINE P == {j \in Nat : j <= n => Total(SubSeq(best, 1, j)) = T(j)}
  <2>1. /\ Total(SubSeq(best, 1, 0)) = 0
        /\ \A i \in 1 .. n :
               Total(SubSeq(best, 1, i)) = Total(SubSeq(best, 1, i - 1)) + best[i].count
    <3>1. \A i \in DOMAIN best : best[i].count \in Nat
      <4>1. \A i \in 1 .. n : i \in 1 .. N
        BY <1>1, <1>8
      <4>2. QED  BY <1>2, <1>15, <4>1
    <3>2. QED  BY <1>15, <3>1, PrefixTotals
  <2>2. 0 \in P
    BY <1>3, <2>1
  <2>3. ASSUME NEW j \in Nat, j \in P PROVE j + 1 \in P
    <3> SUFFICES ASSUME j + 1 <= n PROVE Total(SubSeq(best, 1, j + 1)) = T(j + 1)
      OBVIOUS
    <3>1. j + 1 \in 1 .. n /\ j + 1 \in 1 .. N /\ (j + 1) - 1 = j /\ j <= n
      BY <1>1, <1>8
    <3>2. Total(SubSeq(best, 1, j + 1)) = Total(SubSeq(best, 1, j)) + groups[j + 1].count
      BY <1>15, <2>1, <3>1
    <3>3. T(j + 1) = T(j) + groups[j + 1].count
      BY <1>3, <3>1
    <3>4. QED  BY <2>3, <3>1, <3>2, <3>3
  <2>4. \A j \in Nat : j \in P
    <3> HIDE DEF P
    <3>1. QED  BY <2>2, <2>3, SetInduction
  <2>5. \A i \in 0 .. n : i \in P /\ i <= n
    BY <1>14, <2>4
  <2>6. QED  BY <2>5
<1> DEFINE need(i) == Min({groups[i].count, k - T(i - 1)})
<1>17. needs = [i \in 1 .. n |-> need(i)]
  <2>1. needs = [i \in 1 .. n |-> Min({best[i].count, k - Total(SubSeq(best, 1, i - 1))})]
    BY <1>15 DEF Needs
  <2>2. \A i \in 1 .. n : Min({best[i].count, k - Total(SubSeq(best, 1, i - 1))}) = need(i)
    <3>1. \A i \in 1 .. n : i - 1 \in 0 .. n
      BY <1>14
    <3>2. QED  BY <1>15, <1>16, <3>1
  <2>3. QED  BY <2>1, <2>2
<1>18. ASSUME NEW i \in 1 .. n
       PROVE  /\ need(i) \in 1 .. groups[i].count
              /\ T(i) <= k => need(i) = groups[i].count
              /\ T(i) >= k => need(i) = k - T(i - 1)
  <2> DEFINE a == groups[i].count
             b == k - T(i - 1)
             m == Min({a, b})
  <2>1. i \in 1 .. N /\ i - 1 \in 0 .. N
    BY <1>1, <1>8
  <2>2. a \in Nat /\ a >= 1 /\ T(i) = T(i - 1) + a /\ T(i - 1) \in Nat /\ T(i - 1) < k
    BY <1>2, <1>3, <1>10, <2>1
  <2>3. b \in Nat /\ b >= 1
    BY <2>2
  <2>4. {a, b} \in SUBSET Nat /\ {a, b} # {}
    BY <2>2, <2>3
  <2>5. m \in {a, b} /\ m <= a /\ m <= b
    <3> HIDE DEF a, b
    <3>1. Min({a, b}) \in {a, b} /\ \A x \in {a, b} : Min({a, b}) <= x
      BY <2>4, LeastElement
    <3>2. QED  BY <3>1
  <2> HIDE DEF m
  <2>6. m \in 1 .. a
    <3> HIDE DEF a, b
    <3>1. QED  BY <2>2, <2>3, <2>5
  <2>7. T(i) <= k => m = a
    BY <2>2, <2>3, <2>5
  <2>8. T(i) >= k => m = b
    BY <2>2, <2>3, <2>5
  <2>9. QED  BY <2>6, <2>7, <2>8 DEF m
<1> HIDE DEF need
<1>19. \A i \in 1 .. n : needs[i] = need(i)
  BY <1>17
<1>20. needs = [i \in 1 .. n |-> needs[i]] /\ DOMAIN needs = 1 .. n
  BY <1>17
<1>21. \A i \in 1 .. n : needs[i] \in 1 .. groups[i].count
  BY <1>18, <1>19
<1>22. SumFunction(needs) = Sum(needs, 1 .. n)
  BY <1>20 DEF SumFunction, Sum
<1> HIDE DEF needs
<1>23. Sum(needs, 1 .. n) = k
  <2> DEFINE P == {j \in Nat : j < n => Sum(needs, 1 .. j) = T(j)}
  <2>1. \A i \in 1 .. n : needs[i] \in Int
    <3>1. \A i \in 1 .. n : groups[i].count \in Nat
      <4>1. \A i \in 1 .. n : i \in 1 .. N
        BY <1>1, <1>8
      <4>2. QED  BY <1>2, <4>1
    <3>2. QED  BY <1>21, <3>1
  <2>2. ASSUME NEW i \in 1 .. n
        PROVE  Sum(needs, 1 .. i) = Sum(needs, 1 .. (i - 1)) + needs[i]
    <3>1. 1 .. i = (1 .. (i - 1)) \cup {i} /\ i \notin 1 .. (i - 1)
      BY <1>14
    <3>2. IsFiniteSet(1 .. (i - 1))
      BY <1>14, FS_Interval
    <3>3. \A x \in (1 .. (i - 1)) \cup {i} : needs[x] \in Int
      BY <1>14, <2>1
    <3>4. QED  BY <3>1, <3>2, <3>3, SumAdd
  <2>3. 0 \in P
    <3>1. 1 .. 0 = {}
      OBVIOUS
    <3>2. QED  BY <1>3, <3>1, SumEmpty
  <2>4. ASSUME NEW j \in Nat, j \in P PROVE j + 1 \in P
    <3> SUFFICES ASSUME j + 1 < n PROVE Sum(needs, 1 .. j + 1) = T(j + 1)
      OBVIOUS
    <3>1. /\ j + 1 \in 1 .. n /\ j + 1 \in 1 .. N /\ (j + 1) - 1 = j /\ j < n
          /\ j + 2 \in 1 .. n /\ (j + 2) - 1 = j + 1
      BY <1>1, <1>8
    <3>2. T(j + 1) < k /\ T(j + 1) \in Nat
      <4>1. j + 1 \in 0 .. N
        BY <3>1
      <4>2. QED  BY <1>3, <1>10, <3>1, <4>1
    <3>3. needs[j + 1] = groups[j + 1].count
      BY <1>18, <1>19, <3>1, <3>2
    <3>4. T(j + 1) = T(j) + groups[j + 1].count
      BY <1>3, <3>1
    <3>5. Sum(needs, 1 .. j + 1) = Sum(needs, 1 .. j) + needs[j + 1]
      BY <2>2, <3>1
    <3>6. QED  BY <2>4, <3>1, <3>3, <3>4, <3>5
  <2>5. \A j \in Nat : j \in P
    <3> HIDE DEF P
    <3>1. QED  BY <2>3, <2>4, SetInduction
  <2>6. n - 1 \in P /\ n - 1 < n /\ n \in 1 .. n
    <3>1. n - 1 \in Nat
      BY <1>1, <1>8
    <3>2. QED  BY <1>14, <2>5, <3>1
  <2>7. Sum(needs, 1 .. (n - 1)) = T(n - 1)
    BY <2>6
  <2>8. needs[n] = k - T(n - 1)
    BY <1>9, <1>18, <1>19, <2>6
  <2>9. T(n - 1) \in Nat
    <3>1. n - 1 \in 0 .. N
      BY <1>1, <1>8
    <3>2. QED  BY <1>3, <3>1
  <2>10. QED  BY <2>2, <2>6, <2>7, <2>8, <2>9
<1>24. n \in 1 .. Len(groups)
  BY <1>8 DEF N
<1>25. QED  BY <1>13, <1>20, <1>21, <1>22, <1>23, <1>24 DEF needs, best

\* Ranking does not change what the groups hold together.
LEMMA RankedTotal ==
    ASSUME NEW policy, NEW seen, NEW G, NEW groups \in Seq(G),
           \A i \in DOMAIN groups : groups[i].count \in Nat,
           NEW at, Orders(policy, seen, groups, at),
           DOMAIN Ranked(policy, seen, groups) = DOMAIN groups
    PROVE  Total(Ranked(policy, seen, groups)) = Total(groups)
<1> DEFINE D == DOMAIN groups
           ranked == Ranked(policy, seen, groups)
           f == [k \in D |-> ranked[k].count]
           e == [i \in D |-> groups[i].count]
<1>1. Total(ranked) = Sum(f, D)
  BY DEF Total, SumFunction, Sum
<1>2. Total(groups) = Sum(e, D)
  BY DEF Total, SumFunction, Sum
<1>3. IsFiniteSet(D) /\ \A k \in D : k \in Nat
  <2>1. D = 1 .. Len(groups) /\ Len(groups) \in Nat
    BY SeqMeans
  <2>2. QED  BY <2>1, FS_Interval
<1>4. /\ \A k \in D : at[k] \in D /\ ranked[k] = groups[at[k]]
      /\ \A i \in D : \E k \in D : at[k] = i
      /\ \A k, l \in D : k < l => at[k] # at[l]
  BY DEF Orders
<1>5. \A k \in D : f[k] = e[at[k]] /\ f[k] \in Int
  <2>1. \A k \in D : f[k] = ranked[k].count
    OBVIOUS
  <2>2. \A i \in D : e[i] = groups[i].count /\ e[i] \in Nat
    OBVIOUS
  <2> HIDE DEF D, ranked, f, e
  <2>3. \A k \in D : f[k] = e[at[k]]
    BY <1>4, <2>1, <2>2
  <2>4. QED  BY <1>4, <2>2, <2>3
<1> HIDE DEF D, ranked, f, e
<1>6. \A k, l \in D : at[k] = at[l] => k = l
  <2> SUFFICES ASSUME NEW k \in D, NEW l \in D, k # l PROVE at[k] # at[l]
    OBVIOUS
  <2>1. k < l \/ l < k
    BY <1>3
  <2>2. QED  BY <1>4, <2>1
<1>7. Sum(f, D) = Sum(e, {at[k] : k \in D})
  BY <1>3, <1>5, <1>6, SumReindex
<1>8. {at[k] : k \in D} = D
  BY <1>4
<1>9. QED  BY <1>1, <1>2, <1>7, <1>8 DEF D, ranked

\* Of groups that hold k, the first n in the order that at gives are chosen.
Chooses(policy, seen, groups, k, at, n) ==
    LET best == BestK(Ranked(policy, seen, groups), k)
    IN  /\ Orders(policy, seen, groups, at)
        /\ n \in 1 .. Len(groups) /\ DOMAIN best = 1 .. n
        /\ \A i \in 1 .. n : best[i] = groups[at[i]]
        /\ DOMAIN Needs(best, k) = 1 .. n
        /\ \A i \in 1 .. n : Needs(best, k)[i] \in 1 .. best[i].count
        /\ SumFunction(Needs(best, k)) = k

LEMMA BestChooses ==
    ASSUME NEW policy \in {"high", "low", "locality"}, NEW G, NEW groups \in Seq(G),
           \A i \in DOMAIN groups : groups[i].score \in Nat /\ groups[i].count \in Nat \ {0},
           NEW seen \in SUBSET Nat, policy = "locality" => Scores(groups) \subseteq seen,
           NEW k \in Nat \ {0}, k <= Total(groups)
    PROVE  /\ \E at, n : Chooses(policy, seen, groups, k, at, n)
           /\ BestK(Ranked(policy, seen, groups), k) \in Seq(G)
           /\ Needs(BestK(Ranked(policy, seen, groups), k), k) \in Seq(Nat)
<1> DEFINE ranked == Ranked(policy, seen, groups)
           best == BestK(ranked, k)
           needs == Needs(best, k)
<1>1. ranked \in Seq(G) /\ DOMAIN ranked = DOMAIN groups /\ \E at : Orders(policy, seen, groups, at)
  BY RankedOrders
<1>2. PICK at : Orders(policy, seen, groups, at)
  BY <1>1
<1>3. /\ \A i \in DOMAIN groups : at[i] \in DOMAIN groups /\ ranked[i] = groups[at[i]]
  BY <1>2 DEF Orders
<1>4. \A i \in DOMAIN groups : ranked[i].count \in Nat \ {0}
  BY <1>3
<1>5. Total(ranked) = Total(groups)
  BY <1>1, <1>2, RankedTotal
<1> HIDE DEF ranked
<1>6. \E n \in 1 .. Len(ranked) :
          /\ best = SubSeq(ranked, 1, n)
          /\ DOMAIN needs = 1 .. n
          /\ \A i \in 1 .. n : needs[i] \in 1 .. ranked[i].count
          /\ needs = [i \in 1 .. n |-> needs[i]]
          /\ SumFunction(needs) = k
  BY <1>1, <1>4, <1>5, BestHolds
<1> HIDE DEF best, needs
<1>7. PICK n \in 1 .. Len(ranked) :
          /\ best = SubSeq(ranked, 1, n)
          /\ DOMAIN needs = 1 .. n
          /\ \A i \in 1 .. n : needs[i] \in 1 .. ranked[i].count
          /\ needs = [i \in 1 .. n |-> needs[i]]
          /\ SumFunction(needs) = k
  BY <1>6
<1>8. /\ Len(ranked) \in Nat /\ DOMAIN ranked = 1 .. Len(ranked)
      /\ Len(groups) \in Nat /\ DOMAIN groups = 1 .. Len(groups)
  BY <1>1, SeqMeans
<1>9. n \in 0 .. Len(ranked) /\ n \in Nat
  BY <1>8
<1>10. best \in Seq(G) /\ DOMAIN best = 1 .. n /\ \A i \in 1 .. n : best[i] = ranked[i]
  BY <1>1, <1>7, <1>9, PrefixIs
<1>11. \A i \in 1 .. n : i \in DOMAIN groups
  BY <1>1, <1>8
<1>12. n \in 1 .. Len(groups)
  <2>1. n \in 1 .. n
    BY <1>9, <1>7
  <2>2. QED  BY <1>8, <1>11, <2>1
<1>13. \A i \in 1 .. n : best[i] = groups[at[i]] /\ needs[i] \in 1 .. best[i].count
  BY <1>3, <1>7, <1>10, <1>11
<1>14. Chooses(policy, seen, groups, k, at, n)
  BY <1>2, <1>7, <1>10, <1>12, <1>13 DEF Chooses, needs, best, ranked
<1>15. needs \in Seq(Nat)
  <2>1. \A i \in 1 .. n : ranked[i].count \in Nat
    BY <1>4, <1>11
  <2>2. \A i \in 1 .. n : needs[i] \in Nat
    BY <1>7, <2>1
  <2>3. needs \in [1 .. n -> Nat]
    BY <1>7, <2>2
  <2>4. QED  BY <1>9, <2>3, SeqDef
<1>16. QED  BY <1>10, <1>14, <1>15 DEF needs, best, ranked
=============================================================================
