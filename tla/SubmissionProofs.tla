--------------------------- MODULE SubmissionProofs ---------------------------
(***************************************************************************)
(* Proofs about the way of one match command, for every set of documents   *)
(* and candidates and every width of the counts.                           *)
(***************************************************************************)
EXTENDS Submission, SelectionProofs

-----------------------------------------------------------------------------
(* The largest quantity that a request allows. *)

SmallPowerOf(c) == c.oper = "^" /\ c.operand < 2

AllowStep(c, limit, allowed, q) ==
    \/ q = c.min
    \/ /\ ~ (c.oper = "^" /\ c.operand < 2)
       /\ \E p \in c.min .. q - 1 : q = Grown(c, p) /\ allowed[p]

Nothing(a, b, c, n, x) == TRUE

Allow == INSTANCE LoopLaws WITH Step <- AllowStep, Inv <- Nothing

\* The minimum is allowed, and what a step makes of what is allowed.
LEMMA AllowedIs ==
    ASSUME NEW c, c.min \in Nat, NEW limit \in Int
    PROVE  \A q : q \in Allowed(c, limit) <=>
               /\ q \in c.min .. limit
               /\ \/ q = c.min
                  \/ ~SmallPowerOf(c) /\ \E p \in Allowed(c, limit) : p < q /\ q = Grown(c, p)
<1> DEFINE A == c.min .. limit
           f == CHOOSE g : Allow!Solves(c, limit, A, g)
           rank == [q \in A |-> q - c.min]
<1>1. Allowed(c, limit) = {q \in A : f[q]}
  BY ONLY DEF Allowed, Allow!Solves, AllowStep
<1>2. rank \in [A -> Nat]
  <2>1. \A q \in A : q - c.min \in Nat
    OBVIOUS
  <2>2. QED  BY <2>1
<1>3. \A q \in A : rank[q] = q - c.min
  OBVIOUS
<1> HIDE DEF rank
<1>4. Allow!LooksDown(c, limit, A, rank)
  <2>1. ASSUME NEW g, NEW h, NEW q \in A, \A p \in A : rank[p] < rank[q] => g[p] = h[p]
        PROVE  AllowStep(c, limit, g, q) = AllowStep(c, limit, h, q)
    <3>1. \A p \in c.min .. q - 1 : p \in A /\ rank[p] < rank[q]
      BY <1>3
    <3>2. \A p \in c.min .. q - 1 : g[p] = h[p]
      BY <2>1, <3>1
    <3>3. QED  BY <3>2, Zenon DEF AllowStep
  <2>2. QED  BY <2>1 DEF Allow!LooksDown
<1> HIDE DEF f
<1>5. \A q \in A : f[q] = AllowStep(c, limit, f, q)
  <2>1. f = CHOOSE g : Allow!Solves(c, limit, A, g)
    BY DEF f
  <2> HIDE DEF A
  <2>2. f = [a \in A |-> f[a]] /\ \A a \in A : f[a] = AllowStep(c, limit, f, a)
    BY ONLY <1>2, <1>4, <2>1, Allow!Recursion
  <2>3. QED  BY <2>2
<1>6. ASSUME NEW q \in A
      PROVE  (\E p \in c.min .. q - 1 : q = Grown(c, p) /\ f[p])
                 <=> \E p \in Allowed(c, limit) : p < q /\ q = Grown(c, p)
  <2>1. \A p : p \in c.min .. q - 1 <=> p \in A /\ p < q
    OBVIOUS
  <2> HIDE DEF A
  <2>2. QED  BY <1>1, <2>1, Zenon
<1>7. \A q \in A : f[q] <=> \/ q = c.min
                            \/ ~SmallPowerOf(c) /\ \E p \in Allowed(c, limit) : p < q /\ q = Grown(c, p)
  <2> HIDE DEF A
  <2>1. QED  BY <1>5, <1>6, Zenon DEF AllowStep, SmallPowerOf
<1> HIDE DEF A
<1>8. \A q : q \in Allowed(c, limit) <=> q \in A /\ f[q]
  BY <1>1
<1>9. QED  BY <1>7, <1>8, Zenon DEF A

\* The loop ends with the largest of them.
LEMMA LastIsLargest ==
    ASSUME NEW c, Countable(c), ~SmallPowerOf(c), NEW limit \in Nat, c.min <= limit
    PROVE  Max({0} \cup Allowed(c, limit)) = LastWithin(c, limit)
<1> DEFINE A == c.min .. limit
           all == Allowed(c, limit)
<1>1. c.min \in Nat /\ c.min \in A
  BY DEF Countable, CountShape
<1>2. PICK p : LastWithin(c, limit) = p[c.min] /\ LastsOf(c, limit, p)
  BY LastIs DEF SmallPowerOf
<1>3. \A q : q \in all <=> /\ q \in A
                           /\ \/ q = c.min
                              \/ ~SmallPowerOf(c) /\ \E r \in all : r < q /\ q = Grown(c, r)
  BY <1>1, AllowedIs
<1>4. \A q \in A : q \in Nat /\ q >= c.min /\ q <= limit
  BY <1>1
<1>5. \A q \in A : Grown(c, q) \in Nat /\ Grown(c, q) > q
  BY <1>4, GrownGrows DEF SmallPowerOf
<1>6. \A q \in A : p[q] \in A /\ p[q] = IF Grown(c, q) > limit THEN q ELSE p[Grown(c, q)]
  BY <1>2 DEF LastsOf
<1>7. \A q \in A : ~ (Grown(c, q) > limit) => Grown(c, q) \in A
  BY <1>1, <1>4, <1>5
<1> HIDE DEF A, all
<1>8. \A q \in all : p[q] = p[c.min]
  <2> DEFINE N == {n \in Nat : \A q \in all : q <= n => p[q] = p[c.min]}
  <2>1. ASSUME NEW q \in all, q # c.min, \A r \in all : r < q => p[r] = p[c.min]
        PROVE  p[q] = p[c.min]
    <3>1. PICK r \in all : r < q /\ q = Grown(c, r)
      BY <1>3, <2>1
    <3>2. r \in A /\ q \in A /\ q <= limit
      BY <1>3, <1>4
    <3>3. p[r] = p[q]
      BY <1>4, <1>6, <3>1, <3>2
    <3>4. QED  BY <2>1, <3>1, <3>3
  <2>2. 0 \in N
    <3>1. ASSUME NEW q \in all, q <= 0 PROVE p[q] = p[c.min]
      <4>1. q \in A
        BY <1>3
      <4>2. q = c.min
        BY <1>1, <1>4, <3>1, <4>1
      <4>3. QED  BY <4>2
    <3>2. QED  BY <3>1
  <2>3. ASSUME NEW n \in Nat, n \in N PROVE n + 1 \in N
    <3>1. ASSUME NEW q \in all, q <= n + 1 PROVE p[q] = p[c.min]
      <4>1. \A r \in all : r \in Nat
        BY <1>3, <1>4
      <4>2. \A r \in all : r < q => r <= n
        BY <3>1, <4>1
      <4>3. QED  BY <2>1, <2>3, <4>2
    <3>2. QED  BY <3>1
  <2>4. \A n \in Nat : n \in N
    <3> HIDE DEF N
    <3>1. QED  BY <2>2, <2>3, SetInduction
  <2>5. ASSUME NEW q \in all PROVE p[q] = p[c.min]
    <3>1. q \in Nat
      BY <1>3, <1>4
    <3>2. q \in N /\ q <= q
      BY <2>4, <3>1
    <3>3. QED  BY <3>2
  <2>6. QED  BY <2>5
<1> DEFINE Good(q) == q <= p[q] /\ (q \in all => p[q] \in all)
<1>9. \A q \in A : Good(q)
  <2> DEFINE N == {n \in Nat : \A q \in A : limit - q <= n => Good(q)}
  <2>1. ASSUME NEW q \in A, \A r \in A : limit - r < limit - q => Good(r)
        PROVE  Good(q)
    <3>1. CASE Grown(c, q) > limit
      <4>1. p[q] = q
        BY <1>6, <3>1
      <4>2. QED  BY <1>4, <4>1
    <3>2. CASE ~ (Grown(c, q) > limit)
      <4> DEFINE r == Grown(c, q)
      <4>1. r \in A /\ r \in Nat /\ r > q /\ q \in Nat /\ p[q] = p[r]
        BY <1>4, <1>5, <1>6, <1>7, <3>2
      <4> HIDE DEF Good
      <4>2. Good(r)
        BY <2>1, <4>1
      <4>3. q \in all => r \in all
        BY <1>3, <4>1
      <4>4. p[r] \in Nat
        BY <1>4, <1>6, <4>1
      <4> HIDE DEF r
      <4>5. q <= p[q]
        BY <4>1, <4>2, <4>4 DEF Good
      <4>6. QED  BY <4>1, <4>2, <4>3, <4>5 DEF Good
    <3>3. QED  BY <3>1, <3>2
  <2> HIDE DEF Good
  <2>2. 0 \in N
    <3>1. ASSUME NEW q \in A, limit - q <= 0 PROVE Good(q)
      <4>1. \A r \in A : ~ (limit - r < limit - q)
        BY <1>4, <3>1
      <4>2. QED  BY <2>1, <4>1
    <3>2. QED  BY <3>1
  <2>3. ASSUME NEW n \in Nat, n \in N PROVE n + 1 \in N
    <3>1. ASSUME NEW q \in A, limit - q <= n + 1 PROVE Good(q)
      <4>1. \A r \in A : limit - r < limit - q => limit - r <= n
        BY <1>4, <3>1
      <4>2. QED  BY <2>1, <2>3, <4>1
    <3>2. QED  BY <3>1
  <2>4. \A n \in Nat : n \in N
    <3> HIDE DEF N
    <3>1. QED  BY <2>2, <2>3, SetInduction
  <2>5. ASSUME NEW q \in A PROVE Good(q)
    <3>1. limit - q \in Nat
      BY <1>4
    <3>2. limit - q \in N /\ limit - q <= limit - q
      BY <2>4, <3>1
    <3>3. QED  BY <3>2
  <2>6. QED  BY <2>5
<1>10. c.min \in all
  BY <1>1, <1>3
<1>11. p[c.min] \in all /\ p[c.min] \in Nat
  BY <1>1, <1>4, <1>6, <1>9, <1>10
<1>12. \A q \in all : q \in Nat /\ q <= p[c.min] /\ q <= limit
  BY <1>3, <1>4, <1>8, <1>9
<1> DEFINE S == {0} \cup all
<1>13. /\ S \in SUBSET Nat /\ S # {} /\ p[c.min] \in S
       /\ \A q \in S : q <= limit /\ q <= p[c.min]
  BY <1>11, <1>12
<1> HIDE DEF S
<1>14. Max(S) \in S /\ \A x \in S : x <= Max(S)
  BY <1>13, GreatestElement
<1>15. Max(S) \in Nat /\ Max(S) <= p[c.min] /\ p[c.min] <= Max(S)
  BY <1>13, <1>14
<1>16. QED  BY <1>2, <1>11, <1>15 DEF S, all

LEMMA LargestIsSelected ==
    ASSUME NEW c, Countable(c), NEW quantity \in Nat
    PROVE  Largest(c, quantity) = SelectCount(c, quantity)
<1> DEFINE limit == Min({c.max, quantity})
           all == Allowed(c, limit)
<1>1. c.min \in Nat /\ c.max \in Nat
  BY DEF Countable, CountShape
<1>2. limit \in Nat
  <2>1. {c.max, quantity} \in SUBSET Nat /\ {c.max, quantity} # {}
    BY <1>1
  <2>2. limit \in {c.max, quantity}
    BY <2>1, LeastElement
  <2>3. QED  BY <1>1, <2>2
<1>3. limit = Min({quantity, c.max})
  <2>1. {c.max, quantity} = {quantity, c.max}
    OBVIOUS
  <2>2. QED  BY <2>1
<1>4. Largest(c, quantity) = Max({0} \cup all)
  BY DEF Largest
<1> HIDE DEF limit
<1>5. \A q : q \in all <=> /\ q \in c.min .. limit
                           /\ \/ q = c.min
                              \/ ~SmallPowerOf(c) /\ \E r \in all : r < q /\ q = Grown(c, r)
  BY <1>1, <1>2, AllowedIs
<1> HIDE DEF all
<1>6. CASE c.min > limit
  <2>1. c.min .. limit = {}
    BY <1>1, <1>2, <1>6
  <2>2. all = {}
    BY <1>5, <2>1
  <2>3. {0} \in SUBSET Nat /\ {0} # {} /\ \A x \in {0} : x <= 0
    OBVIOUS
  <2>4. Max({0}) \in {0}
    BY <2>3, GreatestElement
  <2>5. {0} \cup all = {0}
    BY <2>2
  <2>6. SelectCount(c, quantity) = 0
    BY <1>1, <1>2, <1>3, <1>6 DEF SelectCount
  <2>7. QED  BY <1>4, <2>4, <2>5, <2>6
<1>7. CASE c.min <= limit /\ SmallPowerOf(c)
  <2>1. SelectCount(c, quantity) = c.min
    <3>1. ~ (c.min > limit)
      BY <1>1, <1>2, <1>7
    <3>2. QED  BY <1>3, <1>7, <3>1 DEF SelectCount, SmallPowerOf
  <2>2. all = {c.min}
    <3>1. c.min \in c.min .. limit
      BY <1>1, <1>2, <1>7
    <3>2. QED  BY <1>5, <1>7, <3>1
  <2> DEFINE S == {0} \cup all
  <2>3. S \in SUBSET Nat /\ S # {} /\ \A x \in S : x <= c.min
    BY <1>1, <2>2
  <2>4. c.min \in S
    BY <2>2
  <2> HIDE DEF S
  <2>5. Max(S) \in S /\ c.min <= Max(S)
    BY <1>1, <2>3, <2>4, GreatestElement
  <2>6. Max(S) = c.min
    <3>1. Max(S) \in Nat /\ Max(S) <= c.min
      BY <2>3, <2>5
    <3>2. QED  BY <1>1, <2>5, <3>1
  <2>7. QED  BY <1>4, <2>1, <2>6 DEF S
<1>8. CASE c.min <= limit /\ ~SmallPowerOf(c)
  <2>1. ~ (c.min > limit)
    BY <1>1, <1>2, <1>8
  <2>2. SelectCount(c, quantity) = LastWithin(c, limit)
    BY <1>3, <1>8, <2>1 DEF SelectCount, SmallPowerOf
  <2>3. QED  BY <1>2, <1>4, <1>8, <2>2, LastIsLargest DEF all
<1>9. QED  BY <1>1, <1>2, <1>6, <1>7, <1>8

-----------------------------------------------------------------------------
(* Documents. *)

LEMMA PartsAreNodes ==
    ASSUME NEW n \in Nodes
    PROVE  /\ Height[n] \in Nat
           /\ n.kind = "seq" => \A i \in DOMAIN n.items :
                  n.items[i] \in Nodes /\ Height[n.items[i]] < Height[n]
           /\ \A key : Has(n, key) => n.at[key] \in Nodes /\ Height[n.at[key]] < Height[n]
<1>1. \A m \in Parts(n) : m \in Nodes /\ Height[m] < Height[n]
  BY HeightAssumption
<1>2. ASSUME n.kind = "seq", NEW i \in DOMAIN n.items
      PROVE  n.items[i] \in Parts(n)
  <2>1. Parts(n) = Range(n.items)
    BY <1>2 DEF Parts
  <2>2. QED  BY <2>1 DEF Range
<1>3. ASSUME NEW key, Has(n, key)
      PROVE  n.at[key] \in Parts(n)
  <2>1. n.kind = "map" /\ key \in DOMAIN n.at
    BY <1>3 DEF Has, Keys
  <2>2. Parts(n) = {n.at[k] : k \in DOMAIN n.at}
    BY <2>1 DEF Parts
  <2>3. QED  BY <2>1, <2>2
<1>4. Height[n] \in Nat
  BY HeightAssumption
<1>5. QED  BY <1>1, <1>2, <1>3, <1>4

LEMMA HeightInduction ==
    ASSUME NEW S, \A n \in Nodes : (\A m \in Nodes : Height[m] < Height[n] => m \in S) => n \in S
    PROVE  Nodes \subseteq S
<1> DEFINE N == {k \in Nat : \A n \in Nodes : Height[n] <= k => n \in S}
<1>1. \A n \in Nodes : Height[n] \in Nat
  BY HeightAssumption
<1>2. 0 \in N
  <2>1. \A n \in Nodes : Height[n] <= 0 => \A m \in Nodes : ~ (Height[m] < Height[n])
    BY <1>1
  <2>2. QED  BY <2>1
<1>3. ASSUME NEW k \in Nat, k \in N PROVE k + 1 \in N
  <2>1. \A n \in Nodes : Height[n] <= k + 1 => \A m \in Nodes : Height[m] < Height[n] => Height[m] <= k
    BY <1>1
  <2>2. QED  BY <1>3, <2>1
<1>4. \A k \in Nat : k \in N
  <2> HIDE DEF N
  <2>1. QED  BY <1>2, <1>3, SetInduction
<1>5. ASSUME NEW n \in Nodes PROVE n \in S
  <2>1. Height[n] \in N /\ Height[n] <= Height[n]
    BY <1>1, <1>4
  <2>2. QED  BY <2>1
<1>6. QED  BY <1>5

-----------------------------------------------------------------------------
(* Counts. *)

\* What the parser makes of a count that it accepts.
AcceptedCount(c) ==
    /\ CountShape(c) /\ c.min < Word /\ c.max < Word /\ c.min <= c.max
    /\ c.min >= 1 \/ c = [min |-> 0, max |-> 0, oper |-> "+", operand |-> 1]

LEMMA CountOfAccepted ==
    ASSUME NEW n \in Nodes, CountAccepted(n)
    PROVE  AcceptedCount(CountOf(n))
<1>1. CASE ScalarCountAccepted(n)
  <2>1. n.kind = "int" /\ n.v \in 0 .. Word - 1
    BY <1>1 DEF ScalarCountAccepted, IsUnsigned
  <2>2. CountOf(n) = [min |-> n.v, max |-> n.v, oper |-> "+", operand |-> 1]
    BY <2>1 DEF CountOf, IsScalar
  <2> DEFINE v == n.v
  <2>3. v \in Nat /\ v < Word /\ (v >= 1 \/ v = 0)
    BY <2>1, WordAssumption
  <2> HIDE DEF v
  <2>4. CountOf(n) = [min |-> v, max |-> v, oper |-> "+", operand |-> 1]
    BY <2>2 DEF v
  <2>5. QED  BY <2>3, <2>4 DEF AcceptedCount, CountShape
<1>2. CASE VerboseCountAccepted(n)
  <2> DEFINE min == n.at["min"].v
             max == n.at["max"].v
             oper == Text(n.at["operator"])
             operand == n.at["operand"].v
  <2>1. Has(n, "min") /\ Has(n, "operand")
    BY <1>2 DEF VerboseCountAccepted
  <2>2. CountOf(n) = [min |-> min, max |-> max, oper |-> oper, operand |-> operand]
    <3>1. n.kind = "map"
      BY <2>1 DEF Has, Keys
    <3>2. ~IsScalar(n)
      BY <3>1 DEF IsScalar
    <3>3. QED  BY <3>2 DEF CountOf
  <2>3. min \in 0 .. Word - 1 /\ max \in 0 .. Word - 1 /\ min >= 1 /\ max >= min
    BY <1>2 DEF VerboseCountAccepted, IsUnsigned
  <2>4. oper \in {"+", "*", "^"}
    BY <1>2 DEF VerboseCountAccepted
  <2>5. operand \in Int
    <3>1. n.at["operand"] \in Nodes
      BY <2>1, PartsAreNodes
    <3>2. n.at["operand"].kind = "int"
      BY <1>2 DEF VerboseCountAccepted, IsInt
    <3>3. QED  BY <3>1, <3>2, HeightAssumption
  <2> HIDE DEF min, max, oper, operand
  <2>6. min \in Nat /\ max \in Nat /\ min < Word /\ max < Word
    BY <2>3, WordAssumption
  <2>7. QED  BY <2>2, <2>3, <2>4, <2>5, <2>6 DEF AcceptedCount, CountShape
<1>3. QED  BY <1>1, <1>2 DEF CountAccepted

-----------------------------------------------------------------------------
(* Which lists of resources are accepted. *)

AcceptStep(a, b, accepted, n) ==
    n.kind = "seq" /\ \A i \in DOMAIN n.items : ResourceAccepted(n.items[i], accepted)

Accept == INSTANCE LoopLaws WITH Step <- AcceptStep, Inv <- Nothing

\* A resource without what is below it.
ResourceAlone(n) ==
    /\ Has(n, "type") /\ IsScalar(n.at["type"])
    /\ Has(n, "count") /\ CountAccepted(n.at["count"])
    /\ \A key \in Keys(n) \cap {"unit", "exclusive", "label", "id"} : IsScalar(n.at[key])
    /\ Has(n, "exclusive") => Text(n.at["exclusive"]) \in {"true", "false"}
    /\ Has(n, "label") \/ Text(n.at["type"]) # "slot"
    /\ FieldCount(n) = Cardinality(Keys(n)) /\ Cardinality(Keys(n)) \in 2 .. 10

LEMMA ResourcesAcceptedIs ==
    ASSUME NEW n \in Nodes
    PROVE  ResourcesAccepted(n) <=>
             /\ n.kind = "seq"
             /\ \A i \in DOMAIN n.items :
                    /\ ResourceAlone(n.items[i])
                    /\ Has(n.items[i], "with") => ResourcesAccepted(n.items[i].at["with"])
<1> DEFINE f == CHOOSE g : Accept!Solves(0, 0, Nodes, g)
<1>1. \A list : ResourcesAccepted(list) = f[list]
  BY ONLY DEF ResourcesAccepted, Accept!Solves, AcceptStep
<1> HIDE DEF f
<1> DEFINE rank == [m \in Nodes |-> Height[m]]
<1>2. rank \in [Nodes -> Nat] /\ \A m \in Nodes : rank[m] = Height[m]
  BY HeightAssumption
<1> HIDE DEF rank
<1>3. Accept!LooksDown(0, 0, Nodes, rank)
  <2>1. ASSUME NEW g, NEW h, NEW m \in Nodes, \A k \in Nodes : rank[k] < rank[m] => g[k] = h[k]
        PROVE  AcceptStep(0, 0, g, m) = AcceptStep(0, 0, h, m)
    <3>1. CASE m.kind = "seq"
      <4>1. ASSUME NEW i \in DOMAIN m.items, Has(m.items[i], "with")
            PROVE  g[m.items[i].at["with"]] = h[m.items[i].at["with"]]
        <5> DEFINE k == m.items[i]
                   w == k.at["with"]
        <5>1. k \in Nodes /\ Height[k] < Height[m]
          BY <3>1, PartsAreNodes
        <5>2. w \in Nodes /\ Height[w] < Height[k]
          BY <4>1, <5>1, PartsAreNodes
        <5>3. Height[m] \in Nat /\ Height[k] \in Nat /\ Height[w] \in Nat
          BY <5>1, <5>2, HeightAssumption
        <5>4. rank[w] < rank[m]
          BY <1>2, <5>1, <5>2, <5>3
        <5>5. QED  BY <2>1, <5>2, <5>4
      <4>2. \A i \in DOMAIN m.items :
                ResourceAccepted(m.items[i], g) <=> ResourceAccepted(m.items[i], h)
        BY <4>1, Zenon DEF ResourceAccepted
      <4>3. QED  BY <4>2, Zenon DEF AcceptStep
    <3>2. CASE m.kind # "seq"
      BY <3>2, Zenon DEF AcceptStep
    <3>3. QED  BY <3>1, <3>2
  <2>2. QED  BY <2>1 DEF Accept!LooksDown
<1>4. f = [m \in Nodes |-> f[m]] /\ \A m \in Nodes : f[m] = AcceptStep(0, 0, f, m)
  <2>1. f = CHOOSE g : Accept!Solves(0, 0, Nodes, g)
    BY DEF f
  <2>2. QED  BY ONLY <1>2, <1>3, <2>1, Accept!Recursion
<1>5. f[n] <=> AcceptStep(0, 0, f, n)
  BY <1>4, Zenon
<1>6. ASSUME NEW m
      PROVE  ResourceAccepted(m, f)
               <=> ResourceAlone(m) /\ (Has(m, "with") => f[m.at["with"]])
  BY Zenon DEF ResourceAccepted, ResourceAlone
<1>7. QED  BY <1>1, <1>5, <1>6, Zenon DEF AcceptStep

\* A set that is no larger than one of its subsets.
LEMMA SameCardinality ==
    ASSUME NEW S, IsFiniteSet(S), NEW T \in SUBSET S, Cardinality(T) = Cardinality(S)
    PROVE  T = S
BY FS_Subset

\* The parser takes a resource, with what is below it left out, if and only
\* if it is well-formed: every key that it has not read is one too many.
LEMMA AloneIsWellFormed ==
    ASSUME NEW n \in Nodes
    PROVE  ResourceAlone(n) /\ (Has(n, "with") => n.at["with"].kind = "seq") <=> WellFormed(n)
<1> DEFINE K == Keys(n)
           base == {"type", "count"}
           optional == K \cap OptionalKeys
<1>1. IsFiniteSet(K)
  <2>1. n.kind = "map" => IsFiniteSet(DOMAIN n.at)
    BY HeightAssumption
  <2>2. QED  BY <2>1, FS_EmptySet DEF Keys
<1>2. IsFiniteSet(base) /\ Cardinality(base) = 2
  <2>1. IsFiniteSet({"type"}) /\ Cardinality({"type"}) = 1
    BY FS_Singleton
  <2>2. "count" \notin {"type"} /\ base = {"type"} \cup {"count"}
    OBVIOUS
  <2>3. QED  BY <2>1, <2>2, FS_AddElement
<1>3. IsFiniteSet(optional) /\ Cardinality(optional) \in 0 .. 5
  <2> DEFINE a == {"unit"}
             b == a \cup {"exclusive"}
             c == b \cup {"with"}
             d == c \cup {"label"}
             e == d \cup {"id"}
  <2>1. /\ "exclusive" \notin a /\ "with" \notin b /\ "label" \notin c /\ "id" \notin d
        /\ OptionalKeys = e
    BY DEF OptionalKeys
  <2>2. IsFiniteSet(a) /\ Cardinality(a) = 1
    BY FS_Singleton
  <2> HIDE DEF a
  <2>3. IsFiniteSet(b) /\ Cardinality(b) = 2
    BY <2>1, <2>2, FS_AddElement
  <2> HIDE DEF b
  <2>4. IsFiniteSet(c) /\ Cardinality(c) = 3
    BY <2>1, <2>3, FS_AddElement
  <2> HIDE DEF c
  <2>5. IsFiniteSet(d) /\ Cardinality(d) = 4
    BY <2>1, <2>4, FS_AddElement
  <2> HIDE DEF d
  <2>6. IsFiniteSet(e) /\ Cardinality(e) = 5
    BY <2>1, <2>5, FS_AddElement
  <2> HIDE DEF e
  <2>7. optional \in SUBSET e
    BY <2>1
  <2> HIDE DEF optional
  <2>8. IsFiniteSet(optional) /\ Cardinality(optional) <= 5
    BY <2>6, <2>7, FS_Subset
  <2>9. Cardinality(optional) \in Nat
    BY <2>8, FS_CardinalityType
  <2>10. QED  BY <2>8, <2>9
<1>4. IsFiniteSet(base \cup optional) /\ Cardinality(base \cup optional) = 2 + Cardinality(optional)
  <2>1. base \cap optional = {}
    BY DEF OptionalKeys
  <2> HIDE DEF base, optional
  <2>2. IsFiniteSet(base \cup optional)
        /\ Cardinality(base \cup optional)
             = Cardinality(base) + Cardinality(optional) - Cardinality(base \cap optional)
    BY <1>2, <1>3, FS_Union
  <2>3. Cardinality({}) = 0
    BY FS_EmptySet
  <2>4. QED  BY <1>2, <1>3, <2>1, <2>2, <2>3
<1>5. FieldCount(n) = 2 + Cardinality(optional)
  BY DEF FieldCount
<1>6. ASSUME base \subseteq K, FieldCount(n) = Cardinality(K)
      PROVE  K = base \cup optional
  <2>1. base \cup optional \in SUBSET K
    BY <1>6
  <2> HIDE DEF base, optional, K
  <2>2. QED  BY <1>1, <1>4, <1>5, <1>6, <2>1, SameCardinality
<1>7. ASSUME base \subseteq K, K \subseteq base \cup OptionalKeys
      PROVE  FieldCount(n) = Cardinality(K) /\ Cardinality(K) \in 2 .. 10
  <2>1. K = base \cup optional
    BY <1>7
  <2> HIDE DEF base, optional, K
  <2>2. QED  BY <1>3, <1>4, <1>5, <2>1
<1>8. \A key : Has(n, key) <=> key \in K
  BY DEF Has
<1>9. K # {} => n.kind = "map"
  BY DEF Keys
<1> HIDE DEF optional
<1>10. ASSUME ResourceAlone(n), Has(n, "with") => n.at["with"].kind = "seq"
       PROVE  WellFormed(n)
  <2>1. base \subseteq K
    BY <1>8, <1>10 DEF ResourceAlone
  <2>2. K = base \cup optional
    BY <1>6, <1>10, <2>1 DEF ResourceAlone
  <2>3. K \subseteq base \cup OptionalKeys
    BY <2>2 DEF optional
  <2>4. ASSUME NEW key \in K \ {"count", "with"} PROVE IsScalar(n.at[key])
    <3>1. key = "type" \/ key \in {"unit", "exclusive", "label", "id"}
      BY <2>3, <2>4 DEF OptionalKeys
    <3>2. QED  BY <1>10, <2>4, <3>1 DEF ResourceAlone
  <2>5. n.kind = "map"
    BY <1>9, <2>1
  <2>6. QED  BY <1>10, <2>1, <2>3, <2>4, <2>5 DEF WellFormed, ResourceAlone
<1>11. ASSUME WellFormed(n)
       PROVE  ResourceAlone(n) /\ (Has(n, "with") => n.at["with"].kind = "seq")
  <2>1. base \subseteq K /\ K \subseteq base \cup OptionalKeys
    BY <1>11 DEF WellFormed
  <2>2. FieldCount(n) = Cardinality(K) /\ Cardinality(K) \in 2 .. 10
    BY <1>7, <2>1
  <2>3. Has(n, "type") /\ Has(n, "count")
    BY <1>8, <2>1
  <2>4. IsScalar(n.at["type"]) /\ \A key \in K \cap {"unit", "exclusive", "label", "id"} : IsScalar(n.at[key])
    BY <1>11, <1>8, <2>3 DEF WellFormed
  <2>5. QED  BY <1>11, <2>2, <2>3, <2>4 DEF WellFormed, ResourceAlone
<1>12. QED  BY <1>10, <1>11

-----------------------------------------------------------------------------
(* The resources of a list, at any depth. *)

NestStep(a, b, nested, n) ==
    IF n.kind # "seq" THEN {}
    ELSE UNION {{m} \cup (IF Has(m, "with") THEN nested[m.at["with"]] ELSE {}) : m \in Range(n.items)}

Nest == INSTANCE LoopLaws WITH Step <- NestStep, Inv <- Nothing

LEMMA NestedIs ==
    ASSUME NEW n \in Nodes
    PROVE  \A k : k \in Nested(n) <=>
               /\ n.kind = "seq"
               /\ \E i \in DOMAIN n.items :
                      \/ k = n.items[i]
                      \/ Has(n.items[i], "with") /\ k \in Nested(n.items[i].at["with"])
<1> DEFINE f == CHOOSE g : Nest!Solves(0, 0, Nodes, g)
<1>1. \A list : Nested(list) = f[list]
  BY ONLY DEF Nested, Nest!Solves, NestStep
<1> HIDE DEF f
<1> DEFINE rank == [m \in Nodes |-> Height[m]]
<1>2. rank \in [Nodes -> Nat] /\ \A m \in Nodes : rank[m] = Height[m]
  BY HeightAssumption
<1> HIDE DEF rank
<1>3. \A g, m, k : k \in NestStep(0, 0, g, m) <=>
          /\ m.kind = "seq"
          /\ \E i \in DOMAIN m.items :
                 \/ k = m.items[i]
                 \/ Has(m.items[i], "with") /\ k \in g[m.items[i].at["with"]]
  BY DEF NestStep, Range
<1>4. Nest!LooksDown(0, 0, Nodes, rank)
  <2>1. ASSUME NEW g, NEW h, NEW m \in Nodes, \A k \in Nodes : rank[k] < rank[m] => g[k] = h[k]
        PROVE  NestStep(0, 0, g, m) = NestStep(0, 0, h, m)
    <3>1. CASE m.kind = "seq"
      <4>1. ASSUME NEW i \in DOMAIN m.items, Has(m.items[i], "with")
            PROVE  g[m.items[i].at["with"]] = h[m.items[i].at["with"]]
        <5> DEFINE k == m.items[i]
                   w == k.at["with"]
        <5>1. k \in Nodes /\ Height[k] < Height[m]
          BY <3>1, PartsAreNodes
        <5>2. w \in Nodes /\ Height[w] < Height[k]
          BY <4>1, <5>1, PartsAreNodes
        <5>3. Height[m] \in Nat /\ Height[k] \in Nat /\ Height[w] \in Nat
          BY <5>1, <5>2, HeightAssumption
        <5>4. rank[w] < rank[m]
          BY <1>2, <5>1, <5>2, <5>3
        <5>5. QED  BY <2>1, <5>2, <5>4
      <4>2. \A k : k \in NestStep(0, 0, g, m) <=> k \in NestStep(0, 0, h, m)
        BY <1>3, <4>1
      <4>3. QED  BY <4>2
    <3>2. CASE m.kind # "seq"
      BY <3>2 DEF NestStep
    <3>3. QED  BY <3>1, <3>2
  <2>2. QED  BY <2>1 DEF Nest!LooksDown
<1>5. f = [m \in Nodes |-> f[m]] /\ \A m \in Nodes : f[m] = NestStep(0, 0, f, m)
  <2>1. f = CHOOSE g : Nest!Solves(0, 0, Nodes, g)
    BY DEF f
  <2>2. QED  BY ONLY <1>2, <1>4, <2>1, Nest!Recursion
<1>6. \A k : k \in Nested(n) <=> k \in NestStep(0, 0, f, n)
  BY <1>1, <1>5
<1>7. \A k, m : k \in f[m] <=> k \in Nested(m)
  BY <1>1
<1>8. QED  BY ONLY <1>3, <1>6, <1>7

\* An accepted list is one whose resources are all well-formed.
LEMMA AcceptedIsWellFormed ==
    \A list \in Nodes :
        /\ ResourcesAccepted(list) <=>
               list.kind = "seq" /\ \A n \in Nested(list) : WellFormed(n)
        /\ \A n \in Nested(list) : n \in Nodes
<1> DEFINE Good(list) ==
               /\ ResourcesAccepted(list) <=>
                      list.kind = "seq" /\ \A n \in Nested(list) : WellFormed(n)
               /\ \A n \in Nested(list) : n \in Nodes
           S == {list \in Nodes : Good(list)}
<1>1. ASSUME NEW list \in Nodes, \A m \in Nodes : Height[m] < Height[list] => m \in S
      PROVE  Good(list)
  <2>1. CASE list.kind # "seq"
    <3>1. ~ResourcesAccepted(list)
      BY <2>1, ResourcesAcceptedIs
    <3>2. Nested(list) = {}
      BY <2>1, NestedIs
    <3>3. QED  BY <2>1, <3>1, <3>2
  <2>2. CASE list.kind = "seq"
    <3> DEFINE D == DOMAIN list.items
               at(i) == list.items[i]
               below(i) == at(i).at["with"]
    <3>1. \A i \in D : at(i) \in Nodes /\ Height[at(i)] < Height[list]
      BY <2>2, PartsAreNodes
    <3>2. ASSUME NEW i \in D, Has(at(i), "with")
          PROVE  below(i) \in Nodes /\ Good(below(i))
      <4>1. below(i) \in Nodes /\ Height[below(i)] < Height[at(i)]
        BY <3>1, <3>2, PartsAreNodes
      <4>2. Height[below(i)] \in Nat /\ Height[at(i)] \in Nat /\ Height[list] \in Nat
        BY <3>1, <4>1, HeightAssumption
      <4> DEFINE w == below(i)
      <4> HIDE DEF Good, w
      <4>3. w \in Nodes /\ Height[w] < Height[list]
        BY <3>1, <4>1, <4>2 DEF w
      <4>4. w \in S
        BY <1>1, <4>3
      <4>5. QED  BY <4>3, <4>4 DEF w
    <3>3. \A k : k \in Nested(list) <=>
              \E i \in D : k = at(i) \/ (Has(at(i), "with") /\ k \in Nested(below(i)))
      BY <2>2, NestedIs
    <3>4. ResourcesAccepted(list) <=>
              \A i \in D : ResourceAlone(at(i)) /\ (Has(at(i), "with") => ResourcesAccepted(below(i)))
      BY <2>2, ResourcesAcceptedIs
    <3>5. \A i \in D : ResourceAlone(at(i)) /\ (Has(at(i), "with") => below(i).kind = "seq")
                           <=> WellFormed(at(i))
      BY <3>1, AloneIsWellFormed
    <3> HIDE DEF D, at, below
    <3>6. \A n \in Nested(list) : n \in Nodes
      BY <3>1, <3>2, <3>3
    <3>7. ASSUME ResourcesAccepted(list), NEW n \in Nested(list)
          PROVE  WellFormed(n)
      BY <3>2, <3>3, <3>4, <3>5, <3>7
    <3>8. ASSUME \A n \in Nested(list) : WellFormed(n)
          PROVE  ResourcesAccepted(list)
      <4>1. ASSUME NEW i \in D
            PROVE  ResourceAlone(at(i)) /\ (Has(at(i), "with") => ResourcesAccepted(below(i)))
        <5>1. WellFormed(at(i)) /\ (Has(at(i), "with") => \A n \in Nested(below(i)) : WellFormed(n))
          BY <3>3, <3>8, <4>1
        <5>2. ResourceAlone(at(i)) /\ (Has(at(i), "with") => below(i).kind = "seq")
          BY <3>5, <4>1, <5>1
        <5>3. QED  BY <3>2, <4>1, <5>1, <5>2
      <4>2. QED  BY <3>4, <4>1
    <3>9. QED  BY <2>2, <3>6, <3>7, <3>8
  <2>3. QED  BY <2>1, <2>2
<1>2. Nodes \subseteq S
  <2> HIDE DEF Good
  <2>1. \A n \in Nodes : (\A m \in Nodes : Height[m] < Height[n] => m \in S) => n \in S
    BY <1>1
  <2> HIDE DEF S
  <2>2. QED  BY <2>1, HeightInduction
<1>3. QED  BY <1>2

-----------------------------------------------------------------------------
(* Which documents are accepted. *)

Grammar(d) ==
    /\ Keys(d) = {"version", "resources", "tasks", "attributes"}
    /\ IsUnsigned(d.at["version"]) /\ d.at["version"].v = 1
    /\ TasksAccepted(d.at["tasks"]) /\ AttributesAccepted(d.at["attributes"])
    /\ d.at["resources"].kind = "seq"
    /\ \A n \in Nested(d.at["resources"]) : WellFormed(n)

LEMMA AcceptedDocuments ==
    ASSUME NEW d \in Nodes
    PROVE  JobspecAccepted(d) <=> Grammar(d)
<1> DEFINE K == Keys(d)
           four == {"version", "resources", "tasks", "attributes"}
<1>1. IsFiniteSet(K)
  <2>1. d.kind = "map" => IsFiniteSet(DOMAIN d.at)
    BY HeightAssumption
  <2>2. QED  BY <2>1, FS_EmptySet DEF Keys
<1>2. IsFiniteSet(four) /\ Cardinality(four) = 4
  <2> DEFINE a == {"version"}
             b == a \cup {"resources"}
             c == b \cup {"tasks"}
             e == c \cup {"attributes"}
  <2>1. "resources" \notin a /\ "tasks" \notin b /\ "attributes" \notin c /\ four = e
    OBVIOUS
  <2>2. IsFiniteSet(a) /\ Cardinality(a) = 1
    BY FS_Singleton
  <2> HIDE DEF a
  <2>3. IsFiniteSet(b) /\ Cardinality(b) = 2
    BY <2>1, <2>2, FS_AddElement
  <2> HIDE DEF b
  <2>4. IsFiniteSet(c) /\ Cardinality(c) = 3
    BY <2>1, <2>3, FS_AddElement
  <2> HIDE DEF c
  <2>5. IsFiniteSet(e) /\ Cardinality(e) = 4
    BY <2>1, <2>4, FS_AddElement
  <2> HIDE DEF e
  <2>6. QED  BY <2>1, <2>5
<1>3. four \subseteq K /\ Cardinality(K) = 4 <=> K = four
  <2> HIDE DEF K, four
  <2>1. ASSUME four \subseteq K, Cardinality(K) = 4 PROVE K = four
    <3>1. four \in SUBSET K /\ Cardinality(four) = Cardinality(K)
      BY <1>2, <2>1
    <3>2. QED  BY <1>1, <3>1, SameCardinality
  <2>2. QED  BY <1>2, <2>1
<1>4. K = four => d.at["resources"] \in Nodes
  <2>1. K = four => Has(d, "resources")
    BY DEF Has
  <2>2. QED  BY <2>1, PartsAreNodes
<1>5. K = four =>
        (ResourcesAccepted(d.at["resources"]) <=>
            /\ d.at["resources"].kind = "seq"
            /\ \A n \in Nested(d.at["resources"]) : WellFormed(n))
  BY <1>4, AcceptedIsWellFormed
<1>6. JobspecAccepted(d) <=>
        /\ four \subseteq K /\ Cardinality(K) = 4
        /\ IsUnsigned(d.at["version"]) /\ d.at["version"].v = 1
        /\ AttributesAccepted(d.at["attributes"])
        /\ ResourcesAccepted(d.at["resources"])
        /\ TasksAccepted(d.at["tasks"])
  BY DEF JobspecAccepted
<1>7. Grammar(d) <=>
        /\ K = four
        /\ IsUnsigned(d.at["version"]) /\ d.at["version"].v = 1
        /\ TasksAccepted(d.at["tasks"]) /\ AttributesAccepted(d.at["attributes"])
        /\ d.at["resources"].kind = "seq"
        /\ \A n \in Nested(d.at["resources"]) : WellFormed(n)
  BY DEF Grammar
<1> HIDE DEF K, four
<1>8. QED  BY <1>3, <1>5, <1>6, <1>7, Zenon

-----------------------------------------------------------------------------
(* The requests that are read from a list. *)

RequestStep(a, b, requests, n) ==
    IF n.kind = "seq" THEN [i \in DOMAIN n.items |-> ResourceOf(n.items[i], requests)] ELSE <<>>

Req == INSTANCE LoopLaws WITH Step <- RequestStep, Inv <- Nothing

\* f holds the requests of every list.
Reads(f) ==
    /\ \A list : ResourcesOf(list) = f[list]
    /\ \A n \in Nodes : f[n] = RequestStep(0, 0, f, n)

LEMMA ResourcesOfReads == \E f : Reads(f)
<1> DEFINE f == CHOOSE g : Req!Solves(0, 0, Nodes, g)
<1>1. \A list : ResourcesOf(list) = f[list]
  BY ONLY DEF ResourcesOf, Req!Solves, RequestStep
<1> HIDE DEF f
<1> DEFINE rank == [m \in Nodes |-> Height[m]]
<1>2. rank \in [Nodes -> Nat] /\ \A m \in Nodes : rank[m] = Height[m]
  BY HeightAssumption
<1> HIDE DEF rank
<1>3. Req!LooksDown(0, 0, Nodes, rank)
  <2>1. ASSUME NEW g, NEW h, NEW m \in Nodes, \A k \in Nodes : rank[k] < rank[m] => g[k] = h[k]
        PROVE  RequestStep(0, 0, g, m) = RequestStep(0, 0, h, m)
    <3>1. CASE m.kind = "seq"
      <4>1. ASSUME NEW i \in DOMAIN m.items, Has(m.items[i], "with")
            PROVE  g[m.items[i].at["with"]] = h[m.items[i].at["with"]]
        <5> DEFINE k == m.items[i]
                   w == k.at["with"]
        <5>1. k \in Nodes /\ Height[k] < Height[m]
          BY <3>1, PartsAreNodes
        <5>2. w \in Nodes /\ Height[w] < Height[k]
          BY <4>1, <5>1, PartsAreNodes
        <5>3. Height[m] \in Nat /\ Height[k] \in Nat /\ Height[w] \in Nat
          BY <5>1, <5>2, HeightAssumption
        <5>4. rank[w] < rank[m]
          BY <1>2, <5>1, <5>2, <5>3
        <5>5. QED  BY <2>1, <5>2, <5>4
      <4>2. \A i \in DOMAIN m.items : ResourceOf(m.items[i], g) = ResourceOf(m.items[i], h)
        <5> SUFFICES ASSUME NEW i \in DOMAIN m.items
                     PROVE  ResourceOf(m.items[i], g) = ResourceOf(m.items[i], h)
          OBVIOUS
        <5> DEFINE k == m.items[i]
        <5>1. Has(k, "with") => g[k.at["with"]] = h[k.at["with"]]
          BY <4>1
        <5> HIDE DEF k
        <5>2. (IF Has(k, "with") THEN g[k.at["with"]] ELSE <<>>)
                = (IF Has(k, "with") THEN h[k.at["with"]] ELSE <<>>)
          BY <5>1
        <5>3. ResourceOf(k, g) = ResourceOf(k, h)
          BY <5>2, Zenon DEF ResourceOf
        <5>4. QED  BY <5>3 DEF k
      <4> DEFINE u == [i \in DOMAIN m.items |-> ResourceOf(m.items[i], g)]
                 v == [i \in DOMAIN m.items |-> ResourceOf(m.items[i], h)]
      <4>3. u = v
        BY <4>2, Zenon
      <4>4. QED  BY <3>1, <4>3 DEF RequestStep
    <3>2. CASE m.kind # "seq"
      BY <3>2 DEF RequestStep
    <3>3. QED  BY <3>1, <3>2
  <2>2. QED  BY <2>1 DEF Req!LooksDown
<1>4. f = [m \in Nodes |-> f[m]] /\ \A m \in Nodes : f[m] = RequestStep(0, 0, f, m)
  <2>1. f = CHOOSE g : Req!Solves(0, 0, Nodes, g)
    BY DEF f
  <2>2. QED  BY ONLY <1>2, <1>3, <2>1, Req!Recursion
<1>5. Reads(f)
  BY <1>1, <1>4 DEF Reads
<1>6. QED  BY <1>5

\* The requests of a list, one for each of its resources.
LEMMA ReadFrom ==
    ASSUME NEW f, Reads(f), NEW list \in Nodes, list.kind = "seq"
    PROVE  /\ DOMAIN f[list] = DOMAIN list.items
           /\ \A i \in DOMAIN list.items : f[list][i] = ResourceOf(list.items[i], f)
           /\ Len(f[list]) = Len(list.items) /\ Len(f[list]) \in Nat
           /\ DOMAIN f[list] = 1 .. Len(f[list])
           /\ \A r : r \in Range(f[list]) <=> \E i \in DOMAIN list.items : r = ResourceOf(list.items[i], f)
<1> DEFINE D == DOMAIN list.items
           g == f[list]
<1>1. g = [i \in D |-> ResourceOf(list.items[i], f)]
  BY DEF Reads, RequestStep
<1>2. list.items \in Seq(Range(list.items))
  BY HeightAssumption
<1>3. D = 1 .. Len(list.items) /\ Len(list.items) \in Nat
  BY <1>2, SeqMeans
<1>4. \A i \in D : g[i] = ResourceOf(list.items[i], f)
  BY <1>1
<1>5. g = [i \in D |-> g[i]] /\ DOMAIN g = D
  BY <1>1
<1> HIDE DEF g, D
<1>6. \A r : r \in Range(g) <=> \E i \in D : r = ResourceOf(list.items[i], f)
  BY <1>4, <1>5 DEF Range
<1>7. g \in Seq(Range(g))
  BY <1>3, <1>5, SeqDef DEF Range
<1>8. Len(g) \in Nat /\ DOMAIN g = 1 .. Len(g) /\ Len(g) = Len(list.items)
  <2>1. Len(g) \in Nat /\ DOMAIN g = 1 .. Len(g)
    BY <1>7, SeqMeans
  <2> DEFINE a == Len(g)
             b == Len(list.items)
  <2>2. a \in Nat /\ b \in Nat /\ 1 .. a = 1 .. b
    BY <1>3, <1>5, <2>1
  <2> HIDE DEF a, b
  <2>3. (a > b => a \in 1 .. a /\ a \notin 1 .. b) /\ (b > a => b \in 1 .. b /\ b \notin 1 .. a)
    BY <2>2
  <2>4. a = b
    BY <2>2, <2>3
  <2>5. QED  BY <2>1, <2>4 DEF a, b
<1>9. QED  BY <1>4, <1>5, <1>6, <1>8 DEF g, D

\* What is below a resource of a list is of the list.
LEMMA NestedCloses ==
    \A list \in Nodes : ResourcesAccepted(list) =>
        \A n \in Nested(list) : Has(n, "with") =>
            /\ n.at["with"] \in Nodes /\ ResourcesAccepted(n.at["with"])
            /\ \A i \in DOMAIN n.at["with"].items : n.at["with"].items[i] \in Nested(list)
<1> DEFINE Good(list) ==
               ResourcesAccepted(list) =>
                   \A n \in Nested(list) : Has(n, "with") =>
                       /\ n.at["with"] \in Nodes /\ ResourcesAccepted(n.at["with"])
                       /\ \A i \in DOMAIN n.at["with"].items : n.at["with"].items[i] \in Nested(list)
           S == {list \in Nodes : Good(list)}
<1>1. ASSUME NEW list \in Nodes, \A m \in Nodes : Height[m] < Height[list] => m \in S,
             ResourcesAccepted(list), NEW n \in Nested(list), Has(n, "with")
      PROVE  /\ n.at["with"] \in Nodes /\ ResourcesAccepted(n.at["with"])
             /\ \A i \in DOMAIN n.at["with"].items : n.at["with"].items[i] \in Nested(list)
  <2>1. list.kind = "seq"
    BY <1>1, ResourcesAcceptedIs
  <2>2. PICK i \in DOMAIN list.items :
            \/ n = list.items[i]
            \/ Has(list.items[i], "with") /\ n \in Nested(list.items[i].at["with"])
    BY <1>1, NestedIs
  <2> DEFINE m == list.items[i]
             w == m.at["with"]
  <2>3. m \in Nodes /\ Height[m] < Height[list]
    BY <2>1, PartsAreNodes
  <2>4. Has(m, "with")
    BY <1>1, <2>2
  <2>5. w \in Nodes /\ Height[w] < Height[m] /\ ResourcesAccepted(w)
    <3>1. w \in Nodes /\ Height[w] < Height[m]
      BY <2>3, <2>4, PartsAreNodes
    <3>2. ResourcesAccepted(w)
      BY <1>1, <2>4, ResourcesAcceptedIs
    <3>3. QED  BY <3>1, <3>2
  <2>6. \A k : k \in Nested(w) => k \in Nested(list)
    BY <2>1, <2>4, NestedIs
  <2>7. CASE n = m
    <3>1. w.kind = "seq"
      BY <2>5, ResourcesAcceptedIs
    <3>2. \A j \in DOMAIN w.items : w.items[j] \in Nested(w)
      BY <2>5, <3>1, NestedIs
    <3>3. QED  BY <2>5, <2>6, <2>7, <3>2
  <2>8. CASE n \in Nested(w)
    <3>1. Height[w] < Height[list]
      <4>1. Height[w] \in Nat /\ Height[m] \in Nat /\ Height[list] \in Nat
        BY <2>3, <2>5, HeightAssumption
      <4> HIDE DEF w, m
      <4>2. QED  BY <2>3, <2>5, <4>1
    <3> HIDE DEF w, m
    <3>2. Good(w)
      BY <1>1, <2>5, <3>1
    <3>3. QED  BY <1>1, <2>5, <2>6, <2>8, <3>2
  <2>9. QED  BY <2>2, <2>7, <2>8
<1>2. \A list \in Nodes : (\A m \in Nodes : Height[m] < Height[list] => m \in S) => Good(list)
  BY <1>1
<1> HIDE DEF Good
<1>3. \A n \in Nodes : (\A m \in Nodes : Height[m] < Height[n] => m \in S) => n \in S
  BY <1>2
<1>4. Nodes \subseteq S
  <2> HIDE DEF S
  <2>1. QED  BY <1>3, HeightInduction
<1>5. QED  BY <1>4 DEF Good

DepthStep(list, b, upto, d) ==
    IF d = 0 THEN Range(list) ELSE UNION {{r} \cup Range(r.with) : r \in upto[d - 1]}

Deep == INSTANCE LoopLaws WITH Step <- DepthStep, Inv <- Nothing

\* u holds the requests of a list down to each depth.
GoesDown(list, depth, u) ==
    /\ Requests(list, depth) = u[depth]
    /\ \A r : r \in u[0] <=> r \in Range(list)
    /\ \A d \in 1 .. depth : \A r : r \in u[d] <=> \E q \in u[d - 1] : r = q \/ r \in Range(q.with)

LEMMA RequestsGoDown ==
    ASSUME NEW list, NEW depth \in Nat
    PROVE  \E u : GoesDown(list, depth, u)
<1> DEFINE A == 0 .. depth
           u == CHOOSE g : Deep!Solves(list, 0, A, g)
           rank == [d \in A |-> d]
<1>1. Requests(list, depth) = u[depth]
  BY ONLY DEF Requests, Deep!Solves, DepthStep
<1>2. rank \in [A -> Nat] /\ \A d \in A : rank[d] = d
  OBVIOUS
<1> HIDE DEF rank, u
<1>3. Deep!LooksDown(list, 0, A, rank)
  <2>1. ASSUME NEW g, NEW h, NEW d \in A, \A e \in A : rank[e] < rank[d] => g[e] = h[e]
        PROVE  DepthStep(list, 0, g, d) = DepthStep(list, 0, h, d)
    <3>1. d # 0 => d - 1 \in A /\ rank[d - 1] < rank[d]
      BY <1>2
    <3>2. d # 0 => g[d - 1] = h[d - 1]
      BY <2>1, <3>1
    <3> HIDE DEF A
    <3>3. QED  BY <3>2 DEF DepthStep
  <2>2. QED  BY <2>1 DEF Deep!LooksDown
<1>4. u = [d \in A |-> u[d]] /\ \A d \in A : u[d] = DepthStep(list, 0, u, d)
  <2>1. u = CHOOSE g : Deep!Solves(list, 0, A, g)
    BY DEF u
  <2> HIDE DEF A
  <2>2. QED  BY ONLY <1>2, <1>3, <2>1, Deep!Recursion
<1>5. 0 \in A /\ \A d \in 1 .. depth : d \in A /\ d # 0
  OBVIOUS
<1> HIDE DEF A
<1>6. \A r : r \in u[0] <=> r \in Range(list)
  BY <1>4, <1>5 DEF DepthStep
<1>7. ASSUME NEW d \in 1 .. depth
      PROVE  \A r : r \in u[d] <=> \E q \in u[d - 1] : r = q \/ r \in Range(q.with)
  <2>1. u[d] = UNION {{r} \cup Range(r.with) : r \in u[d - 1]}
    BY <1>4, <1>5 DEF DepthStep
  <2>2. QED  BY <2>1
<1>8. GoesDown(list, depth, u)
  BY <1>1, <1>6, <1>7 DEF GoesDown
<1>9. QED  BY <1>8

\* The requests of a list, deep enough, are those of all its resources.
LEMMA AllRequestsAre ==
    ASSUME NEW f, Reads(f), NEW list \in Nodes, ResourcesAccepted(list),
           NEW depth \in Nat, Height[list] <= depth
    PROVE  \A r : r \in Requests(f[list], depth) <=> \E n \in Nested(list) : r = ResourceOf(n, f)
<1> DEFINE R(n) == ResourceOf(n, f)
<1>1. PICK u : GoesDown(f[list], depth, u)
  BY RequestsGoDown
<1>2. /\ Requests(f[list], depth) = u[depth]
      /\ \A r : r \in u[0] <=> r \in Range(f[list])
      /\ \A d \in 1 .. depth : \A r : r \in u[d] <=> \E q \in u[d - 1] : r = q \/ r \in Range(q.with)
  BY <1>1 DEF GoesDown
<1>3. \A m \in Nodes : ResourcesAccepted(m) =>
          \A r : r \in Range(f[m]) <=> \E i \in DOMAIN m.items : r = R(m.items[i])
  <2>1. \A m \in Nodes : ResourcesAccepted(m) => m.kind = "seq"
    BY ResourcesAcceptedIs
  <2>2. QED  BY <2>1, ReadFrom
<1>4. \A n : R(n).with = IF Has(n, "with") THEN f[n.at["with"]] ELSE <<>>
  BY DEF ResourceOf
<1>5. Range(<<>>) = {}
  BY DEF Range
<1>6. \A n : Has(n, "with") => Range(R(n).with) = Range(f[n.at["with"]])
  BY <1>4
<1>7. \A n : ~Has(n, "with") => Range(R(n).with) = {}
  BY <1>4, <1>5
<1> HIDE DEF R
<1>8. \A d \in 0 .. depth : \A r \in u[d] : \E n \in Nested(list) : r = R(n)
  <2> DEFINE N == {d \in Nat : d <= depth => \A r \in u[d] : \E n \in Nested(list) : r = R(n)}
  <2>1. 0 \in N
    <3>1. \A i \in DOMAIN list.items : list.items[i] \in Nested(list)
      BY NestedIs, ResourcesAcceptedIs
    <3>2. \A r \in u[0] : \E n \in Nested(list) : r = R(n)
      BY <1>2, <1>3, <3>1
    <3>3. QED  BY <3>2
  <2>2. ASSUME NEW d \in Nat, d \in N PROVE d + 1 \in N
    <3> SUFFICES ASSUME d + 1 <= depth, NEW r \in u[d + 1]
                 PROVE  \E n \in Nested(list) : r = R(n)
      OBVIOUS
    <3>1. d + 1 \in 1 .. depth /\ (d + 1) - 1 = d /\ d <= depth
      OBVIOUS
    <3>2. PICK q \in u[d] : r = q \/ r \in Range(q.with)
      BY <1>2, <3>1
    <3>3. PICK n \in Nested(list) : q = R(n)
      BY <2>2, <3>1
    <3>4. CASE r = q
      BY <3>3, <3>4
    <3>5. CASE r \in Range(q.with)
      <4>1. Has(n, "with")
        BY <1>7, <3>3, <3>5
      <4> DEFINE w == n.at["with"]
      <4>2. /\ w \in Nodes /\ ResourcesAccepted(w)
            /\ \A i \in DOMAIN w.items : w.items[i] \in Nested(list)
        BY <4>1, NestedCloses
      <4>3. r \in Range(f[w])
        BY <1>6, <3>3, <3>5, <4>1
      <4> HIDE DEF w
      <4>4. PICK i \in DOMAIN w.items : r = R(w.items[i])
        BY <1>3, <4>2, <4>3
      <4>5. QED  BY <4>2, <4>4
    <3>6. QED  BY <3>2, <3>4, <3>5
  <2>3. \A d \in Nat : d \in N
    <3> HIDE DEF N
    <3>1. QED  BY <2>1, <2>2, SetInduction
  <2>4. QED  BY <2>3
<1>9. \A d \in 0 .. depth : \A r \in u[d] : r \in u[depth]
  <2> DEFINE N == {k \in Nat : \A d \in 0 .. depth : depth - d = k => \A r \in u[d] : r \in u[depth]}
  <2>1. 0 \in N
    <3>1. \A d \in 0 .. depth : depth - d = 0 => d = depth
      OBVIOUS
    <3>2. QED  BY <3>1
  <2>2. ASSUME NEW k \in Nat, k \in N PROVE k + 1 \in N
    <3> SUFFICES ASSUME NEW d \in 0 .. depth, depth - d = k + 1, NEW r \in u[d]
                 PROVE  r \in u[depth]
      OBVIOUS
    <3>1. d + 1 \in 1 .. depth /\ (d + 1) - 1 = d /\ d + 1 \in 0 .. depth /\ depth - (d + 1) = k
      OBVIOUS
    <3>2. r \in u[d + 1]
      BY <1>2, <3>1
    <3>3. QED  BY <2>2, <3>1, <3>2
  <2>3. \A k \in Nat : k \in N
    <3> HIDE DEF N
    <3>1. QED  BY <2>1, <2>2, SetInduction
  <2>4. ASSUME NEW d \in 0 .. depth PROVE \A r \in u[d] : r \in u[depth]
    <3>1. depth - d \in Nat
      OBVIOUS
    <3>2. depth - d \in N
      BY <2>3, <3>1
    <3>3. QED  BY <3>2
  <2>5. QED  BY <2>4
<1> DEFINE Good(m) ==
               ResourcesAccepted(m) =>
                   \A d \in 0 .. depth :
                       /\ d + Height[m] <= depth
                       /\ \A r : r \in Range(f[m]) => r \in u[d]
                       => \A n \in Nested(m) : R(n) \in u[depth]
           S == {m \in Nodes : Good(m)}
<1>10. ASSUME NEW m \in Nodes, \A k \in Nodes : Height[k] < Height[m] => k \in S,
              ResourcesAccepted(m), NEW d \in 0 .. depth, d + Height[m] <= depth,
              \A r : r \in Range(f[m]) => r \in u[d], NEW n \in Nested(m)
       PROVE  R(n) \in u[depth]
  <2>1. m.kind = "seq"
    BY <1>10, ResourcesAcceptedIs
  <2>2. PICK i \in DOMAIN m.items :
            \/ n = m.items[i]
            \/ Has(m.items[i], "with") /\ n \in Nested(m.items[i].at["with"])
    BY <1>10, NestedIs
  <2> DEFINE k == m.items[i]
             w == k.at["with"]
  <2>3. R(k) \in u[d]
    BY <1>3, <1>10
  <2>4. CASE n = k
    BY <1>9, <2>3, <2>4
  <2>5. CASE Has(k, "with") /\ n \in Nested(w)
    <3>1. k \in Nodes /\ Height[k] < Height[m]
      BY <2>1, PartsAreNodes
    <3>2. w \in Nodes /\ Height[w] < Height[k] /\ ResourcesAccepted(w)
      <4>1. w \in Nodes /\ Height[w] < Height[k]
        BY <2>5, <3>1, PartsAreNodes
      <4>2. ResourcesAccepted(w)
        BY <1>10, <2>5, ResourcesAcceptedIs
      <4>3. QED  BY <4>1, <4>2
    <3>3. Height[w] \in Nat /\ Height[k] \in Nat /\ Height[m] \in Nat
      BY <3>1, <3>2, HeightAssumption
    <3> HIDE DEF k
    <3>4. \A r : r \in Range(f[w]) => r \in Range(R(k).with)
      BY <1>6, <2>5
    <3> HIDE DEF w, S, Good
    <3>5. /\ d + 1 \in 1 .. depth /\ (d + 1) - 1 = d /\ d + 1 \in 0 .. depth
          /\ (d + 1) + Height[w] <= depth /\ Height[w] < Height[m]
      BY <1>10, <3>1, <3>2, <3>3
    <3>6. \A r : r \in Range(f[w]) => r \in u[d + 1]
      BY <1>2, <2>3, <3>4, <3>5
    <3>7. Good(w)
      BY <1>10, <3>2, <3>5 DEF S
    <3>8. QED  BY <2>5, <3>2, <3>5, <3>6, <3>7 DEF Good
  <2>6. QED  BY <2>2, <2>4, <2>5
<1>11. \A m \in Nodes : (\A k \in Nodes : Height[k] < Height[m] => k \in S) => Good(m)
  BY <1>10
<1> HIDE DEF Good
<1>12. \A m \in Nodes : (\A k \in Nodes : Height[k] < Height[m] => k \in S) => m \in S
  BY <1>11
<1>13. list \in S
  <2> HIDE DEF S
  <2>1. QED  BY <1>12, HeightInduction
<1>14. \A n \in Nested(list) : R(n) \in u[depth]
  <2>1. 0 \in 0 .. depth /\ 0 + Height[list] <= depth
    BY HeightAssumption
  <2>2. QED  BY <1>2, <1>13, <2>1 DEF Good
<1>15. depth \in 0 .. depth
  OBVIOUS
<1>16. QED  BY <1>2, <1>8, <1>14, <1>15 DEF R

\* The call of select_count: its limit, and how its loop stands.
LEMMA LimitIs ==
    ASSUME NEW c, CountShape(c), NEW quantity \in Nat
    PROVE  /\ Min({c.max, quantity}) \in Nat /\ Min({quantity, c.max}) = Min({c.max, quantity})
           /\ \A x \in Nat : x <= Min({c.max, quantity}) <=> x <= c.max /\ x <= quantity
<1> DEFINE a == c.max
           limit == Min({a, quantity})
<1>1. a \in Nat
  BY DEF CountShape
<1>2. {a, quantity} \in SUBSET Nat /\ {a, quantity} # {} /\ {quantity, a} = {a, quantity}
  BY <1>1
<1> HIDE DEF a
<1>3. limit \in {a, quantity} /\ \A x \in {a, quantity} : limit <= x
  BY <1>2, LeastElement
<1> HIDE DEF limit
<1>4. limit \in Nat /\ limit <= a /\ limit <= quantity /\ (limit = a \/ limit = quantity)
  BY <1>1, <1>3
<1>5. \A x \in Nat : x <= limit <=> x <= a /\ x <= quantity
  BY <1>1, <1>4
<1>6. QED  BY <1>2, <1>4, <1>5 DEF limit, a

LEMMA GrownType ==
    ASSUME NEW c, CountShape(c), ~SmallPowerOf(c), NEW q \in Nat
    PROVE  Grown(c, q) \in Int
<1> DEFINE n == c.operand
<1>1. n \in Int /\ c.oper \in {"+", "*", "^"}
  BY DEF CountShape
<1>2. CASE c.oper = "+"
  <2>1. Grown(c, q) = q + n
    BY <1>2 DEF Grown
  <2> HIDE DEF n
  <2>2. QED  BY <1>1, <2>1
<1>3. CASE c.oper = "*"
  <2>1. Grown(c, q) = q * n
    BY <1>3 DEF Grown
  <2> HIDE DEF n
  <2>2. QED  BY <1>1, <2>1
<1>4. CASE c.oper = "^"
  <2>1. Grown(c, q) = Power(q, n)
    BY <1>4 DEF Grown
  <2>2. n \in Nat
    BY <1>1, <1>4 DEF SmallPowerOf
  <2> HIDE DEF n
  <2>3. Power(q, n) \in Nat
    BY <2>2, PowerType
  <2>4. QED  BY <2>1, <2>3
<1>5. QED  BY <1>1, <1>2, <1>3, <1>4

\* Where the loop stands: what it has passed leads to where it will end.
LoopAt(c, limit, at, last) ==
    \E p : /\ LastsOf(c, limit, p) /\ LastWithin(c, limit) = p[c.min]
           /\ at \in Nat /\ at >= c.min
           /\ at <= limit => p[at] = p[c.min]
           /\ at > limit => last = p[c.min]

LEMMA LoopBegins ==
    ASSUME NEW c, Countable(c), ~SmallPowerOf(c), NEW limit \in Nat, c.min <= limit, NEW last
    PROVE  LoopAt(c, limit, c.min, last)
<1>1. c.min \in Nat
  BY DEF Countable, CountShape
<1>2. PICK p : LastWithin(c, limit) = p[c.min] /\ LastsOf(c, limit, p)
  BY LastIs DEF SmallPowerOf
<1> DEFINE m == c.min
<1>3. m \in Nat /\ m >= m /\ ~ (m > limit)
  BY <1>1
<1>4. QED  BY <1>2, <1>3 DEF LoopAt

LEMMA LoopGoesOn ==
    ASSUME NEW c, Countable(c), ~SmallPowerOf(c), NEW limit \in Nat,
           NEW at, at <= limit, NEW last, LoopAt(c, limit, at, last)
    PROVE  LoopAt(c, limit, Grown(c, at), at)
<1>1. PICK p : /\ LastsOf(c, limit, p) /\ LastWithin(c, limit) = p[c.min]
               /\ at \in Nat /\ at >= c.min
               /\ at <= limit => p[at] = p[c.min]
  BY DEF LoopAt
<1> DEFINE next == Grown(c, at)
<1>2. c.min \in Nat
  BY DEF Countable, CountShape
<1>3. next \in Nat /\ next > at
  BY <1>1, GrownGrows DEF SmallPowerOf
<1>4. at \in c.min .. limit
  BY <1>1, <1>2
<1>5. p[at] = (IF next > limit THEN at ELSE p[next]) /\ p[at] = p[c.min]
  BY <1>1, <1>4 DEF LastsOf
<1> DEFINE m == c.min
<1> HIDE DEF next, m
<1>6. next >= m
  BY <1>1, <1>2, <1>3 DEF m
<1>7. next <= limit => p[next] = p[m]
  BY <1>3, <1>5 DEF m
<1>8. next > limit => at = p[m]
  BY <1>5 DEF m
<1>9. QED  BY <1>1, <1>3, <1>6, <1>7, <1>8 DEF LoopAt, next, m

-----------------------------------------------------------------------------
(* Every state of a command. *)

Group == [score : Nat, count : Nat \ {0}]
Selections == [groups : Seq(Group), needs : Seq(Nat)]

\* The jobspec is there once it is parsed, and only if it is accepted.
Parsed ==
    /\ stage \in {"parse", "rejected"} => jobspec = NoJobspec
    /\ stage = "rejected" => ~JobspecAccepted(submission.document)
    /\ stage \notin {"parse", "rejected"} =>
           jobspec = JobspecOf(submission.document) /\ JobspecAccepted(submission.document)

\* The call of select_count returns what the operator says.
Counts ==
    /\ AcceptedCount(request) /\ qc \in Nat
    /\ cur \in 0 .. Word - 1 /\ count \in 0 .. Word - 1 /\ returned \in BOOLEAN
    /\ count <= qc
    /\ ~returned /\ (TooFew \/ SmallPower) => cur = request.min
    /\ ~returned /\ TooFew => count = 0
    /\ Grows(request) /\ Fits(request, qc) =>
           /\ returned => count = SelectCount(request, qc)
           /\ ~returned /\ ~TooFew /\ ~SmallPower => LoopAt(request, Min({request.max, qc}), cur, count)

\* What the policy has chosen for the k-th request, for the quantity n.
ChosenFor(k, n) ==
    /\ n \in Nat \ {0} /\ n <= Total(CandidatesOf(k))
    /\ chosen[k].groups = BestK(Ranked(submission.policy, SeenUpTo(k), CandidatesOf(k)), n)
    /\ chosen[k].needs = Needs(chosen[k].groups, n)
    /\ Grows(Request(k).count) /\ Fits(Request(k).count, Total(CandidatesOf(k))) =>
           n = SelectCount(Request(k).count, Total(CandidatesOf(k)))

Turns ==
    /\ duration \in 0 .. LongWord - 1
    /\ chosen \in Seq(Selections) /\ at_request = Len(chosen) + 1
    /\ stage \in {"parse", "run", "prune", "rejected"} => chosen = <<>>
    /\ DOMAIN chosen \subseteq DOMAIN jobspec.resources
    /\ stage = "prune" => jobspec.resources # <<>>
    /\ stage \in {"select", "count"} => at_request \in DOMAIN jobspec.resources
    /\ stage = "count" => request = Request(at_request).count /\ qc = Total(CandidatesOf(at_request))
    /\ \A k \in DOMAIN chosen : \E n \in Nat : ChosenFor(k, n)

Stages ==
    stage \in {"parse", "run", "prune", "select", "count", "rejected", "unmet", "met", "undefined"}

IInv == submission \in Submissions /\ Stages /\ Parsed /\ Counts /\ Turns

LEMMA CandidatesType ==
    ASSUME submission \in Submissions, NEW k
    PROVE  /\ CandidatesOf(k) \in Seq(Group) /\ IsInjective(CandidatesOf(k))
           /\ \A i \in DOMAIN CandidatesOf(k) :
                  CandidatesOf(k)[i].score \in Nat /\ CandidatesOf(k)[i].count \in Nat \ {0}
           /\ Total(CandidatesOf(k)) \in Nat
<1> DEFINE groups == CandidatesOf(k)
<1>1. groups \in Seq(Group) /\ IsInjective(groups)
  <2>1. CASE Request(k).type \in DOMAIN submission.candidates
    BY <2>1, SubmissionAssumption DEF CandidatesOf, Group
  <2>2. CASE Request(k).type \notin DOMAIN submission.candidates
    <3>1. groups = <<>>
      BY <2>2 DEF CandidatesOf
    <3>2. IsInjective(<<>>)
      BY DEF IsInjective
    <3>3. QED  BY <3>1, <3>2, EmptySeq
  <2>3. QED  BY <2>1, <2>2
<1> HIDE DEF groups
<1>2. \A i \in DOMAIN groups : groups[i] \in Group
  BY <1>1, SeqMeans
<1>3. \A i \in DOMAIN groups : groups[i].score \in Nat /\ groups[i].count \in Nat \ {0}
  BY <1>2 DEF Group
<1>4. \A i \in DOMAIN groups : groups[i].count \in Nat
  BY <1>3
<1>5. Total(groups) \in Nat
  BY <1>1, <1>4, TotalType
<1>6. QED  BY <1>1, <1>3, <1>5 DEF groups

LEMMA SeenType ==
    ASSUME submission \in Submissions, NEW k \in Nat, k >= 1
    PROVE  SeenUpTo(k) \in SUBSET Nat /\ Scores(CandidatesOf(k)) \subseteq SeenUpTo(k)
<1>1. \A q : Scores(CandidatesOf(q)) \subseteq Nat
  BY CandidatesType DEF Scores
<1>2. k \in 1 .. k
  OBVIOUS
<1>3. QED  BY <1>1, <1>2 DEF SeenUpTo

\* The requests of an accepted document.
LEMMA RequestsOfAccepted ==
    ASSUME NEW d \in Nodes, JobspecAccepted(d)
    PROVE  /\ d.at["resources"] \in Nodes /\ Height[d.at["resources"]] < Height[d]
           /\ ResourcesAccepted(d.at["resources"])
           /\ Len(JobspecOf(d).resources) \in Nat
           /\ DOMAIN JobspecOf(d).resources = 1 .. Len(JobspecOf(d).resources)
           /\ \A k \in DOMAIN JobspecOf(d).resources : AcceptedCount(JobspecOf(d).resources[k].count)
<1> DEFINE list == d.at["resources"]
           rs == JobspecOf(d).resources
<1>1. Has(d, "resources") /\ ResourcesAccepted(list)
  BY DEF JobspecAccepted, Has
<1>2. list \in Nodes /\ Height[list] < Height[d]
  BY <1>1, PartsAreNodes
<1>3. PICK f : Reads(f)
  BY ResourcesOfReads
<1>4. rs = f[list]
  BY <1>3 DEF JobspecOf, Reads
<1> HIDE DEF list, rs
<1>5. list.kind = "seq" /\ \A i \in DOMAIN list.items : ResourceAlone(list.items[i])
  BY <1>1, <1>2, ResourcesAcceptedIs
<1>6. /\ DOMAIN rs = DOMAIN list.items
      /\ \A i \in DOMAIN list.items : rs[i] = ResourceOf(list.items[i], f)
      /\ Len(rs) \in Nat /\ DOMAIN rs = 1 .. Len(rs)
  BY <1>2, <1>3, <1>4, <1>5, ReadFrom
<1>7. ASSUME NEW k \in DOMAIN rs PROVE AcceptedCount(rs[k].count)
  <2> DEFINE n == list.items[k]
  <2>1. n \in Nodes /\ ResourceAlone(n)
    BY <1>2, <1>5, <1>6, PartsAreNodes
  <2>2. rs[k].count = CountOf(n.at["count"])
    BY <1>6 DEF ResourceOf
  <2> HIDE DEF n
  <2>3. Has(n, "count") /\ CountAccepted(n.at["count"])
    BY <2>1 DEF ResourceAlone
  <2>4. QED  BY <2>1, <2>2, <2>3, PartsAreNodes, CountOfAccepted
<1>8. QED  BY <1>1, <1>2, <1>6, <1>7 DEF list, rs

-----------------------------------------------------------------------------
(* A call of select_count. *)

LEMMA CallCounts ==
    ASSUME NEW r, AcceptedCount(r), NEW quantity \in Nat, Call(r, quantity)
    PROVE  Counts'
<1>1. /\ request' = r /\ qc' = quantity /\ cur' = r.min /\ count' = 0 /\ returned' = FALSE
  BY DEF Call
<1> DEFINE limit == Min({r.max, quantity})
<1>2. CountShape(r) /\ r.min \in 0 .. Word - 1 /\ 0 \in 0 .. Word - 1 /\ 0 <= quantity
  <2>1. CountShape(r) /\ r.min < Word
    BY DEF AcceptedCount
  <2>2. r.min \in Nat
    BY <2>1 DEF CountShape
  <2> DEFINE m == r.min
  <2> HIDE DEF m
  <2>3. m \in 0 .. Word - 1 /\ 0 \in 0 .. Word - 1 /\ 0 <= quantity
    BY <2>1, <2>2, WordAssumption DEF m
  <2>4. QED  BY <2>1, <2>3 DEF m
<1>3. ASSUME Grows(r), ~ (r.min > r.max \/ r.min > quantity), ~ (r.oper = "^" /\ r.operand < 2)
      PROVE  LoopAt(r, limit, r.min, 0)
  <2>1. limit \in Nat /\ (r.min \in Nat => (r.min <= limit <=> r.min <= r.max /\ r.min <= quantity))
    BY <1>2, LimitIs
  <2>2. r.min \in Nat /\ r.max \in Nat
    BY <1>2 DEF CountShape
  <2>3. r.min <= limit
    BY <1>3, <2>1, <2>2
  <2>4. Countable(r) /\ ~SmallPowerOf(r)
    BY <1>2, <1>3 DEF Countable, SmallPowerOf
  <2> HIDE DEF limit
  <2>5. QED  BY <2>1, <2>3, <2>4, LoopBegins
<1>4. (TooFew' <=> r.min > r.max \/ r.min > quantity) /\ (SmallPower' <=> r.oper = "^" /\ r.operand < 2)
  BY <1>1 DEF TooFew, SmallPower
<1> HIDE DEF limit
<1>5. Grows(request') /\ Fits(request', qc') =>
          /\ returned' => count' = SelectCount(request', qc')
          /\ ~returned' /\ ~TooFew' /\ ~SmallPower' => LoopAt(request', Min({request'.max, qc'}), cur', count')
  BY <1>1, <1>3, <1>4 DEF limit
<1>6. QED  BY <1>1, <1>2, <1>5 DEF Counts

LEMMA LoopStepCounts ==
    ASSUME Counts, LoopStep
    PROVE  Counts' /\ request' = request /\ qc' = qc
<1> DEFINE c == request
           limit == Min({c.max, qc})
<1>1. /\ AcceptedCount(c) /\ CountShape(c) /\ qc \in Nat
      /\ c.min \in Nat /\ c.max \in Nat /\ c.min < Word /\ c.min <= c.max
  BY DEF Counts, AcceptedCount, CountShape
<1>2. /\ limit \in Nat /\ Min({qc, c.max}) = limit
      /\ \A x \in Nat : x <= limit <=> x <= c.max /\ x <= qc
  BY <1>1, LimitIs
<1>3. TooFew <=> c.min > limit
  <2>1. TooFew <=> ~ (c.min <= c.max /\ c.min <= qc)
    BY <1>1 DEF TooFew
  <2>2. QED  BY <1>1, <1>2, <2>1
<1>4. cur \in Nat /\ (Within <=> cur <= limit)
  <2>1. cur \in Nat
    BY WordAssumption DEF Counts
  <2>2. QED  BY <1>2, <2>1 DEF Within
<1>5. SmallPower <=> SmallPowerOf(c)
  BY DEF SmallPower, SmallPowerOf
<1>6. CASE Refuse
  <2>1. /\ ~returned /\ TooFew /\ returned' = TRUE
        /\ request' = request /\ qc' = qc /\ cur' = cur /\ count' = count
    BY <1>6 DEF Refuse
  <2>2. count = 0
    BY <2>1 DEF Counts
  <2>3. SelectCount(request, qc) = 0
    <3> HIDE DEF limit
    <3>1. QED  BY <1>1, <1>2, <1>3, <2>1 DEF SelectCount
  <2>4. QED  BY <2>1, <2>2, <2>3 DEF Counts
<1>7. CASE TakeMin
  <2>1. /\ ~returned /\ ~TooFew /\ SmallPower /\ returned' = TRUE /\ count' = cur
        /\ request' = request /\ qc' = qc /\ cur' = cur
    BY <1>7 DEF TakeMin
  <2>2. cur = c.min
    BY <2>1 DEF Counts
  <2>3. SelectCount(request, qc) = c.min
    <3> HIDE DEF limit
    <3>1. ~ (c.min > limit) /\ c.min <= limit
      BY <1>1, <1>2, <1>3, <2>1
    <3>2. QED  BY <1>2, <2>1, <3>1 DEF SelectCount, SmallPower
  <2>4. cur <= qc
    BY <1>1, <2>1, <2>2 DEF TooFew
  <2>5. QED  BY <2>1, <2>2, <2>3, <2>4 DEF Counts
<1>8. CASE Round
  <2>1. /\ ~returned /\ ~TooFew /\ ~SmallPower /\ Within
        /\ count' = cur /\ cur' = Grown(c, cur) % Word
        /\ request' = request /\ qc' = qc /\ returned' = returned
    BY <1>8 DEF Round
  <2>2. Grown(c, cur) \in Int
    BY <1>1, <1>4, <1>5, <2>1, GrownType
  <2>3. cur' \in 0 .. Word - 1
    BY <2>1, <2>2, WordAssumption
  <2>4. cur <= qc /\ cur <= limit
    BY <1>4, <2>1 DEF Within
  <2>5. ASSUME Grows(c), Fits(c, qc)
        PROVE  LoopAt(c, limit, cur', count')
    <3>1. LoopAt(c, limit, cur, count)
      BY <2>1, <2>5 DEF Counts
    <3>2. cur >= c.min
      BY <3>1 DEF LoopAt
    <3>3. Grown(c, cur) < Word
      <4>1. cur \in c.min .. limit
        BY <1>1, <1>2, <1>4, <2>4, <3>2
      <4>2. QED  BY <2>1, <2>5, <4>1 DEF Fits, SmallPower
    <3>4. Countable(c) /\ ~SmallPowerOf(c)
      BY <1>1, <1>5, <2>1, <2>5 DEF Countable
    <3>5. Grown(c, cur) \in Nat
      BY <1>4, <3>2, <3>4, GrownGrows DEF SmallPowerOf
    <3>6. cur' = Grown(c, cur)
      BY <2>1, <3>3, <3>5, WordAssumption
    <3> HIDE DEF c, limit
    <3>7. LoopAt(c, limit, Grown(c, cur), cur)
      BY <1>2, <2>4, <3>1, <3>4, LoopGoesOn
    <3>8. QED  BY <2>1, <3>6, <3>7
  <2>6. ~TooFew' /\ ~SmallPower'
    BY <2>1 DEF TooFew, SmallPower
  <2>7. QED  BY <2>1, <2>3, <2>4, <2>5, <2>6 DEF Counts
<1>9. CASE Leave
  <2>1. /\ ~returned /\ ~TooFew /\ ~SmallPower /\ ~Within /\ returned' = TRUE
        /\ request' = request /\ qc' = qc /\ cur' = cur /\ count' = count
    BY <1>9 DEF Leave
  <2>2. ASSUME Grows(c), Fits(c, qc)
        PROVE  count = SelectCount(c, qc)
    <3>1. LoopAt(c, limit, cur, count)
      BY <2>1, <2>2 DEF Counts
    <3>2. cur > limit
      BY <1>2, <1>4, <2>1
    <3>3. count = LastWithin(c, limit)
      BY <3>1, <3>2 DEF LoopAt
    <3> HIDE DEF limit, c
    <3>4. ~ (c.min > limit) /\ ~ (c.oper = "^" /\ c.operand < 2)
      BY <1>3, <2>1 DEF SmallPower, c
    <3>5. SelectCount(c, qc) = LastWithin(c, limit)
      BY <1>2, <3>4 DEF SelectCount
    <3>6. QED  BY <3>3, <3>5
  <2>3. QED  BY <2>1, <2>2 DEF Counts
<1>10. QED  BY <1>6, <1>7, <1>8, <1>9 DEF LoopStep

-----------------------------------------------------------------------------
(* Every step of a command. *)

LEMMA InitKeeps == Init => IInv
<1> SUFFICES ASSUME Init PROVE IInv
  OBVIOUS
<1>1. /\ submission \in Submissions /\ stage = "parse" /\ jobspec = NoJobspec
      /\ duration = DefaultDuration /\ at_request = 1 /\ chosen = <<>>
      /\ request = [min |-> 0, max |-> 0, oper |-> "+", operand |-> 1]
      /\ qc = 0 /\ cur = 0 /\ count = 0 /\ returned = TRUE
  BY DEF Init, Idle
<1>2. AcceptedCount(request) /\ Grows(request)
  BY <1>1, WordAssumption DEF AcceptedCount, CountShape, Grows
<1>3. 0 \in 0 .. Word - 1
  BY WordAssumption
<1>4. SelectCount(request, qc) = 0
  <2>1. Countable(request) /\ 0 \in Nat
    BY <1>2 DEF Countable, AcceptedCount
  <2>2. SelectCount(request, 0) \in 0 .. 0
    BY <2>1, SelectsWhatQualifies
  <2>3. QED  BY <1>1, <2>2
<1>5. Counts
  BY <1>1, <1>2, <1>3, <1>4 DEF Counts
<1>6. Turns
  <2>1. <<>> \in Seq(Selections) /\ Len(<<>>) = 0
    BY EmptySeq
  <2>2. duration \in 0 .. LongWord - 1
    BY <1>1, SubmissionAssumption
  <2>3. DOMAIN chosen = {}
    BY <1>1
  <2>4. at_request = Len(chosen) + 1
    BY <1>1, <2>1
  <2>5. QED  BY <1>1, <2>1, <2>2, <2>3, <2>4 DEF Turns
<1>7. QED  BY <1>1, <1>5, <1>6 DEF IInv, Stages, Parsed

LEMMA SameJob ==
    ASSUME UNCHANGED <<submission, jobspec>>
    PROVE  \A k : /\ Request(k)' = Request(k) /\ CandidatesOf(k)' = CandidatesOf(k)
                  /\ SeenUpTo(k)' = SeenUpTo(k)
BY DEF Request, CandidatesOf, SeenUpTo

LEMMA SameChoices ==
    ASSUME UNCHANGED <<submission, jobspec, chosen>>, \A k \in DOMAIN chosen : \E n \in Nat : ChosenFor(k, n)
    PROVE  (\A k \in DOMAIN chosen : \E n \in Nat : ChosenFor(k, n))'
<1>1. \A k, n : ChosenFor(k, n)' <=> ChosenFor(k, n)
  BY SameJob DEF ChosenFor
<1>2. QED  BY <1>1

\* What is chosen for a request holds what select_count has returned.
LEMMA ChoiceIs ==
    ASSUME IInv, stage = "count", returned, count > 0
    PROVE  LET k == at_request
               groups == BestK(Ranked(submission.policy, SeenUpTo(k), CandidatesOf(k)), count)
           IN  [groups |-> groups, needs |-> Needs(groups, count)] \in Selections
<1> DEFINE k == at_request
           cands == CandidatesOf(k)
           ranked == Ranked(submission.policy, SeenUpTo(k), cands)
           groups == BestK(ranked, count)
           needs == Needs(groups, count)
<1>1. submission \in Submissions /\ submission.policy \in {"high", "low", "locality"}
  BY SubmissionAssumption DEF IInv
<1>2. k \in Nat /\ k >= 1
  <2>1. Len(chosen) \in Nat /\ k = Len(chosen) + 1
    BY SeqMeans DEF IInv, Turns
  <2>2. QED  BY <2>1
<1>3. SeenUpTo(k) \in SUBSET Nat /\ Scores(cands) \subseteq SeenUpTo(k)
  BY <1>1, <1>2, SeenType
<1>4. cands \in Seq(Group) /\ \A i \in DOMAIN cands : cands[i].score \in Nat
  BY <1>1, CandidatesType
<1>5. count \in Nat \ {0} /\ count <= Total(cands)
  <2>1. count \in 0 .. Word - 1 /\ count <= qc /\ qc = Total(cands)
    BY DEF IInv, Counts, Turns
  <2>2. QED  BY <2>1, WordAssumption
<1>6. \A i \in DOMAIN cands : cands[i].score \in Nat /\ cands[i].count \in Nat \ {0}
  BY <1>1, CandidatesType
<1>7. groups \in Seq(Group) /\ needs \in Seq(Nat)
  <2> DEFINE seen == SeenUpTo(k)
             policy == submission.policy
  <2>1. seen \in SUBSET Nat /\ Scores(cands) \subseteq seen /\ policy \in {"high", "low", "locality"}
    BY <1>1, <1>3
  <2> HIDE DEF seen, policy, cands
  <2>2. /\ BestK(Ranked(policy, seen, cands), count) \in Seq(Group)
        /\ Needs(BestK(Ranked(policy, seen, cands), count), count) \in Seq(Nat)
    BY <1>4, <1>5, <1>6, <2>1, BestChooses
  <2>3. QED  BY <2>2 DEF seen, policy, cands
<1>8. QED  BY <1>7 DEF Selections

LEMMA ChooseBestKeeps ==
    ASSUME IInv, ChooseBest
    PROVE  IInv'
<1> DEFINE k == at_request
           groups == BestK(Ranked(submission.policy, SeenUpTo(k), CandidatesOf(k)), count)
           choice == [groups |-> groups, needs |-> Needs(groups, count)]
<1>1. /\ stage = "count" /\ returned /\ count > 0
      /\ chosen' = Append(chosen, choice) /\ at_request' = k + 1
      /\ stage' = IF k < Len(jobspec.resources) THEN "select" ELSE "met"
      /\ UNCHANGED <<submission, jobspec, duration>> /\ UNCHANGED call
  BY DEF ChooseBest
<1>2. choice \in Selections
  BY <1>1, ChoiceIs
<1> HIDE DEF choice
<1>3. chosen \in Seq(Selections) /\ k = Len(chosen) + 1 /\ Len(chosen) \in Nat /\ DOMAIN chosen = 1 .. Len(chosen)
  <2>1. chosen \in Seq(Selections) /\ k = Len(chosen) + 1
    BY DEF IInv, Turns
  <2>2. QED  BY <2>1, SeqMeans
<1> DEFINE next == Append(chosen, choice)
<1>4. /\ next \in Seq(Selections) /\ Len(next) = Len(chosen) + 1
      /\ \A i \in 1 .. Len(chosen) : next[i] = chosen[i]
      /\ next[k] = choice
  BY <1>2, <1>3, AppendProperties
<1>5. chosen' = next
  BY <1>1
<1> HIDE DEF next
<1>6. DOMAIN next = 1 .. k
  BY <1>3, <1>4, SeqMeans
<1>7. \A q : /\ Request(q)' = Request(q) /\ CandidatesOf(q)' = CandidatesOf(q)
             /\ SeenUpTo(q)' = SeenUpTo(q)
  BY <1>1, SameJob
<1>8. ASSUME NEW q \in 1 .. k PROVE \E n \in Nat : ChosenFor(q, n)'
  <2>1. CASE q = k
    <3>1. count \in Nat \ {0} /\ count <= Total(CandidatesOf(k))
      <4>1. count \in 0 .. Word - 1 /\ count <= qc /\ qc = Total(CandidatesOf(k))
        BY <1>1 DEF IInv, Counts, Turns
      <4>2. QED  BY <1>1, <4>1, WordAssumption
    <3>2. Grows(Request(k).count) /\ Fits(Request(k).count, Total(CandidatesOf(k))) =>
              count = SelectCount(Request(k).count, Total(CandidatesOf(k)))
      <4>1. request = Request(k).count /\ qc = Total(CandidatesOf(k))
        BY <1>1 DEF IInv, Turns
      <4>2. QED  BY <1>1, <4>1 DEF IInv, Counts
    <3>3. next[k].groups = groups /\ next[k].needs = Needs(groups, count)
      BY <1>4 DEF choice
    <3>4. submission' = submission
      BY <1>1
    <3>5. PICK n : n = count
      OBVIOUS
    <3> HIDE DEF groups
    <3>6. groups = BestK(Ranked(submission.policy, SeenUpTo(k), CandidatesOf(k)), n)
      BY <3>5 DEF groups
    <3>7. ChosenFor(q, n)'
      <4>1. chosen'[q].groups = groups /\ chosen'[q].needs = Needs(groups, n)
        BY <1>5, <2>1, <3>3, <3>5
      <4>2. n \in Nat \ {0} /\ n <= Total(CandidatesOf(q))'
        BY <1>7, <2>1, <3>1, <3>5
      <4>3. (Grows(Request(q).count) /\ Fits(Request(q).count, Total(CandidatesOf(q))))' =>
                n = SelectCount(Request(q).count, Total(CandidatesOf(q)))'
        BY <1>7, <2>1, <3>2, <3>5
      <4>4. chosen'[q].groups = BestK(Ranked(submission.policy, SeenUpTo(q), CandidatesOf(q)), n)'
        BY <1>7, <2>1, <3>4, <3>6, <4>1
      <4>5. QED  BY <3>6, <4>1, <4>2, <4>3, <4>4 DEF ChosenFor
    <3>8. n \in Nat
      BY <3>1, <3>5
    <3>9. QED  BY <3>7, <3>8
  <2>2. CASE q \in 1 .. Len(chosen)
    <3>1. PICK n \in Nat : ChosenFor(q, n)
      BY <1>3, <2>2 DEF IInv, Turns
    <3>2. chosen'[q] = chosen[q] /\ submission' = submission
      BY <1>1, <1>4, <1>5, <2>2
    <3>3. ChosenFor(q, n)'
      BY <1>7, <3>1, <3>2 DEF ChosenFor
    <3>4. QED  BY <3>3
  <2>3. QED  BY <1>3, <2>1, <2>2
<1>9. (\A q \in DOMAIN chosen : \E n \in Nat : ChosenFor(q, n))'
  BY <1>5, <1>6, <1>8
<1>10. stage' = "select" => at_request' \in DOMAIN jobspec'.resources
  <2> DEFINE rs == jobspec.resources
  <2>1. Len(rs) \in Nat /\ DOMAIN rs = 1 .. Len(rs)
    <3>1. jobspec = JobspecOf(submission.document) /\ JobspecAccepted(submission.document)
      BY <1>1 DEF IInv, Parsed
    <3>2. submission.document \in Nodes
      BY SubmissionAssumption DEF IInv
    <3>3. QED  BY <3>1, <3>2, RequestsOfAccepted
  <2> HIDE DEF rs
  <2>2. k < Len(rs) => k + 1 \in DOMAIN rs
    BY <1>3, <2>1
  <2>3. QED  BY <1>1, <2>2 DEF rs
<1>11. Turns'
  <2>0. DOMAIN chosen' \subseteq DOMAIN jobspec'.resources
    <3>1. DOMAIN chosen \subseteq DOMAIN jobspec.resources /\ k \in DOMAIN jobspec.resources
      BY <1>1 DEF IInv, Turns
    <3>2. 1 .. k = (1 .. Len(chosen)) \cup {k}
      BY <1>3
    <3>3. QED  BY <1>1, <1>3, <1>5, <1>6, <3>1, <3>2
  <2>1. /\ duration' \in 0 .. LongWord - 1
        /\ chosen' \in Seq(Selections) /\ at_request' = Len(chosen') + 1
    BY <1>1, <1>3, <1>4, <1>5 DEF IInv, Turns
  <2>2. stage' \in {"select", "met"}
    BY <1>1
  <2>3. QED  BY <1>9, <1>10, <2>0, <2>1, <2>2 DEF Turns
<1>12. Counts'
  BY <1>1 DEF IInv, Counts, call, TooFew, SmallPower
<1>13. Stages' /\ Parsed' /\ submission' \in Submissions
  BY <1>1 DEF IInv, Stages, Parsed
<1>14. QED  BY <1>11, <1>12, <1>13 DEF IInv

\* A step that leaves the call and the choices alone.
LEMMA CallKept ==
    ASSUME IInv, UNCHANGED call
    PROVE  Counts'
BY DEF IInv, Counts, call, TooFew, SmallPower

LEMMA NextKeeps ==
    ASSUME IInv, [Next]_vars
    PROVE  IInv'
<1>1. submission \in Submissions /\ submission.document \in Nodes
  BY SubmissionAssumption DEF IInv
<1>2. CASE Parse
  <2>1. /\ stage = "parse" /\ JobspecAccepted(submission.document)
        /\ jobspec' = JobspecOf(submission.document) /\ stage' = "run"
        /\ UNCHANGED <<submission, duration, at_request, chosen>> /\ UNCHANGED call
    BY <1>2 DEF Parse
  <2>2. chosen = <<>> /\ DOMAIN chosen = {}
    BY <2>1 DEF IInv, Turns
  <2>3. Turns'
    BY <2>1, <2>2 DEF IInv, Turns
  <2>4. Stages' /\ Parsed'
    BY <2>1 DEF Stages, Parsed
  <2>5. QED  BY <1>1, <2>1, <2>3, <2>4, CallKept DEF IInv
<1>3. CASE ParseError
  <2>1. /\ stage = "parse" /\ ~JobspecAccepted(submission.document) /\ stage' = "rejected"
        /\ UNCHANGED <<submission, jobspec, duration, at_request, chosen>> /\ UNCHANGED call
    BY <1>3 DEF ParseError, rest
  <2>2. Turns'
    BY <2>1, SameChoices DEF IInv, Turns
  <2>3. Stages' /\ Parsed'
    BY <2>1 DEF IInv, Stages, Parsed
  <2>4. QED  BY <1>1, <2>1, <2>2, <2>3, CallKept DEF IInv
<1>4. ASSUME UNCHANGED <<submission, jobspec, duration, at_request, chosen>>, UNCHANGED call,
             stage \notin {"parse", "rejected"}, stage' \in {"unmet", "undefined"}
      PROVE  IInv'
  <2>1. Turns'
    BY <1>4, SameChoices DEF IInv, Turns
  <2>2. Stages' /\ Parsed'
    BY <1>4 DEF IInv, Stages, Parsed
  <2>3. QED  BY <1>1, <1>4, <2>1, <2>2, CallKept DEF IInv
<1>5. CASE RunInvalid
  BY <1>4, <1>5 DEF RunInvalid, rest
<1>6. CASE Build
  <2> DEFINE time == jobspec.attributes["system"]["duration"]
  <2>1. /\ stage = "run" /\ jobspec.resources # <<>> /\ stage' = "prune"
        /\ duration' = (IF "duration" \in DOMAIN jobspec.attributes["system"]
                        THEN Atoll(time) % LongWord ELSE duration)
        /\ UNCHANGED <<submission, jobspec, at_request, chosen>> /\ UNCHANGED call
    BY <1>6 DEF Build
  <2> HIDE DEF time
  <2>2. Atoll(time) \in Int
    <3> DEFINE numbers == {n \in -LongWord .. LongWord : ToString(n) = time}
    <3>1. \A n \in numbers : n \in Int
      BY SubmissionAssumption
    <3>2. Atoll(time) = IF numbers = {} THEN 0 ELSE CHOOSE n \in numbers : TRUE
      BY DEF Atoll
    <3> HIDE DEF numbers
    <3>3. numbers # {} => (CHOOSE n \in numbers : TRUE) \in numbers
      OBVIOUS
    <3>4. QED  BY <3>1, <3>2, <3>3
  <2>3. LongWord \in Nat /\ LongWord > 0
    BY SubmissionAssumption
  <2>4. Atoll(time) % LongWord \in 0 .. LongWord - 1
    BY <2>2, <2>3
  <2>5. duration' \in 0 .. LongWord - 1
    BY <2>1, <2>4 DEF IInv, Turns
  <2>6. Turns'
    BY <2>1, <2>5, SameChoices DEF IInv, Turns
  <2>7. Stages' /\ Parsed'
    BY <2>1 DEF IInv, Stages, Parsed
  <2>8. QED  BY <1>1, <2>1, <2>6, <2>7, CallKept DEF IInv
<1>7. CASE BuildAstray
  BY <1>4, <1>7 DEF BuildAstray, rest
<1>8. CASE PruneRoot
  <2>1. /\ stage = "prune" /\ UNCHANGED <<submission, jobspec, duration, at_request, chosen>> /\ UNCHANGED call
        /\ stage' = CASE duration < 1 -> "unmet"
                      [] duration \in 1 .. PlanEnd -> "select"
                      [] duration > PlanEnd -> "undefined"
    BY <1>8 DEF PruneRoot, rest
  <2>2. duration \in Nat /\ PlanEnd \in Nat
    BY SubmissionAssumption DEF IInv, Turns
  <2>3. stage' \in {"unmet", "select", "undefined"}
    <3>1. duration < 1 \/ duration \in 1 .. PlanEnd \/ duration > PlanEnd
      BY <2>2
    <3>2. QED  BY <2>1, <3>1
  <2>4. CASE stage' = "select"
    <3> DEFINE rs == jobspec.resources
    <3>1. chosen = <<>> /\ rs # <<>> /\ at_request = Len(chosen) + 1
      BY <2>1 DEF IInv, Turns
    <3>2. at_request = 1
      BY <3>1, EmptySeq
    <3>3. 1 \in DOMAIN rs
      <4>1. PICK f : Reads(f)
        BY ResourcesOfReads
      <4> DEFINE d == submission.document
                 list == d.at["resources"]
      <4>2. jobspec = JobspecOf(d) /\ JobspecAccepted(d)
        BY <2>1 DEF IInv, Parsed
      <4>3. rs = f[list] /\ list \in Nodes /\ list.kind = "seq"
        <5>1. list \in Nodes /\ ResourcesAccepted(list)
          BY <1>1, <4>2, RequestsOfAccepted
        <5>2. rs = f[list]
          BY <4>1, <4>2 DEF JobspecOf, Reads
        <5>3. QED  BY <5>1, <5>2, ResourcesAcceptedIs
      <4>4. rs = [i \in DOMAIN list.items |-> ResourceOf(list.items[i], f)]
        BY <4>1, <4>3 DEF Reads, RequestStep
      <4>5. Len(rs) \in Nat /\ DOMAIN rs = 1 .. Len(rs)
        BY <4>1, <4>3, ReadFrom
      <4>6. Len(rs) # 0
        <5>1. ASSUME Len(rs) = 0 PROVE FALSE
          <6>1. DOMAIN rs = {}
            BY <4>5, <5>1
          <6>2. rs = [i \in {} |-> ResourceOf(list.items[i], f)]
            BY <4>4, <6>1
          <6>3. rs = <<>>
            BY <6>2
          <6>4. QED  BY <3>1, <6>3
        <5>2. QED  BY <5>1
      <4> HIDE DEF rs
      <4>7. QED  BY <4>5, <4>6
    <3>4. Turns'
      BY <2>1, <2>4, <3>2, <3>3, SameChoices DEF IInv, Turns
    <3>5. Stages' /\ Parsed'
      BY <2>1, <2>4 DEF IInv, Stages, Parsed
    <3>6. QED  BY <1>1, <2>1, <3>4, <3>5, CallKept DEF IInv
  <2>5. QED  BY <1>4, <2>1, <2>3, <2>4
<1>9. CASE CountCandidates
  <2>1. /\ stage = "select" /\ stage' = "count"
        /\ Call(Request(at_request).count, Total(CandidatesOf(at_request)))
        /\ UNCHANGED <<submission, jobspec, duration, at_request, chosen>>
    BY <1>9 DEF CountCandidates, rest
  <2>2. AcceptedCount(Request(at_request).count)
    <3>1. jobspec = JobspecOf(submission.document) /\ JobspecAccepted(submission.document)
      BY <2>1 DEF IInv, Parsed
    <3>2. at_request \in DOMAIN jobspec.resources
      BY <2>1 DEF IInv, Turns
    <3>3. QED  BY <1>1, <3>1, <3>2, RequestsOfAccepted DEF Request
  <2>3. Total(CandidatesOf(at_request)) \in Nat
    BY <1>1, CandidatesType
  <2>4. Counts'
    BY <2>1, <2>2, <2>3, CallCounts
  <2>5. \A q : Request(q)' = Request(q) /\ CandidatesOf(q)' = CandidatesOf(q)
    BY <2>1, SameJob
  <2>6. Turns'
    <3>1. request' = Request(at_request).count /\ qc' = Total(CandidatesOf(at_request))
      BY <2>1 DEF Call
    <3>2. request' = Request(at_request)'.count /\ qc' = Total(CandidatesOf(at_request)')
      BY <2>1, <2>5, <3>1
    <3>3. QED  BY <2>1, <3>2, SameChoices DEF IInv, Turns
  <2>7. Stages' /\ Parsed'
    BY <2>1 DEF IInv, Stages, Parsed
  <2>8. QED  BY <1>1, <2>1, <2>4, <2>6, <2>7 DEF IInv
<1>10. CASE SelectCountStep
  <2>1. /\ stage = "count" /\ LoopStep /\ stage' = stage
        /\ UNCHANGED <<submission, jobspec, duration, at_request, chosen>>
    BY <1>10 DEF SelectCountStep, rest
  <2>2. Counts' /\ request' = request /\ qc' = qc
    BY <2>1, LoopStepCounts DEF IInv
  <2>3. \A q : Request(q)' = Request(q) /\ CandidatesOf(q)' = CandidatesOf(q)
    BY <2>1, SameJob
  <2>4. Turns'
    <3>1. request' = Request(at_request)'.count /\ qc' = Total(CandidatesOf(at_request)')
      BY <2>1, <2>2, <2>3 DEF IInv, Turns
    <3>2. QED  BY <2>1, <3>1, SameChoices DEF IInv, Turns
  <2>5. Stages' /\ Parsed'
    BY <2>1 DEF IInv, Stages, Parsed
  <2>6. QED  BY <1>1, <2>1, <2>2, <2>4, <2>5 DEF IInv
<1>11. CASE Unmet
  BY <1>4, <1>11 DEF Unmet, rest
<1>12. CASE ChooseBest
  BY <1>12, ChooseBestKeeps
<1>13. CASE UNCHANGED vars
  <2>1. UNCHANGED <<submission, jobspec, duration, at_request, chosen>> /\ UNCHANGED call /\ stage' = stage
    BY <1>13 DEF vars, rest
  <2>2. Turns'
    <3>1. \A q : Request(q)' = Request(q) /\ CandidatesOf(q)' = CandidatesOf(q)
      BY <2>1, SameJob
    <3>2. request' = request /\ qc' = qc
      BY <2>1 DEF call
    <3>3. QED  BY <2>1, <3>1, <3>2, SameChoices DEF IInv, Turns
  <2>3. Stages' /\ Parsed'
    BY <2>1 DEF IInv, Stages, Parsed
  <2>4. QED  BY <1>1, <2>1, <2>2, <2>3, CallKept DEF IInv
<1>14. QED
  BY <1>2, <1>3, <1>5, <1>6, <1>7, <1>8, <1>9, <1>10, <1>11, <1>12, <1>13 DEF Next

THEOREM Reached == Spec => []IInv
<1>1. Init => IInv
  BY InitKeeps
<1>2. IInv /\ [Next]_vars => IInv'
  BY NextKeeps
<1>3. QED  BY <1>1, <1>2, PTL DEF Spec

-----------------------------------------------------------------------------
(* What holds in every state of a command. *)

\* The types: the duration stays within its 64 bits and the variables of
\* select_count within the word of its unsigned integers, and the turn is
\* always that of the request after those that are dealt with.
THEOREM SubmissionIsTyped == Spec => []TypeOK
<1>1. IInv => TypeOK
  BY DEF IInv, Stages, Counts, Turns, TypeOK
<1>2. QED  BY <1>1, Reached, PTL

\* The loop of matcher_data_t::select_count, whose "cur" wraps at its word,
\* returns for every accepted count that can grow and fits the largest
\* quantity allowed, and what the traverser's model takes in one step.
THEOREM CallsSelectLargest == Spec => []SelectsLargest
<1>1. IInv => SelectsLargest
  <2>1. SUFFICES ASSUME IInv, returned, Grows(request), Fits(request, qc)
                 PROVE  count = Largest(request, qc) /\ count = SelectCount(request, qc)
    BY DEF SelectsLargest
  <2>2. count = SelectCount(request, qc) /\ qc \in Nat /\ AcceptedCount(request)
    BY <2>1 DEF IInv, Counts
  <2>3. Countable(request)
    BY <2>1, <2>2 DEF Countable, AcceptedCount
  <2>4. QED  BY <2>2, <2>3, LargestIsSelected
<1>2. QED  BY <1>1, Reached, PTL

\* Jobspec::Jobspec takes the documents of the grammar and no others: an
\* unknown key, at any depth, is found by counting the fields that are read.
THEOREM ParserAcceptsGrammar == Spec => []AcceptsGrammar
<1>1. IInv => AcceptsGrammar
  <2> SUFFICES ASSUME IInv, stage # "parse" PROVE stage # "rejected" <=> Grammar(submission.document)
    BY DEF AcceptsGrammar, Grammar
  <2>1. submission.document \in Nodes
    BY SubmissionAssumption DEF IInv
  <2>2. stage # "rejected" <=> JobspecAccepted(submission.document)
    BY DEF IInv, Parsed
  <2>3. QED  BY <2>1, <2>2, AcceptedDocuments
<1>2. QED  BY <1>1, Reached, PTL

\* What the traverser is handed: of a document that is accepted, the
\* requests at every depth are those of its resources, one and all, and
\* parse_yaml_count has left only bounds that are ordered and positive, or
\* the 0 that a scalar may be.
LEMMA AcceptedRequests ==
    ASSUME NEW d \in Nodes, JobspecAccepted(d)
    PROVE  LET all == Requests(JobspecOf(d).resources, Height[d])
               nested == Nested(d.at["resources"])
           IN  /\ \A r \in all : AcceptedCount(r.count)
               /\ {r.type : r \in all} = {Text(n.at["type"]) : n \in nested}
<1> DEFINE list == d.at["resources"]
           all == Requests(JobspecOf(d).resources, Height[d])
<1>1. list \in Nodes /\ Height[list] < Height[d] /\ ResourcesAccepted(list)
  BY RequestsOfAccepted
<1>2. PICK f : Reads(f)
  BY ResourcesOfReads
<1>3. JobspecOf(d).resources = f[list]
  BY <1>2 DEF JobspecOf, Reads
<1>4. Height[d] \in Nat /\ Height[list] <= Height[d]
  <2>1. Height[d] \in Nat /\ Height[list] \in Nat
    BY <1>1, PartsAreNodes
  <2>2. QED  BY <1>1, <2>1
<1>5. all = Requests(f[list], Height[d])
  BY <1>3
<1> HIDE DEF list
<1>6. \A r : r \in all <=> \E n \in Nested(list) : r = ResourceOf(n, f)
  <2> DEFINE depth == Height[d]
  <2>1. depth \in Nat /\ Height[list] <= depth
    BY <1>4
  <2> HIDE DEF depth
  <2>2. \A r : r \in Requests(f[list], depth) <=> \E n \in Nested(list) : r = ResourceOf(n, f)
    BY <1>1, <1>2, <2>1, AllRequestsAre
  <2>3. QED  BY <1>5, <2>2 DEF depth
<1> HIDE DEF all
<1>7. \A n : /\ ResourceOf(n, f).type = Text(n.at["type"])
             /\ ResourceOf(n, f).count = CountOf(n.at["count"])
  BY DEF ResourceOf
<1>8. ASSUME NEW n \in Nested(list) PROVE AcceptedCount(CountOf(n.at["count"]))
  <2>1. n \in Nodes /\ WellFormed(n)
    BY <1>1, AcceptedIsWellFormed
  <2>2. Has(n, "count") /\ CountAccepted(n.at["count"])
    BY <2>1 DEF WellFormed, Has
  <2>3. QED  BY <2>1, <2>2, PartsAreNodes, CountOfAccepted
<1>9. \A r \in all : AcceptedCount(r.count)
  BY <1>6, <1>7, <1>8
<1>10. {r.type : r \in all} = {Text(n.at["type"]) : n \in Nested(list)}
  BY <1>6, <1>7
<1>11. QED  BY <1>9, <1>10 DEF list, all

\* Before the document is parsed there is none.
LEMMA NoRequests ==
    ASSUME NEW depth \in Nat
    PROVE  Requests(<<>>, depth) = {}
<1>1. PICK u : GoesDown(<<>>, depth, u)
  BY RequestsGoDown
<1> DEFINE None == {d \in Nat : d <= depth => \A r : r \notin u[d]}
<1>2. 0 \in None
  BY <1>1 DEF GoesDown, Range
<1>3. ASSUME NEW d \in Nat, d \in None PROVE d + 1 \in None
  <2>1. d + 1 <= depth => d + 1 \in 1 .. depth /\ (d + 1) - 1 = d /\ d <= depth
    OBVIOUS
  <2>2. QED  BY <1>1, <1>3, <2>1 DEF GoesDown
<1>4. depth \in None
  <2> HIDE DEF None
  <2>1. QED  BY <1>2, <1>3, SetInduction
<1>5. \A r : r \notin u[depth]
  BY <1>4
<1>6. QED  BY <1>1, <1>5 DEF GoesDown

\* Jobspec::Jobspec hands the traverser requests that it can work with.
THEOREM RequestsAreUsable == Spec => []RequestsUsable
<1>1. IInv => RequestsUsable
  <2> SUFFICES ASSUME IInv PROVE RequestsUsable
    OBVIOUS
  <2> DEFINE d == submission.document
  <2>1. d \in Nodes /\ Height[d] \in Nat
    BY SubmissionAssumption, PartsAreNodes DEF IInv
  <2>2. CASE stage \in {"parse", "rejected"}
    <3>1. jobspec.resources = <<>>
      BY <2>2 DEF IInv, Parsed, NoJobspec
    <3>2. AllRequests = {}
      BY <2>1, <3>1, NoRequests DEF AllRequests
    <3>3. QED  BY <2>2, <3>2 DEF RequestsUsable
  <2>3. CASE stage \notin {"parse", "rejected"}
    <3>1. jobspec = JobspecOf(d) /\ JobspecAccepted(d)
      BY <2>3 DEF IInv, Parsed
    <3>2. AllRequests = Requests(JobspecOf(d).resources, Height[d])
      BY <3>1 DEF AllRequests
    <3>3. /\ \A r \in AllRequests : AcceptedCount(r.count)
          /\ {r.type : r \in AllRequests} = {Text(n.at["type"]) : n \in Nested(d.at["resources"])}
      BY <2>1, <3>1, <3>2, AcceptedRequests
    <3>4. QED  BY <3>3 DEF RequestsUsable, AcceptedCount
  <2>4. QED  BY <2>2, <2>3
<1>2. QED  BY <1>1, Reached, PTL

-----------------------------------------------------------------------------
(* What the policies choose. *)

\* For the k-th request the first m groups are chosen, in the order that at
\* gives, and of them n is needed.
Chosen(k, n, at, m) ==
    /\ ChosenFor(k, n)
    /\ Chooses(submission.policy, SeenUpTo(k), CandidatesOf(k), n, at, m)

LEMMA ChosenIs ==
    ASSUME IInv, NEW k \in DOMAIN chosen
    PROVE  \E n, at, m : Chosen(k, n, at, m)
<1>1. PICK n \in Nat : ChosenFor(k, n)
  BY DEF IInv, Turns
<1>2. submission \in Submissions /\ submission.policy \in {"high", "low", "locality"}
  BY SubmissionAssumption DEF IInv
<1>3. k \in Nat /\ k >= 1
  <2>1. Len(chosen) \in Nat /\ DOMAIN chosen = 1 .. Len(chosen)
    BY SeqMeans DEF IInv, Turns
  <2>2. QED  BY <2>1
<1> DEFINE policy == submission.policy
           seen == SeenUpTo(k)
           cands == CandidatesOf(k)
<1>4. seen \in SUBSET Nat /\ Scores(cands) \subseteq seen
  BY <1>2, <1>3, SeenType
<1>5. /\ cands \in Seq(Group)
      /\ \A i \in DOMAIN cands : cands[i].score \in Nat /\ cands[i].count \in Nat \ {0}
  BY <1>2, CandidatesType
<1>6. policy \in {"high", "low", "locality"} /\ n \in Nat \ {0} /\ n <= Total(cands)
  BY <1>1, <1>2 DEF ChosenFor
<1> HIDE DEF policy, seen, cands
<1>7. \E at, m : Chooses(policy, seen, cands, n, at, m)
  BY <1>4, <1>5, <1>6, BestChooses
<1>8. QED  BY <1>1, <1>7 DEF Chosen, policy, seen, cands

\* The same of the groups that are kept.
LEMMA ChosenMeans ==
    ASSUME IInv, NEW k \in DOMAIN chosen, NEW n, NEW at, NEW m, Chosen(k, n, at, m)
    PROVE  LET cands == CandidatesOf(k)
               groups == chosen[k].groups
               needs == chosen[k].needs
           IN  /\ Orders(submission.policy, SeenUpTo(k), cands, at)
               /\ DOMAIN cands = 1 .. Len(cands) /\ Len(cands) \in Nat /\ m \in 1 .. Len(cands)
               /\ DOMAIN groups = 1 .. m /\ DOMAIN needs = 1 .. m
               /\ \A i \in 1 .. m : groups[i] = cands[at[i]] /\ at[i] \in DOMAIN cands
               /\ \A i \in 1 .. m : needs[i] \in 1 .. groups[i].count
               /\ SumFunction(needs) = n
<1> DEFINE cands == CandidatesOf(k)
           groups == chosen[k].groups
           needs == chosen[k].needs
<1>1. /\ groups = BestK(Ranked(submission.policy, SeenUpTo(k), cands), n)
      /\ needs = Needs(groups, n)
  BY DEF Chosen, ChosenFor
<1>2. cands \in Seq(Group)
  BY CandidatesType DEF IInv
<1>3. Len(cands) \in Nat /\ DOMAIN cands = 1 .. Len(cands)
  BY <1>2, SeqMeans
<1>4. /\ Orders(submission.policy, SeenUpTo(k), cands, at)
      /\ m \in 1 .. Len(cands) /\ DOMAIN groups = 1 .. m /\ DOMAIN needs = 1 .. m
      /\ \A i \in 1 .. m : groups[i] = cands[at[i]]
      /\ \A i \in 1 .. m : needs[i] \in 1 .. groups[i].count
      /\ SumFunction(needs) = n
  BY <1>1 DEF Chosen, Chooses
<1> HIDE DEF cands, groups, needs
<1>5. \A i \in 1 .. m : i \in DOMAIN cands
  BY <1>3, <1>4
<1>6. \A i \in 1 .. m : at[i] \in DOMAIN cands
  BY <1>4, <1>5 DEF Orders
<1>7. QED  BY <1>3, <1>4, <1>6 DEF cands, groups, needs

\* dom_finish_graph and choose_best_k keep different candidates that hold
\* what select_count has returned, which is the most that the request allows.
THEOREM ChosenHoldTheirCount == Spec => []ChosenHoldCount
<1>1. IInv => ChosenHoldCount
  <2> SUFFICES ASSUME IInv, NEW k \in DOMAIN chosen
               PROVE  /\ Range(chosen[k].groups) \subseteq Range(CandidatesOf(k))
                      /\ IsInjective(chosen[k].groups)
                      /\ \A i \in DOMAIN chosen[k].needs :
                             chosen[k].needs[i] \in 1 .. chosen[k].groups[i].count
                      /\ Grows(Request(k).count) /\ Fits(Request(k).count, Total(CandidatesOf(k))) =>
                             Amount(chosen[k].needs) = Largest(Request(k).count, Total(CandidatesOf(k)))
    BY DEF ChosenHoldCount
  <2> DEFINE cands == CandidatesOf(k)
             groups == chosen[k].groups
             needs == chosen[k].needs
             c == Request(k).count
  <2>1. PICK n, at, m : Chosen(k, n, at, m)
    BY ChosenIs
  <2>2. /\ Orders(submission.policy, SeenUpTo(k), cands, at)
        /\ DOMAIN cands = 1 .. Len(cands) /\ Len(cands) \in Nat /\ m \in 1 .. Len(cands)
        /\ DOMAIN groups = 1 .. m /\ DOMAIN needs = 1 .. m
        /\ \A i \in 1 .. m : groups[i] = cands[at[i]] /\ at[i] \in DOMAIN cands
        /\ \A i \in 1 .. m : needs[i] \in 1 .. groups[i].count
        /\ SumFunction(needs) = n
    BY <2>1, ChosenMeans
  <2>3. IsInjective(cands) /\ Total(cands) \in Nat
    BY CandidatesType DEF IInv
  <2>4. Grows(c) /\ Fits(c, Total(cands)) => n = SelectCount(c, Total(cands))
    BY <2>1 DEF Chosen, ChosenFor
  <2>5. AcceptedCount(c)
    <3>1. stage \notin {"parse", "rejected"}
      <4>1. chosen # <<>>
        BY EmptySeq
      <4>2. QED  BY <4>1 DEF IInv, Turns
    <3>2. jobspec = JobspecOf(submission.document) /\ JobspecAccepted(submission.document)
      BY <3>1 DEF IInv, Parsed
    <3>3. submission.document \in Nodes /\ k \in DOMAIN jobspec.resources
      BY SubmissionAssumption DEF IInv, Turns
    <3>4. QED  BY <3>2, <3>3, RequestsOfAccepted DEF Request
  <2> HIDE DEF cands, groups, needs, c
  <2>6. Range(groups) \subseteq Range(cands)
    BY <2>2 DEF Range
  <2>7. IsInjective(groups)
    <3>1. SUFFICES ASSUME NEW i \in 1 .. m, NEW j \in 1 .. m, groups[i] = groups[j], i # j
                   PROVE  FALSE
      BY <2>2 DEF IsInjective
    <3>2. at[i] = at[j]
      BY <2>2, <2>3, <3>1 DEF IsInjective
    <3>3. i \in DOMAIN cands /\ j \in DOMAIN cands /\ (i < j \/ j < i)
      BY <2>2, <3>1
    <3>4. QED  BY <2>2, <3>2, <3>3 DEF Orders
  <2>8. Grows(c) /\ Fits(c, Total(cands)) => Amount(needs) = Largest(c, Total(cands))
    <3>1. SUFFICES ASSUME Grows(c), Fits(c, Total(cands)) PROVE Amount(needs) = Largest(c, Total(cands))
      OBVIOUS
    <3>2. Countable(c)
      BY <2>5, <3>1 DEF Countable, AcceptedCount
    <3>3. Largest(c, Total(cands)) = SelectCount(c, Total(cands))
      BY <2>3, <3>2, LargestIsSelected
    <3>4. QED  BY <2>2, <2>4, <3>1, <3>3 DEF Amount
  <2>9. \A i \in DOMAIN needs : needs[i] \in 1 .. groups[i].count
    BY <2>2
  <2>10. QED  BY <2>6, <2>7, <2>8, <2>9 DEF cands, groups, needs, c
<1>2. QED  BY <1>1, Reached, PTL

\* A score is in the run of each score of its run.
LEMMA SameRun ==
    ASSUME NEW S \in SUBSET Nat, NEW s \in S, NEW t \in RunOf(s, S)
    PROVE  RunOf(t, S) = RunOf(s, S)
<1>1. /\ s \in Nat /\ t \in S /\ t \in Nat
      /\ \A x \in Nat : (t <= x /\ x <= s) \/ (s <= x /\ x <= t) => x \in S
  <2>1. t \in S /\ \A x \in t .. s \cup s .. t : x \in S
    BY DEF RunOf
  <2>2. s \in Nat /\ t \in Nat
    BY <2>1
  <2>3. \A x \in Nat : (t <= x /\ x <= s) \/ (s <= x /\ x <= t) => x \in t .. s \cup s .. t
    BY <2>2
  <2>4. QED  BY <2>1, <2>2, <2>3
<1>2. \A a, u \in S : u \in RunOf(a, S) <=>
          \A x \in Nat : (u <= x /\ x <= a) \/ (a <= x /\ x <= u) => x \in S
  <2>1. \A a, u \in S : u \in RunOf(a, S) <=> \A x \in u .. a \cup a .. u : x \in S
    BY DEF RunOf
  <2>2. \A a, u \in Nat : \A x : x \in u .. a \cup a .. u <=>
            x \in Nat /\ ((u <= x /\ x <= a) \/ (a <= x /\ x <= u))
    OBVIOUS
  <2>3. \A a \in S : a \in Nat
    OBVIOUS
  <2>4. QED  BY <2>1, <2>2, <2>3
<1>3. \A u \in S : u \in RunOf(t, S) <=> u \in RunOf(s, S)
  <2>1. SUFFICES ASSUME NEW u \in S
                 PROVE  (\A x \in Nat : (u <= x /\ x <= t) \/ (t <= x /\ x <= u) => x \in S)
                        <=> (\A x \in Nat : (u <= x /\ x <= s) \/ (s <= x /\ x <= u) => x \in S)
    BY <1>1, <1>2
  <2>2. u \in Nat
    OBVIOUS
  <2>3. QED  BY <1>1, <2>2
<1>4. RunOf(t, S) \subseteq S /\ RunOf(s, S) \subseteq S
  BY DEF RunOf
<1>5. QED  BY <1>3, <1>4

\* A candidate that is left ranks no higher than one that is chosen.
LEMMA LeftRanksLess ==
    ASSUME IInv, NEW k \in DOMAIN chosen, NEW g \in Range(chosen[k].groups), NEW h \in Left(k)
    PROVE  /\ Rank(submission.policy, SeenUpTo(k), g) >= Rank(submission.policy, SeenUpTo(k), h)
           /\ \E i, j \in DOMAIN CandidatesOf(k) : g = CandidatesOf(k)[i] /\ h = CandidatesOf(k)[j]
<1> DEFINE cands == CandidatesOf(k)
           groups == chosen[k].groups
<1>1. PICK n, at, m : Chosen(k, n, at, m)
  BY ChosenIs
<1>2. /\ Orders(submission.policy, SeenUpTo(k), cands, at)
      /\ DOMAIN cands = 1 .. Len(cands) /\ Len(cands) \in Nat /\ m \in 1 .. Len(cands)
      /\ DOMAIN groups = 1 .. m
      /\ \A i \in 1 .. m : groups[i] = cands[at[i]] /\ at[i] \in DOMAIN cands
  BY <1>1, ChosenMeans
<1>3. h \in Range(cands) /\ h \notin Range(groups)
  BY DEF Left
<1> HIDE DEF cands
<1>4. PICK i \in 1 .. m : g = cands[at[i]]
  BY <1>2 DEF Range
<1> HIDE DEF groups
<1>5. PICK j \in DOMAIN cands : h = cands[j]
  BY <1>3 DEF Range
<1>6. PICK l \in DOMAIN cands : at[l] = j
  BY <1>2 DEF Orders
<1>7. l \notin 1 .. m
  BY <1>2, <1>3, <1>5, <1>6 DEF Range
<1>8. i \in DOMAIN cands /\ i < l
  BY <1>2, <1>7
<1>9. Rank(submission.policy, SeenUpTo(k), g) >= Rank(submission.policy, SeenUpTo(k), h)
  BY <1>2, <1>4, <1>5, <1>6, <1>8 DEF Orders
<1>10. at[i] \in DOMAIN cands
  BY <1>2
<1>11. QED  BY <1>4, <1>5, <1>9, <1>10 DEF cands

\* Where one run of ids is broken, no other is.
LEMMA OneRunBroken ==
    ASSUME IInv, submission.policy = "locality", 1 \in DOMAIN chosen,
           NEW g \in Range(chosen[1].groups), NEW h \in Left(1),
           h.score \in RunOf(g.score, Scores(CandidatesOf(1))),
           NEW g2 \in Range(chosen[1].groups), NEW h2 \in Left(1),
           h2.score \in RunOf(g2.score, Scores(CandidatesOf(1)))
    PROVE  RunOf(g.score, Scores(CandidatesOf(1))) = RunOf(g2.score, Scores(CandidatesOf(1)))
<1> DEFINE S == Scores(CandidatesOf(1))
           R(x) == RunOf(x.score, S)
           rank(x) == Rank("locality", S, x)
<1>1. SeenUpTo(1) = S
  <2>1. 1 .. 1 = {1}
    OBVIOUS
  <2>2. SeenUpTo(1) = UNION {Scores(CandidatesOf(q)) : q \in {1}}
    BY <2>1 DEF SeenUpTo
  <2>3. QED  BY <2>2
<1>2. S \in SUBSET Nat /\ \A x : (\E i \in DOMAIN CandidatesOf(1) : x = CandidatesOf(1)[i]) => x.score \in S
  BY CandidatesType DEF IInv, Scores
<1>3. \A x \in Range(chosen[1].groups) : \A y \in Left(1) :
          rank(x) >= rank(y) /\ x.score \in S /\ y.score \in S
  <2>1. SUFFICES ASSUME NEW x \in Range(chosen[1].groups), NEW y \in Left(1)
                 PROVE  rank(x) >= rank(y) /\ x.score \in S /\ y.score \in S
    OBVIOUS
  <2>2. /\ Rank(submission.policy, SeenUpTo(1), x) >= Rank(submission.policy, SeenUpTo(1), y)
        /\ \E i, j \in DOMAIN CandidatesOf(1) : x = CandidatesOf(1)[i] /\ y = CandidatesOf(1)[j]
    BY LeftRanksLess
  <2>3. QED  BY <1>1, <1>2, <2>2
<1>4. \A x : rank(x) = Min(R(x))
  BY DEF Rank
<1> HIDE DEF rank
<1>5. /\ g.score \in S /\ g2.score \in S /\ h.score \in S /\ h2.score \in S
      /\ rank(g) >= rank(h2) /\ rank(g2) >= rank(h)
  BY <1>3
<1>6. h.score \in R(g) /\ h2.score \in R(g2)
  OBVIOUS
<1> HIDE DEF S
<1>7. R(h) = R(g) /\ R(h2) = R(g2)
  BY <1>2, <1>5, <1>6, SameRun
<1>8. R(g) \in SUBSET Nat /\ R(g2) \in SUBSET Nat /\ R(g) \subseteq S /\ R(g2) \subseteq S
  BY <1>2 DEF RunOf
<1>9. Min(R(g)) \in R(g) /\ Min(R(g2)) \in R(g2)
  <2>1. R(g) # {} /\ R(g2) # {}
    BY <1>6
  <2> HIDE DEF R
  <2>2. QED  BY <1>8, <2>1, LeastElement
<1>10. Min(R(g)) = Min(R(g2))
  <2>1. rank(h) = rank(g) /\ rank(h2) = rank(g2)
    BY <1>4, <1>7
  <2>2. rank(g) \in Nat /\ rank(g2) \in Nat
    BY <1>4, <1>8, <1>9
  <2>3. rank(g) = rank(g2)
    BY <1>5, <2>1, <2>2
  <2>4. QED  BY <1>4, <2>3
<1> DEFINE t == Min(R(g))
<1>11. t \in R(g) /\ t \in R(g2)
  BY <1>9, <1>10
<1> HIDE DEF t
<1>12. RunOf(t, S) = R(g) /\ RunOf(t, S) = R(g2)
  BY <1>2, <1>5, <1>11, SameRun
<1>13. QED  BY <1>12 DEF S

\* The comparators and choose_best_k together: "high" and "low" leave no
\* candidate that they prefer to one they keep, and "locality" breaks at most
\* one run of ids when it deals with the first request.
THEOREM PolicyIsHonoured == Spec => []PolicyHonoured
<1>1. IInv => PolicyHonoured
  <2> SUFFICES ASSUME IInv PROVE PolicyHonoured
    OBVIOUS
  <2>1. submission.policy \in {"high", "low", "locality"}
    BY SubmissionAssumption DEF IInv
  <2>2. ASSUME NEW k \in DOMAIN chosen, submission.policy = "high",
               NEW g \in Range(chosen[k].groups), NEW h \in Left(k)
        PROVE  g.score >= h.score
    <3>1. Rank("high", SeenUpTo(k), g) >= Rank("high", SeenUpTo(k), h)
      BY <2>2, LeftRanksLess
    <3>2. QED  BY <3>1 DEF Rank
  <2>3. ASSUME NEW k \in DOMAIN chosen, submission.policy = "low",
               NEW g \in Range(chosen[k].groups), NEW h \in Left(k)
        PROVE  g.score <= h.score
    <3>1. /\ Rank("low", SeenUpTo(k), g) >= Rank("low", SeenUpTo(k), h)
          /\ \E i, j \in DOMAIN CandidatesOf(k) : g = CandidatesOf(k)[i] /\ h = CandidatesOf(k)[j]
      BY <2>3, LeftRanksLess
    <3>2. g.score \in Nat /\ h.score \in Nat
      BY <3>1, CandidatesType DEF IInv
    <3>3. -g.score >= -h.score
      BY <3>1 DEF Rank
    <3>4. QED  BY <3>2, <3>3
  <2>4. ASSUME 1 \in DOMAIN chosen, submission.policy = "locality"
        PROVE  Cardinality({RunOf(g.score, Scores(CandidatesOf(1))) :
                   g \in {g \in Range(chosen[1].groups) : \E h \in Left(1) :
                       h.score \in RunOf(g.score, Scores(CandidatesOf(1)))}}) <= 1
    <3> DEFINE run(g) == RunOf(g.score, Scores(CandidatesOf(1)))
               torn == {g \in Range(chosen[1].groups) : \E h \in Left(1) : h.score \in run(g)}
               runs == {run(g) : g \in torn}
    <3>1. \A g, g2 \in torn : run(g) = run(g2)
      BY <2>4, OneRunBroken
    <3> HIDE DEF run, torn
    <3>2. runs = {} \/ \E r : runs = {r}
      <4>1. CASE torn = {}
        BY <4>1
      <4>2. CASE torn # {}
        <5>1. PICK g : g \in torn
          BY <4>2
        <5>2. runs = {run(g)}
          BY <3>1, <5>1
        <5>3. QED  BY <5>2
      <4>3. QED  BY <4>1, <4>2
    <3> HIDE DEF runs
    <3>3. Cardinality(runs) <= 1
      BY <3>2, FS_EmptySet, FS_Singleton
    <3>4. QED  BY <3>3 DEF runs, torn, run
  <2>5. QED  BY <2>1, <2>2, <2>3, <2>4 DEF PolicyHonoured
<1>2. QED  BY <1>1, Reached, PTL
=============================================================================
