------------------------------- MODULE LoopLaws -------------------------------
(***************************************************************************)
(* What holds of the loops of module Loops.  The body of a loop and its    *)
(* invariant are parameters of this module, so that a module that reasons  *)
(* about a loop INSTANCEs this one with the two it has: the provers know   *)
(* no fact about every operator, but they know each instance of one.       *)
(*                                                                         *)
(* p and q are what the body is given besides the state x and the member   *)
(* y, a, b and c what the invariant speaks of.                             *)
(***************************************************************************)
EXTENDS Loops, DataLemmas

CONSTANTS
    Step(_, _, _, _),      \* Step(p, q, x, y)
    Inv(_, _, _, _, _)     \* Inv(a, b, c, n, x), after n members

Loop(p, q, base, seq) == Folded(LAMBDA x, y : Step(p, q, x, y), base, seq)

\* The function that a loop computes: the state after each of its members.
Upto(p, q, base, seq, g, N) ==
    g = [n \in 0 .. N |-> IF n = 0 THEN base ELSE Of(LAMBDA x : Step(p, q, x, seq[n]), g[n - 1])]

LEMMA OfIs ==
    ASSUME NEW p, NEW q, NEW x, NEW y
    PROVE  Of(LAMBDA z : Step(p, q, z, y), x) = Step(p, q, x, y)
BY DEF Of

LEMMA UptoIs ==
    ASSUME NEW p, NEW q, NEW base, NEW seq, NEW g, NEW N \in Nat
    PROVE  Upto(p, q, base, seq, g, N)
             <=> g = [n \in 0 .. N |-> IF n = 0 THEN base ELSE Step(p, q, g[n - 1], seq[n])]
<1> DEFINE h == [n \in 0 .. N |-> IF n = 0 THEN base ELSE Step(p, q, g[n - 1], seq[n])]
           k == [n \in 0 .. N |-> IF n = 0 THEN base
                                  ELSE Of(LAMBDA x : Step(p, q, x, seq[n]), g[n - 1])]
<1>1. \A n \in 0 .. N : h[n] = k[n]
  BY OfIs
<1>2. h = [n \in 0 .. N |-> h[n]] /\ k = [n \in 0 .. N |-> k[n]]
  OBVIOUS
<1>3. h = k
  <2> HIDE DEF h, k
  <2>1. QED  BY <1>1, <1>2
<1>4. QED  BY <1>3 DEF Upto

LEMMA UptoExists ==
    ASSUME NEW p, NEW q, NEW base, NEW seq
    PROVE  \A N \in Nat : \E g : Upto(p, q, base, seq, g, N)
<1> DEFINE S == {N \in Nat : \E g : Upto(p, q, base, seq, g, N)}
<1>1. 0 \in S
  <2> DEFINE g == [n \in 0 .. 0 |-> base]
  <2>1. g = [n \in 0 .. 0 |-> IF n = 0 THEN base ELSE Step(p, q, g[n - 1], seq[n])]
    <3>1. \A n \in 0 .. 0 : base = IF n = 0 THEN base ELSE Step(p, q, g[n - 1], seq[n])
      OBVIOUS
    <3>2. QED  BY <3>1
  <2> HIDE DEF g
  <2>2. Upto(p, q, base, seq, g, 0)
    BY <2>1, UptoIs
  <2>3. QED  BY <2>2
<1>2. \A N \in Nat : N \in S => N + 1 \in S
  <2> SUFFICES ASSUME NEW N \in Nat, NEW g, Upto(p, q, base, seq, g, N)
               PROVE  \E h : Upto(p, q, base, seq, h, N + 1)
    OBVIOUS
  <2> DEFINE h == [n \in 0 .. N + 1 |-> IF n = N + 1 THEN Step(p, q, g[N], seq[N + 1]) ELSE g[n]]
             k == [n \in 0 .. N + 1 |-> IF n = 0 THEN base ELSE Step(p, q, h[n - 1], seq[n])]
  <2>1. \A n \in 0 .. N : h[n] = g[n]
    BY SMT
  <2>2. \A n \in 0 .. N + 1 : h[n] = k[n]
    <3> SUFFICES ASSUME NEW n \in 0 .. N + 1
                 PROVE  h[n] = k[n]
      OBVIOUS
    <3>1. CASE n = N + 1
      <4>1. h[n] = Step(p, q, g[N], seq[N + 1])
        BY <3>1
      <4>2. h[n - 1] = g[N]
        BY <3>1, <2>1
      <4> HIDE DEF h
      <4>3. k[n] = Step(p, q, h[n - 1], seq[n])
        BY <3>1
      <4>4. QED  BY <3>1, <4>1, <4>2, <4>3
    <3>2. CASE n \in 0 .. N
      <4>1. h[n] = g[n]
        BY <2>1, <3>2
      <4>2. g[n] = IF n = 0 THEN base ELSE Step(p, q, g[n - 1], seq[n])
        BY <3>2, UptoIs
      <4>3. n # 0 => h[n - 1] = g[n - 1]
        BY <2>1, <3>2
      <4> HIDE DEF h
      <4>4. k[n] = IF n = 0 THEN base ELSE Step(p, q, h[n - 1], seq[n])
        OBVIOUS
      <4>5. QED  BY <4>1, <4>2, <4>3, <4>4
    <3>3. QED  BY <3>1, <3>2
  <2>3. h = k
    <3>1. DOMAIN h = 0 .. N + 1 /\ DOMAIN k = 0 .. N + 1
      OBVIOUS
    <3>2. h = [n \in 0 .. N + 1 |-> h[n]] /\ k = [n \in 0 .. N + 1 |-> k[n]]
      OBVIOUS
    <3> HIDE DEF h, k
    <3>3. QED  BY <2>2, <3>2
  <2> HIDE DEF h
  <2>4. Upto(p, q, base, seq, h, N + 1)
    BY <2>3, UptoIs
  <2>5. QED  BY <2>4
<1>3. Nat \subseteq S
  <2> HIDE DEF S
  <2>1. QED  BY <1>1, <1>2, SetInduction
<1>4. QED  BY <1>3

Runs(p, q, base, seq, g) ==
    g[0] = base /\ \A n \in 1 .. Len(seq) : g[n] = Step(p, q, g[n - 1], seq[n])

\* A loop computes the last of its states.
LEMMA LoopIs ==
    ASSUME NEW p, NEW q, NEW base, NEW seq, Len(seq) \in Nat
    PROVE  \E g : Loop(p, q, base, seq) = g[Len(seq)] /\ Runs(p, q, base, seq, g)
<1> DEFINE u == CHOOSE g : Upto(p, q, base, seq, g, Len(seq))
<1>1. Upto(p, q, base, seq, u, Len(seq))
  BY UptoExists
<1>2. Loop(p, q, base, seq) = u[Len(seq)]
  BY DEF Loop, Folded, Upto
<1> HIDE DEF u
<1>3. Runs(p, q, base, seq, u)
  BY <1>1, UptoIs DEF Runs
<1>4. QED  BY <1>2, <1>3

\* What holds before a loop and is kept by its body holds after it.
LEMMA LoopInvariant ==
    ASSUME NEW p, NEW q, NEW base, NEW seq, Len(seq) \in Nat, NEW a, NEW b, NEW c,
           Inv(a, b, c, 0, base),
           \A n \in 0 .. Len(seq) - 1 : \A x :
               Inv(a, b, c, n, x) => Inv(a, b, c, n + 1, Step(p, q, x, seq[n + 1]))
    PROVE  Inv(a, b, c, Len(seq), Loop(p, q, base, seq))
<1>1. PICK g : Loop(p, q, base, seq) = g[Len(seq)] /\ Runs(p, q, base, seq, g)
  BY LoopIs
<1> DEFINE S == {N \in Nat : N <= Len(seq) => Inv(a, b, c, N, g[N])}
<1>2. 0 \in S
  BY <1>1 DEF Runs
<1>3. \A N \in Nat : N \in S => N + 1 \in S
  <2> SUFFICES ASSUME NEW N \in Nat, N + 1 <= Len(seq), Inv(a, b, c, N, g[N])
               PROVE  Inv(a, b, c, N + 1, g[N + 1])
    OBVIOUS
  <2>1. g[N + 1] = Step(p, q, g[N], seq[N + 1])
    BY <1>1 DEF Runs
  <2>2. N \in 0 .. Len(seq) - 1
    OBVIOUS
  <2>3. QED  BY <2>1, <2>2
<1>4. Nat \subseteq S
  <2> HIDE DEF S
  <2>1. QED  BY <1>2, <1>3, SetInduction
<1>5. QED  BY <1>1, <1>4

\* Two loops whose bodies agree where the one comes by compute the same.
LEMMA LoopSame ==
    ASSUME NEW p, NEW r, NEW q, NEW base, NEW seq, Len(seq) \in Nat, NEW a, NEW b, NEW c,
           Inv(a, b, c, 0, base),
           \A n \in 0 .. Len(seq) - 1 : \A x :
               Inv(a, b, c, n, x) => /\ Inv(a, b, c, n + 1, Step(p, q, x, seq[n + 1]))
                                     /\ Step(r, q, x, seq[n + 1]) = Step(p, q, x, seq[n + 1])
    PROVE  Loop(p, q, base, seq) = Loop(r, q, base, seq)
<1>1. PICK g : Loop(p, q, base, seq) = g[Len(seq)] /\ Runs(p, q, base, seq, g)
  BY LoopIs
<1>2. PICK h : Loop(r, q, base, seq) = h[Len(seq)] /\ Runs(r, q, base, seq, h)
  BY LoopIs
<1> DEFINE S == {N \in Nat : N <= Len(seq) => g[N] = h[N] /\ Inv(a, b, c, N, g[N])}
<1>3. 0 \in S
  BY <1>1, <1>2 DEF Runs
<1>4. \A N \in Nat : N \in S => N + 1 \in S
  <2> SUFFICES ASSUME NEW N \in Nat, N + 1 <= Len(seq), g[N] = h[N], Inv(a, b, c, N, g[N])
               PROVE  g[N + 1] = h[N + 1] /\ Inv(a, b, c, N + 1, g[N + 1])
    OBVIOUS
  <2>1. g[N + 1] = Step(p, q, g[N], seq[N + 1]) /\ h[N + 1] = Step(r, q, h[N], seq[N + 1])
    BY <1>1, <1>2 DEF Runs
  <2>2. N \in 0 .. Len(seq) - 1
    OBVIOUS
  <2>3. QED  BY <2>1, <2>2
<1>5. Nat \subseteq S
  <2> HIDE DEF S
  <2>1. QED  BY <1>3, <1>4, SetInduction
<1>6. QED  BY <1>1, <1>2, <1>5

-----------------------------------------------------------------------------
(* A recursive definition with body Step(p, q, f, a) at a has a solution   *)
(* where the body looks only at what f has at indices of lesser rank.  A   *)
(* recursive function is chosen among the solutions.                       *)

Solves(p, q, A, f) == f = [a \in A |-> Step(p, q, f, a)]

LooksDown(p, q, A, rank) ==
    \A f, g : \A a \in A :
        (\A b \in A : rank[b] < rank[a] => f[b] = g[b]) => Step(p, q, f, a) = Step(p, q, g, a)

LEMMA SolutionIs ==
    ASSUME NEW p, NEW q, NEW A, NEW f
    PROVE  Solves(p, q, A, f) <=> /\ f = [a \in A |-> f[a]]
                                  /\ \A a \in A : f[a] = Step(p, q, f, a)
<1> DEFINE h == [a \in A |-> Step(p, q, f, a)]
           k == [a \in A |-> f[a]]
<1>1. \A a \in A : h[a] = Step(p, q, f, a) /\ k[a] = f[a]
  OBVIOUS
<1>2. ASSUME f = h PROVE f = k /\ \A a \in A : f[a] = Step(p, q, f, a)
  <2>1. \A a \in A : f[a] = Step(p, q, f, a)
    <3> HIDE DEF h
    <3>1. QED  BY <1>1, <1>2
  <2>2. h = [a \in A |-> h[a]]
    OBVIOUS
  <2>3. f = [a \in A |-> f[a]]
    <3> HIDE DEF h
    <3>1. QED  BY <1>2, <2>2
  <2>4. QED  BY <2>1, <2>3
<1>3. ASSUME f = k, \A a \in A : f[a] = Step(p, q, f, a) PROVE f = h
  <2>1. h = k
    BY <1>3
  <2>2. QED  BY <1>3, <2>1
<1>4. QED  BY <1>2, <1>3 DEF Solves

LEMMA RecursionSolved ==
    ASSUME NEW p, NEW q, NEW A, NEW rank, rank \in [A -> Nat], LooksDown(p, q, A, rank)
    PROVE  \E f : Solves(p, q, A, f)
<1> DEFINE Upon(n) == {a \in A : rank[a] < n}
           Good(n, f) == \A a \in A : rank[a] < n => f[a] = Step(p, q, f, a)
           S == {n \in Nat : \E f : Good(n, f)}
<1>1. 0 \in S
  <2>1. \A f : Good(0, f)
    OBVIOUS
  <2>2. QED  BY <2>1
<1>2. \A n \in Nat : n \in S => n + 1 \in S
  <2> SUFFICES ASSUME NEW n \in Nat, NEW f, Good(n, f)
               PROVE  \E g : Good(n + 1, g)
    OBVIOUS
  <2> DEFINE g == [a \in A |-> Step(p, q, f, a)]
  <2>1. \A a \in A : rank[a] < n => g[a] = f[a]
    OBVIOUS
  <2>2. ASSUME NEW a \in A, rank[a] < n + 1 PROVE g[a] = Step(p, q, g, a)
    <3>1. g[a] = Step(p, q, f, a)
      OBVIOUS
    <3> HIDE DEF g, Good
    <3>2. \A b \in A : rank[b] < rank[a] => f[b] = g[b]
      <4>1. \A b \in A : rank[b] < rank[a] => rank[b] < n
        BY <2>2
      <4>2. QED  BY <2>1, <4>1
    <3>3. Step(p, q, f, a) = Step(p, q, g, a)
      BY <3>2 DEF LooksDown
    <3>4. QED  BY <3>1, <3>3
  <2> HIDE DEF g
  <2>3. Good(n + 1, g)
    BY <2>2
  <2>4. QED  BY <2>3
<1>3. \A n \in Nat : \E f : Good(n, f)
  <2>1. Nat \subseteq S
    <3> HIDE DEF S
    <3>1. QED  BY <1>1, <1>2, SetInduction
  <2>2. QED  BY <2>1
<1> DEFINE h(n) == CHOOSE f : Good(n, f)
           f == [a \in A |-> h(rank[a] + 1)[a]]
<1>4. \A n \in Nat : Good(n, h(n))
  BY <1>3
<1> HIDE DEF h
\* Two that are good so far agree so far.
<1>5. ASSUME NEW m \in Nat, NEW u, NEW v, Good(m, u), Good(m, v)
      PROVE  \A a \in A : rank[a] < m => u[a] = v[a]
  <2> DEFINE T == {n \in Nat : n <= m => \A a \in A : rank[a] < n => u[a] = v[a]}
  <2>1. 0 \in T
    OBVIOUS
  <2>2. \A n \in Nat : n \in T => n + 1 \in T
    <3> SUFFICES ASSUME NEW n \in Nat, n + 1 <= m,
                        \A a \in A : rank[a] < n => u[a] = v[a],
                        NEW a \in A, rank[a] < n + 1
                 PROVE  u[a] = v[a]
      OBVIOUS
    <3>1. \A b \in A : rank[b] < rank[a] => u[b] = v[b]
      <4>1. \A b \in A : rank[b] < rank[a] => rank[b] < n
        OBVIOUS
      <4>2. QED  BY <4>1
    <3>2. Step(p, q, u, a) = Step(p, q, v, a)
      BY <3>1 DEF LooksDown
    <3>3. rank[a] < m
      OBVIOUS
    <3>4. QED  BY <1>5, <3>2, <3>3
  <2>3. m \in T
    <3> HIDE DEF T
    <3>1. QED  BY <2>1, <2>2, SetInduction
  <2>4. QED  BY <2>3
<1>6. \A a \in A : f[a] = h(rank[a] + 1)[a]
  OBVIOUS
<1>7. f = [a \in A |-> f[a]]
  OBVIOUS
<1> HIDE DEF f
<1>8. ASSUME NEW a \in A PROVE f[a] = Step(p, q, f, a)
  <2> DEFINE m == rank[a] + 1
             u == h(m)
  <2>1. m \in Nat /\ rank[a] < m /\ Good(m, u)
    BY <1>4
  <2>2. f[a] = u[a] /\ u[a] = Step(p, q, u, a)
    BY <1>6, <2>1
  <2>3. ASSUME NEW b \in A, rank[b] < rank[a] PROVE u[b] = f[b]
    <3> DEFINE k == rank[b] + 1
               v == h(k)
    <3>1. k \in Nat /\ Good(k, v) /\ rank[b] < k /\ k <= m
      BY <1>4, <2>3
    <3>2. Good(k, u)
      <4> HIDE DEF k, v, m, u
      <4>1. \A c \in A : rank[c] < k => rank[c] < m
        BY <2>1, <3>1
      <4>2. QED  BY <2>1, <4>1
    <3>3. u[b] = v[b]
      <4> HIDE DEF k, v, m, u, Good
      <4>1. QED  BY <1>5, <3>1, <3>2
    <3>4. QED  BY <1>6, <3>3
  <2> HIDE DEF u
  <2>4. Step(p, q, u, a) = Step(p, q, f, a)
    BY <2>3 DEF LooksDown
  <2>5. QED  BY <2>2, <2>4
<1>9. QED  BY <1>7, <1>8, SolutionIs

\* What a recursive function is.
LEMMA Recursion ==
    ASSUME NEW p, NEW q, NEW A, NEW rank, rank \in [A -> Nat], LooksDown(p, q, A, rank),
           NEW f, f = CHOOSE g : Solves(p, q, A, g)
    PROVE  f = [a \in A |-> f[a]] /\ \A a \in A : f[a] = Step(p, q, f, a)
<1>1. Solves(p, q, A, f)
  BY RecursionSolved
<1>2. QED  BY <1>1, SolutionIs
=============================================================================
