------------------------------- MODULE GenProofs -------------------------------
(***************************************************************************)
(* The proofs about module Startup.                                        *)
(***************************************************************************)
EXTENDS Startup, DataLemmas, SequenceTheorems

-----------------------------------------------------------------------------
(* Sequences and maps. *)

IsSequence(s) == s \in Seq(Range(s))

LEMMA SequenceOf ==
    ASSUME NEW S, NEW s \in Seq(S)
    PROVE  /\ IsSequence(s) /\ Len(s) \in Nat /\ DOMAIN s = 1 .. Len(s)
           /\ \A i \in 1 .. Len(s) : s[i] \in S
           /\ Range(s) \subseteq S
BY DEF IsSequence, Range

LEMMA SequenceIs ==
    ASSUME NEW s, IsSequence(s)
    PROVE  Len(s) \in Nat /\ DOMAIN s = 1 .. Len(s) /\ \A i \in 1 .. Len(s) : s[i] \in Range(s)
BY DEF IsSequence, Range

LEMMA SequenceIn ==
    ASSUME NEW s, IsSequence(s), NEW S, \A i \in 1 .. Len(s) : s[i] \in S
    PROVE  s \in Seq(S)
BY DEF IsSequence, Range

Extended(t, s, x) == t = Append(s, x)
Is(r, x) == r = x

LEMMA Appended ==
    ASSUME NEW s, IsSequence(s), NEW x, NEW t, Extended(t, s, x)
    PROVE  /\ IsSequence(t) /\ Len(t) = Len(s) + 1 /\ DOMAIN t = 1 .. Len(s) + 1
           /\ t[Len(s) + 1] = x /\ \A i \in 1 .. Len(s) : t[i] = s[i]
           /\ Range(t) = Range(s) \cup {x}
<1> DEFINE S == Range(s) \cup {x}
<1>1. s \in Seq(S) /\ Len(s) \in Nat /\ DOMAIN s = 1 .. Len(s)
  BY DEF IsSequence, Range
<1>2. t \in Seq(S) /\ Len(t) = Len(s) + 1 /\ t[Len(s) + 1] = x /\ \A i \in 1 .. Len(s) : t[i] = s[i]
  <2> HIDE DEF S
  <2>1. x \in S
    BY DEF S
  <2>2. QED  BY <1>1, <2>1 DEF Extended
<1>3. DOMAIN t = 1 .. Len(s) + 1
  BY <1>1, <1>2
<1>4. Range(t) = Range(s) \cup {x}
  <2>1. \A y : y \in Range(t) <=> \E i \in 1 .. Len(s) + 1 : t[i] = y
    BY <1>3 DEF Range
  <2>2. \A y : y \in Range(s) <=> \E i \in 1 .. Len(s) : s[i] = y
    BY <1>1 DEF Range
  <2>3. \A i \in 1 .. Len(s) + 1 : i = Len(s) + 1 \/ i \in 1 .. Len(s)
    BY <1>1
  <2>4. \A i \in 1 .. Len(s) : i \in 1 .. Len(s) + 1
    BY <1>1
  <2>5. Len(s) + 1 \in 1 .. Len(s) + 1
    BY <1>1
  <2>6. QED  BY <1>2, <2>1, <2>2, <2>3, <2>4, <2>5
<1>5. IsSequence(t)
  BY <1>2, <1>3, <1>4 DEF IsSequence
<1>6. QED  BY <1>2, <1>3, <1>4, <1>5

LEMMA PutIs ==
    ASSUME NEW m, NEW k, NEW v
    PROVE  /\ \A x : x \in DOMAIN Put(m, k, v) <=> x \in DOMAIN m \/ x = k
           /\ Put(m, k, v)[k] = v
           /\ \A x \in DOMAIN m : x # k => Put(m, k, v)[x] = m[x]
BY DEF Put

-----------------------------------------------------------------------------
(* The graph database: what each change of it does. *)

Vs(d) == DOMAIN d.vertices
IsVertex(v) ==
    v = [type |-> v.type, size |-> v.size, id |-> v.id, name |-> v.name, paths |-> v.paths,
         member_of |-> v.member_of]

\* A database in good order: the out edges of a vertex lead to vertices, and
\* the edges are those from a vertex to one that its out edges lead to.
DbOK(d) ==
    /\ d = [vertices |-> d.vertices, edges |-> d.edges, out |-> d.out, roots |-> d.roots]
    /\ IsSequence(d.vertices) /\ IsSequence(d.out) /\ Len(d.out) = Len(d.vertices)
    /\ \A v \in Vs(d) : IsVertex(d.vertices[v]) /\ d.out[v] \in Seq(Vs(d))
    /\ DOMAIN d.edges = {x \in Vs(d) \X Vs(d) : x[2] \in Range(d.out[x[1]])}
    /\ \A s \in DOMAIN d.roots : d.roots[s] \in Vs(d)

\* An edge is there, and is of the subsystem.
Edge(d, x, y) == <<x, y>> \in DOMAIN d.edges
EdgeIn(d, x, y, s) == Edge(d, x, y) /\ s \in DOMAIN d.edges[<<x, y>>]

LEMMA DbIs ==
    ASSUME NEW d, DbOK(d)
    PROVE  /\ Len(d.vertices) \in Nat /\ Vs(d) = 1 .. Len(d.vertices) /\ DOMAIN d.out = Vs(d)
           /\ Newest(d) = Len(d.vertices)
BY SequenceIs DEF DbOK, Vs, Newest

\* add_vertex: a vertex more, and no edge.
LEMMA AddedIs ==
    ASSUME NEW d, DbOK(d), NEW v, IsVertex(v), NEW r, r = Added(d, v)
    PROVE  /\ DbOK(r)
           /\ Len(r.vertices) = Len(d.vertices) + 1 /\ r.vertices[Len(d.vertices) + 1] = v
           /\ \A x \in Vs(d) : r.vertices[x] = d.vertices[x]
           /\ r.edges = d.edges /\ r.roots = d.roots
<1> DEFINE N == Len(d.vertices)
<1>1. N \in Nat /\ Vs(d) = 1 .. N /\ DOMAIN d.out = 1 .. N /\ Len(d.out) = N
  BY DbIs DEF DbOK
<1>2. /\ r.vertices = Append(d.vertices, v) /\ r.out = Append(d.out, <<>>)
      /\ r.edges = d.edges /\ r.roots = d.roots
      /\ r = [vertices |-> r.vertices, edges |-> r.edges, out |-> r.out, roots |-> r.roots]
  BY DEF Added, DbOK
<1>3. /\ IsSequence(r.vertices) /\ Len(r.vertices) = N + 1 /\ Vs(r) = 1 .. N + 1
      /\ r.vertices[N + 1] = v /\ \A i \in 1 .. N : r.vertices[i] = d.vertices[i]
  <2> DEFINE s == d.vertices
             t == r.vertices
  <2>1. IsSequence(s) /\ Extended(t, s, v) /\ Vs(r) = DOMAIN t
    BY <1>2 DEF DbOK, Vs, Extended
  <2> HIDE DEF s, t
  <2>2. /\ IsSequence(t) /\ Len(t) = Len(s) + 1 /\ DOMAIN t = 1 .. Len(s) + 1
        /\ t[Len(s) + 1] = v /\ \A i \in 1 .. Len(s) : t[i] = s[i]
    BY <2>1, Appended
  <2>3. QED  BY <2>1, <2>2 DEF s, t
<1>4. /\ IsSequence(r.out) /\ Len(r.out) = N + 1 /\ DOMAIN r.out = 1 .. N + 1
      /\ r.out[N + 1] = <<>> /\ \A i \in 1 .. N : r.out[i] = d.out[i]
  <2> DEFINE s == d.out
             t == r.out
             x == <<>>
  <2>1. IsSequence(s) /\ Extended(t, s, x) /\ Len(s) = N
    BY <1>1, <1>2 DEF DbOK, Extended
  <2> HIDE DEF s, t, x
  <2>2. /\ IsSequence(t) /\ Len(t) = Len(s) + 1 /\ DOMAIN t = 1 .. Len(s) + 1
        /\ t[Len(s) + 1] = x /\ \A i \in 1 .. Len(s) : t[i] = s[i]
    BY <2>1, Appended
  <2>3. QED  BY <2>1, <2>2 DEF s, t, x
<1>5. \A x \in Vs(r) : IsVertex(r.vertices[x]) /\ r.out[x] \in Seq(Vs(r))
  <2> SUFFICES ASSUME NEW x \in 1 .. N + 1
               PROVE  IsVertex(r.vertices[x]) /\ r.out[x] \in Seq(1 .. N + 1)
    BY <1>3
  <2>1. CASE x = N + 1
    BY <2>1, <1>3, <1>4
  <2>2. CASE x \in 1 .. N
    <3>1. IsVertex(r.vertices[x])
      BY <2>2, <1>1, <1>3 DEF DbOK
    <3>2. d.out[x] \in Seq(1 .. N)
      BY <2>2, <1>1 DEF DbOK
    <3>3. 1 .. N \subseteq 1 .. N + 1
      BY <1>1
    <3>4. d.out[x] \in Seq(1 .. N + 1)
      BY <3>2, <3>3, SeqMonotonic
    <3>5. QED  BY <2>2, <3>1, <3>4, <1>4
  <2>3. QED  BY <2>1, <2>2, <1>1
<1>6. DOMAIN r.edges = {x \in Vs(r) \X Vs(r) : x[2] \in Range(r.out[x[1]])}
  <2>1. DOMAIN r.edges = {x \in (1 .. N) \X (1 .. N) : x[2] \in Range(d.out[x[1]])}
    BY <1>1, <1>2 DEF DbOK
  <2>2. \A a, b \in 1 .. N : <<a, b>> \in (1 .. N + 1) \X (1 .. N + 1)
    BY <1>1
  <2>3. Range(r.out[N + 1]) = {}
    BY <1>4 DEF Range
  <2>4. \A a \in 1 .. N : Range(r.out[a]) = Range(d.out[a]) /\ Range(d.out[a]) \subseteq 1 .. N
    <3> SUFFICES ASSUME NEW a \in 1 .. N
                 PROVE  Range(r.out[a]) = Range(d.out[a]) /\ Range(d.out[a]) \subseteq 1 .. N
      OBVIOUS
    <3>1. d.out[a] \in Seq(1 .. N)
      BY <1>1 DEF DbOK
    <3>2. QED  BY <3>1, <1>4, SequenceOf
  <2>5. \A a \in 1 .. N + 1 : a = N + 1 \/ a \in 1 .. N
    BY <1>1
  <2>6. \A a, b \in 1 .. N + 1 : b \in Range(r.out[a]) <=> a \in 1 .. N /\ b \in 1 .. N /\ b \in Range(d.out[a])
    <3>1. N + 1 \notin 1 .. N
      BY <1>1
    <3>2. QED  BY <2>3, <2>4, <2>5, <3>1
  <2>7. QED  BY <2>1, <2>2, <2>6, <1>3
<1>7. \A s \in DOMAIN r.roots : r.roots[s] \in Vs(r)
  <2>1. \A x \in 1 .. N : x \in 1 .. N + 1
    BY <1>1
  <2>2. QED  BY <2>1, <1>1, <1>2, <1>3 DEF DbOK
<1>8. DbOK(r)
  BY <1>2, <1>3, <1>4, <1>5, <1>6, <1>7 DEF DbOK
<1>9. QED  BY <1>1, <1>2, <1>3, <1>8

\* raw_edge: the edge is there afterwards, and new if it was not before.
LEMMA RawEdgeIs ==
    ASSUME NEW d, DbOK(d), NEW a \in Vs(d), NEW b \in Vs(d), NEW r, r = RawEdge(d, a, b)
    PROVE  /\ DbOK(r) /\ r.vertices = d.vertices /\ r.roots = d.roots
           /\ \A x, y : Edge(r, x, y) <=> Edge(d, x, y) \/ (x = a /\ y = b)
           /\ \A k \in DOMAIN d.edges : r.edges[k] = d.edges[k]
           /\ <<a, b>> \notin DOMAIN d.edges => r.edges[<<a, b>>] = NoMap
<1>1. /\ Len(d.vertices) \in Nat /\ Vs(d) = 1 .. Len(d.vertices) /\ DOMAIN d.out = Vs(d)
      /\ d.out[a] \in Seq(Vs(d)) /\ Len(d.out) = Len(d.vertices)
  BY DbIs DEF DbOK
<1>2. <<a, b>> \in DOMAIN d.edges <=> b \in Range(d.out[a])
  BY DEF DbOK
<1>3. CASE b \in Range(d.out[a])
  <2>1. r = d
    BY <1>3 DEF RawEdge
  <2>2. \A x, y : x = a /\ y = b => Edge(d, x, y)
    BY <1>2, <1>3 DEF Edge
  <2>3. QED  BY <2>1, <2>2, <1>2, <1>3
<1>4. CASE b \notin Range(d.out[a])
  <2> DEFINE s == d.out[a]
             t == Append(s, b)
  <2>1. IsSequence(s) /\ Extended(t, s, b)
    BY <1>1, SequenceOf DEF Extended
  <2>2. /\ r.vertices = d.vertices /\ r.roots = d.roots
        /\ r.out = [d.out EXCEPT ![a] = t] /\ r.edges = Put(d.edges, <<a, b>>, NoMap)
        /\ r = [vertices |-> r.vertices, edges |-> r.edges, out |-> r.out, roots |-> r.roots]
    BY <1>4 DEF RawEdge, DbOK
  <2>3. t \in Seq(Vs(d)) /\ Range(t) = Range(s) \cup {b}
    <3>1. /\ IsSequence(t) /\ Range(t) = Range(s) \cup {b}
      <4> HIDE DEF s, t
      <4>1. QED  BY <2>1, Appended
    <3>2. Range(s) \subseteq Vs(d)
      BY <1>1, SequenceOf
    <3> HIDE DEF s, t
    <3>3. Range(t) \subseteq Vs(d)
      BY <3>1, <3>2
    <3>4. \A i \in 1 .. Len(t) : t[i] \in Vs(d)
      BY <3>1, <3>3, SequenceIs
    <3>5. QED  BY <3>1, <3>4, SequenceIn
  <2> HIDE DEF s, t
  <2>4. /\ DOMAIN r.out = Vs(d) /\ r.out[a] = t
        /\ \A x \in Vs(d) : x # a => r.out[x] = d.out[x]
    BY <1>1, <2>2
  <2>5. \A x \in Vs(d) : r.out[x] \in Seq(Vs(d))
    BY <2>3, <2>4 DEF DbOK
  <2>6. IsSequence(r.out) /\ Len(r.out) = Len(d.vertices)
    <3> DEFINE S == Seq(Vs(d))
    <3>1. d.out \in Seq(S)
      <4>1. IsSequence(d.out) /\ \A i \in 1 .. Len(d.out) : d.out[i] \in S
        BY <1>1 DEF DbOK
      <4> HIDE DEF S
      <4>2. QED  BY <4>1, SequenceIn
    <3>2. t \in S
      BY <2>3
    <3> HIDE DEF S
    <3>3. r.out \in Seq(S) /\ Len(r.out) = Len(d.out)
      BY <1>1, <2>2, <3>1, <3>2
    <3>4. QED  BY <1>1, <3>3, SequenceOf
  <2> DEFINE new == <<a, b>>
             map == d.edges
  <2>14. /\ \A k : k \in DOMAIN Put(map, new, NoMap) <=> k \in DOMAIN map \/ k = new
         /\ Put(map, new, NoMap)[new] = NoMap
         /\ \A x \in DOMAIN map : x # new => Put(map, new, NoMap)[x] = map[x]
    <3> HIDE DEF new, map
    <3>1. QED  BY PutIs
  <2>7. DOMAIN r.edges = DOMAIN d.edges \cup {<<a, b>>}
    BY <2>2, <2>14
  <2>8. \A x \in (Vs(d) \X Vs(d)) : x[2] \in Range(r.out[x[1]]) <=> x[2] \in Range(d.out[x[1]]) \/ x = <<a, b>>
    <3>1. \A x, y \in Vs(d) : y \in Range(r.out[x]) <=> y \in Range(d.out[x]) \/ (x = a /\ y = b)
      BY <2>3, <2>4 DEF s
    <3>2. QED  BY <3>1
  <2>9. DbOK(r)
    <3>1. Vs(r) = Vs(d)
      BY <2>2 DEF Vs
    <3>2. <<a, b>> \in Vs(d) \X Vs(d)
      OBVIOUS
    <3>3. DOMAIN r.edges = {x \in Vs(d) \X Vs(d) : x[2] \in Range(r.out[x[1]])}
      BY <2>7, <2>8, <3>2 DEF DbOK
    <3>4. IsSequence(r.vertices) /\ \A x \in Vs(d) : IsVertex(r.vertices[x])
      BY <2>2 DEF DbOK
    <3>5. \A s2 \in DOMAIN r.roots : r.roots[s2] \in Vs(d)
      BY <2>2 DEF DbOK
    <3>6. QED  BY <2>2, <2>5, <2>6, <3>1, <3>3, <3>4, <3>5 DEF DbOK
  <2>10. \A k \in DOMAIN d.edges : k # <<a, b>>
    BY <1>2, <1>4
  <2>11. \A k \in DOMAIN d.edges : r.edges[k] = d.edges[k]
    BY <2>2, <2>10, <2>14
  <2>12. r.edges[<<a, b>>] = NoMap
    BY <2>2, <2>14
  <2>15. \A x, y : Edge(r, x, y) <=> Edge(d, x, y) \/ (x = a /\ y = b)
    BY <2>7 DEF Edge
  <2>13. QED  BY <2>2, <2>15, <2>9, <2>11, <2>12
<1>5. QED  BY <1>3, <1>4

\* Half of emit_edges: the edge is there, and of the subsystem.
LEMMA RelatedIs ==
    ASSUME NEW d, DbOK(d), NEW a \in Vs(d), NEW b \in Vs(d), NEW s, NEW rel,
           NEW r, r = Related(d, a, b, s, rel)
    PROVE  /\ DbOK(r) /\ r.vertices = d.vertices /\ r.roots = d.roots
           /\ \A x, y : Edge(r, x, y) <=> Edge(d, x, y) \/ (x = a /\ y = b)
           /\ \A x, y, t : EdgeIn(r, x, y, t) <=> EdgeIn(d, x, y, t) \/ (x = a /\ y = b /\ t = s)
<1> DEFINE q == RawEdge(d, a, b)
<1>1. /\ DbOK(q) /\ q.vertices = d.vertices /\ q.roots = d.roots
      /\ \A x, y : Edge(q, x, y) <=> Edge(d, x, y) \/ (x = a /\ y = b)
      /\ \A k \in DOMAIN d.edges : q.edges[k] = d.edges[k]
      /\ <<a, b>> \notin DOMAIN d.edges => q.edges[<<a, b>>] = NoMap
  <2>1. q = RawEdge(d, a, b)
    OBVIOUS
  <2> HIDE DEF q
  <2>2. QED  BY <2>1, RawEdgeIs
<1>2. r = [q EXCEPT !.edges[<<a, b>>] = Put(@, s, rel)]
  BY DEF Related
<1> HIDE DEF q
<1> DEFINE p == Put(q.edges[<<a, b>>], s, rel)
<1>3. /\ r.vertices = q.vertices /\ r.roots = q.roots /\ r.out = q.out
      /\ r.edges = [q.edges EXCEPT ![<<a, b>>] = p]
      /\ r = [vertices |-> r.vertices, edges |-> r.edges, out |-> r.out, roots |-> r.roots]
  BY <1>1, <1>2 DEF DbOK
<1>4. \A t : t \in DOMAIN p <=> t \in DOMAIN q.edges[<<a, b>>] \/ t = s
  BY PutIs
<1> HIDE DEF p
<1>5. DOMAIN r.edges = DOMAIN q.edges
  BY <1>3
<1>6. DbOK(r)
  BY <1>1, <1>3, <1>5 DEF DbOK, Vs
<1>7. Edge(q, a, b) /\ r.edges[<<a, b>>] = p
  <2>1. Edge(q, a, b)
    BY <1>1
  <2>2. QED  BY <2>1, <1>3 DEF Edge
<1>8. \A k \in DOMAIN q.edges : k # <<a, b>> => r.edges[k] = q.edges[k]
  BY <1>3
<1>9. DOMAIN NoMap = {}
  BY DEF NoMap
<1>10. ASSUME NEW x, NEW y, NEW t
       PROVE  EdgeIn(r, x, y, t) <=> EdgeIn(d, x, y, t) \/ (x = a /\ y = b /\ t = s)
  <2>1. CASE x = a /\ y = b
    <3>1. EdgeIn(r, x, y, t) <=> t \in DOMAIN q.edges[<<a, b>>] \/ t = s
      BY <1>4, <1>5, <1>7, <2>1 DEF EdgeIn, Edge
    <3>2. CASE <<a, b>> \in DOMAIN d.edges
      BY <3>1, <3>2, <2>1, <1>1 DEF EdgeIn, Edge
    <3>3. CASE <<a, b>> \notin DOMAIN d.edges
      BY <3>1, <3>3, <2>1, <1>1, <1>9 DEF EdgeIn, Edge
    <3>4. QED  BY <3>2, <3>3
  <2>2. CASE ~(x = a /\ y = b)
    <3>1. <<x, y>> # <<a, b>>
      BY <2>2
    <3>2. Edge(r, x, y) <=> Edge(d, x, y)
      BY <1>1, <1>5, <2>2 DEF Edge
    <3>3. Edge(d, x, y) => r.edges[<<x, y>>] = d.edges[<<x, y>>]
      BY <1>1, <1>5, <1>8, <3>1, <3>2 DEF Edge
    <3>4. QED  BY <2>2, <3>2, <3>3 DEF EdgeIn
  <2>3. QED  BY <2>1, <2>2
<1>11. \A x, y : Edge(r, x, y) <=> Edge(d, x, y) \/ (x = a /\ y = b)
  BY <1>1, <1>5 DEF Edge
<1>12. QED  BY <1>1, <1>3, <1>6, <1>10, <1>11

Between(x, y, a, b) == (x = a /\ y = b) \/ (x = b /\ y = a)

\* emit_edges: an edge and the edge back are there, both of the subsystem.
LEMMA EmitEdgesIs ==
    ASSUME NEW d, DbOK(d), NEW a \in Vs(d), NEW b \in Vs(d), NEW e, NEW r, Is(r, EmitEdges(d, e, a, b))
    PROVE  /\ DbOK(r) /\ r.vertices = d.vertices /\ r.roots = d.roots
           /\ \A x, y : Edge(r, x, y) <=> Edge(d, x, y) \/ Between(x, y, a, b)
           /\ \A x, y, t : EdgeIn(r, x, y, t)
                             <=> EdgeIn(d, x, y, t) \/ (t = e.e_subsystem /\ Between(x, y, a, b))
<1> DEFINE s == e.e_subsystem
           q == Related(d, a, b, s, e.relation)
<1>1. r = Related(q, b, a, s, e.rrelation)
  BY DEF EmitEdges, Of, Is
<1>2. q = Related(d, a, b, s, e.relation)
  OBVIOUS
<1> HIDE DEF q, s
<1>3. /\ DbOK(q) /\ q.vertices = d.vertices /\ q.roots = d.roots
      /\ \A x, y : Edge(q, x, y) <=> Edge(d, x, y) \/ (x = a /\ y = b)
      /\ \A x, y, t : EdgeIn(q, x, y, t) <=> EdgeIn(d, x, y, t) \/ (x = a /\ y = b /\ t = s)
  BY <1>2, RelatedIs
<1>4. a \in Vs(q) /\ b \in Vs(q)
  BY <1>3 DEF Vs
<1>5. /\ DbOK(r) /\ r.vertices = q.vertices /\ r.roots = q.roots
      /\ \A x, y : Edge(r, x, y) <=> Edge(q, x, y) \/ (x = b /\ y = a)
      /\ \A x, y, t : EdgeIn(r, x, y, t) <=> EdgeIn(q, x, y, t) \/ (x = b /\ y = a /\ t = s)
  BY <1>1, <1>3, <1>4, RelatedIs
<1>6. \A x, y, t : EdgeIn(r, x, y, t) <=> EdgeIn(d, x, y, t) \/ (t = s /\ Between(x, y, a, b))
  BY <1>3, <1>5 DEF Between
<1>7. \A x, y : Edge(r, x, y) <=> Edge(d, x, y) \/ Between(x, y, a, b)
  BY <1>3, <1>5 DEF Between
<1>8. QED  BY <1>3, <1>5, <1>6, <1>7 DEF s

-----------------------------------------------------------------------------
(* MULTIPLY. *)

LEMMA EmittedIs ==
    ASSUME NEW u, NEW id, NEW path
    PROVE  IsVertex(Blank) /\ IsVertex(Emitted(u, id, path))
BY DEF IsVertex, Blank, Emitted

\* emit_vertex below src: a blank vertex, and the one that is meant.
LEMMA EmitBelowIs ==
    ASSUME NEW d, DbOK(d), NEW u, NEW e, NEW src, NEW i, NEW j, NEW r, r = EmitBelow(d, u, e, src, i, j)
    PROVE  /\ DbOK(r) /\ Len(r.vertices) = Len(d.vertices) + 2
           /\ r.vertices[Len(d.vertices) + 1] = Blank
           /\ r.vertices[Len(d.vertices) + 2]
                = Emitted(u, GenId(e, i, e.multi_scale, j), PathIn(d, src, recipe.vertices[u].subsystem))
           /\ \A x \in Vs(d) : r.vertices[x] = d.vertices[x]
           /\ r.edges = d.edges /\ r.roots = d.roots
<1> DEFINE b == Blank
           v == Emitted(u, GenId(e, i, e.multi_scale, j), PathIn(d, src, recipe.vertices[u].subsystem))
           q == Added(d, b)
<1>1. IsVertex(b) /\ IsVertex(v)
  BY EmittedIs
<1>2. r = Added(q, v) /\ q = Added(d, b)
  BY DEF EmitBelow, Of
<1>3. Len(d.vertices) \in Nat /\ Vs(d) = 1 .. Len(d.vertices)
  BY DbIs
<1> HIDE DEF b, v, q
<1>4. /\ DbOK(q)
      /\ Len(q.vertices) = Len(d.vertices) + 1 /\ q.vertices[Len(d.vertices) + 1] = b
      /\ \A x \in Vs(d) : q.vertices[x] = d.vertices[x]
      /\ q.edges = d.edges /\ q.roots = d.roots
  BY <1>1, <1>2, AddedIs
<1>5. /\ DbOK(r)
      /\ Len(r.vertices) = Len(q.vertices) + 1 /\ r.vertices[Len(q.vertices) + 1] = v
      /\ \A x \in Vs(q) : r.vertices[x] = q.vertices[x]
      /\ r.edges = q.edges /\ r.roots = q.roots
  <2>1. DbOK(q) /\ IsVertex(v) /\ r = Added(q, v)
    BY <1>1, <1>2, <1>4
  <2>2. QED  BY ONLY <2>1, AddedIs
<1>6. Vs(q) = 1 .. Len(d.vertices) + 1
  BY <1>4, DbIs
<1>7. Vs(d) \subseteq Vs(q) /\ Len(d.vertices) + 1 \in Vs(q) /\ Len(q.vertices) + 1 = Len(d.vertices) + 2
  BY <1>3, <1>4, <1>6
<1>8. r.vertices[Len(d.vertices) + 2] = v /\ r.vertices[Len(d.vertices) + 1] = b
  BY <1>4, <1>5, <1>7
<1>9. Len(r.vertices) = Len(d.vertices) + 2
  BY <1>3, <1>4, <1>5
<1>10. \A x \in Vs(d) : r.vertices[x] = d.vertices[x]
  BY <1>4, <1>5, <1>7
<1>11. QED  BY <1>4, <1>5, <1>8, <1>9, <1>10 DEF b, v

\* The source of the k-th target and what the target is.
SourceAt(e, sources, k) == sources[(k - 1) \div e.multi_scale + 1]
TargetAt(d, e, sources, k) ==
    Emitted(e.tgt, GenId(e, (k - 1) % e.multi_scale, e.multi_scale, (k - 1) \div e.multi_scale),
            PathIn(d, SourceAt(e, sources, k), recipe.vertices[e.tgt].subsystem))

\* The edges of the first n targets.
NewEdge(d, e, sources, n, x, y) ==
    \E k \in 1 .. n : Between(x, y, SourceAt(e, sources, k), Len(d.vertices) + 2 * k)

\* After n targets: d is the graph before the first of them.
MulInv(d, e, sources, n, m) ==
    /\ m = [db |-> m.db, made |-> m.made]
    /\ DbOK(m.db) /\ Len(m.db.vertices) = Len(d.vertices) + 2 * n
    /\ m.db.roots = d.roots
    /\ \A x \in Vs(d) : m.db.vertices[x] = d.vertices[x]
    /\ \A k \in 1 .. n : /\ m.db.vertices[Len(d.vertices) + 2 * k - 1] = Blank
                         /\ m.db.vertices[Len(d.vertices) + 2 * k] = TargetAt(d, e, sources, k)
    /\ IsSequence(m.made) /\ Len(m.made) = n
    /\ \A k \in 1 .. n : m.made[k] = Len(d.vertices) + 2 * k
    /\ \A x, y : Edge(m.db, x, y) <=> Edge(d, x, y) \/ NewEdge(d, e, sources, n, x, y)
    /\ \A x, y, t : EdgeIn(m.db, x, y, t)
                      <=> EdgeIn(d, x, y, t) \/ (t = e.e_subsystem /\ NewEdge(d, e, sources, n, x, y))

Mul == INSTANCE LoopLaws WITH Step <- MultiplyStep, Inv <- MulInv

LEMMA MultiplyStepKeeps ==
    ASSUME NEW d, DbOK(d), NEW e, NEW sources, NEW n \in Nat, NEW m, MulInv(d, e, sources, n, m),
           SourceAt(e, sources, n + 1) \in Vs(d)
    PROVE  MulInv(d, e, sources, n + 1, MultiplyStep(e, sources, m, n))
<1> DEFINE N == Len(d.vertices)
           src == SourceAt(e, sources, n + 1)
           i == n % e.multi_scale
           j == n \div e.multi_scale
           below == EmitBelow(m.db, e.tgt, e, src, i, j)
           r == MultiplyStep(e, sources, m, n)
           at == Newest(below)
<1>1. src = sources[j + 1] /\ (n + 1) - 1 = n
  BY DEF SourceAt
<1>2. r = [db |-> EmitEdges(below, e, src, at), made |-> Append(m.made, at)]
  BY <1>1 DEF MultiplyStep, Of
<1>3. N \in Nat /\ Vs(d) = 1 .. N /\ src \in Vs(d)
  BY DbIs
<1>4. /\ DbOK(m.db) /\ Len(m.db.vertices) = N + 2 * n /\ m.db.roots = d.roots
      /\ \A x \in Vs(d) : m.db.vertices[x] = d.vertices[x]
  BY DEF MulInv
<1> DEFINE c == m.db
<1>5. PathIn(m.db, src, recipe.vertices[e.tgt].subsystem) = PathIn(d, src, recipe.vertices[e.tgt].subsystem)
  BY <1>3, <1>4 DEF PathIn
<1>6. Emitted(e.tgt, GenId(e, i, e.multi_scale, j), PathIn(m.db, src, recipe.vertices[e.tgt].subsystem))
        = TargetAt(d, e, sources, n + 1)
  BY <1>1, <1>5 DEF TargetAt
<1>7. below = EmitBelow(m.db, e.tgt, e, src, i, j)
  OBVIOUS
<1>8. /\ DbOK(below) /\ Len(below.vertices) = Len(m.db.vertices) + 2
      /\ below.vertices[Len(m.db.vertices) + 1] = Blank
      /\ below.vertices[Len(m.db.vertices) + 2] = TargetAt(d, e, sources, n + 1)
      /\ \A x \in Vs(m.db) : below.vertices[x] = m.db.vertices[x]
      /\ below.edges = m.db.edges /\ below.roots = m.db.roots
  <2> DEFINE u == e.tgt
  <2>1. DbOK(c) /\ below = EmitBelow(c, u, e, src, i, j)
    BY <1>4
  <2>2. Emitted(u, GenId(e, i, e.multi_scale, j), PathIn(c, src, recipe.vertices[u].subsystem))
          = TargetAt(d, e, sources, n + 1)
    BY <1>6
  <2> HIDE DEF below, i, j, src, c, u
  <2>3. /\ DbOK(below) /\ Len(below.vertices) = Len(c.vertices) + 2
        /\ below.vertices[Len(c.vertices) + 1] = Blank
        /\ below.vertices[Len(c.vertices) + 2]
                = Emitted(u, GenId(e, i, e.multi_scale, j), PathIn(c, src, recipe.vertices[u].subsystem))
        /\ \A x \in Vs(c) : below.vertices[x] = c.vertices[x]
        /\ below.edges = c.edges /\ below.roots = c.roots
    BY ONLY <2>1, EmitBelowIs
  <2>4. QED  BY <2>2, <2>3 DEF c
<1> HIDE DEF below, i, j, src, N
<1>26. Len(m.db.vertices) = N + 2 * n
  BY <1>4
<1>9. /\ Vs(m.db) = 1 .. N + 2 * n /\ Vs(below) = 1 .. N + 2 * n + 2 /\ at = N + 2 * n + 2
      /\ Len(below.vertices) = N + 2 * n + 2
  BY <1>3, <1>4, <1>8, DbIs
<1>10. at \in Vs(below) /\ src \in Vs(below) /\ Vs(d) \subseteq Vs(m.db)
  BY <1>3, <1>9
<1> DEFINE g == EmitEdges(below, e, src, at)
           made == Append(m.made, at)
<1>11. r.db = g /\ r.made = made /\ r = [db |-> r.db, made |-> r.made]
  BY <1>2
<1>12. g = EmitEdges(below, e, src, at) /\ Extended(made, m.made, at)
  BY DEF Extended
<1> HIDE DEF g, at, r, made, c
<1>13. /\ DbOK(g) /\ g.vertices = below.vertices /\ g.roots = below.roots
       /\ \A x, y : Edge(g, x, y) <=> Edge(below, x, y) \/ Between(x, y, src, at)
       /\ \A x, y, t : EdgeIn(g, x, y, t)
                         <=> EdgeIn(below, x, y, t) \/ (t = e.e_subsystem /\ Between(x, y, src, at))
  <2>1. DbOK(below) /\ src \in Vs(below) /\ at \in Vs(below) /\ Is(g, EmitEdges(below, e, src, at))
    BY <1>8, <1>10, <1>12 DEF Is
  <2>2. QED  BY ONLY <2>1, EmitEdgesIs
<1>14. Len(g.vertices) = N + 2 * (n + 1)
  BY <1>3, <1>9, <1>13
<1>15. \A x \in Vs(d) : g.vertices[x] = d.vertices[x]
  BY <1>4, <1>8, <1>10, <1>13
<1>16. \A k \in 1 .. n + 1 : /\ g.vertices[N + 2 * k - 1] = Blank
                             /\ g.vertices[N + 2 * k] = TargetAt(d, e, sources, k)
  <2> SUFFICES ASSUME NEW k \in 1 .. n + 1
               PROVE  /\ g.vertices[N + 2 * k - 1] = Blank
                      /\ g.vertices[N + 2 * k] = TargetAt(d, e, sources, k)
    OBVIOUS
  <2>1. CASE k = n + 1
    <3>3. N + 2 * (n + 1) - 1 = (N + 2 * n) + 1 /\ N + 2 * (n + 1) = (N + 2 * n) + 2
      BY <1>3
    <3>1. N + 2 * k - 1 = Len(m.db.vertices) + 1 /\ N + 2 * k = Len(m.db.vertices) + 2
      BY <2>1, <3>3, <1>26
    <3>2. QED  BY <2>1, <3>1, <1>8, <1>13
  <2>2. CASE k \in 1 .. n
    <3>1. /\ m.db.vertices[N + 2 * k - 1] = Blank
          /\ m.db.vertices[N + 2 * k] = TargetAt(d, e, sources, k)
      BY <2>2 DEF MulInv, N
    <3>2. N + 2 * k - 1 \in Vs(m.db) /\ N + 2 * k \in Vs(m.db)
      BY <2>2, <1>3, <1>9
    <3>3. QED  BY <3>1, <3>2, <1>8, <1>13
  <2>3. QED  BY <2>1, <2>2
<1>17. IsSequence(m.made) /\ Len(m.made) = n /\ \A k \in 1 .. n : m.made[k] = N + 2 * k
  BY DEF MulInv, N
<1>18. /\ IsSequence(made) /\ Len(made) = n + 1
       /\ \A k \in 1 .. n + 1 : made[k] = N + 2 * k
  <2> DEFINE t == m.made
  <2>1. IsSequence(t) /\ Extended(made, t, at) /\ Len(t) = n /\ \A k \in 1 .. n : t[k] = N + 2 * k
    BY <1>12, <1>17
  <2> HIDE DEF t
  <2>2. /\ IsSequence(made) /\ Len(made) = n + 1 /\ made[n + 1] = at
        /\ \A k \in 1 .. n : made[k] = t[k]
    <3>1. IsSequence(t) /\ Extended(made, t, at)
      BY <2>1
    <3>2. /\ IsSequence(made) /\ Len(made) = Len(t) + 1 /\ made[Len(t) + 1] = at
          /\ \A p \in 1 .. Len(t) : made[p] = t[p]
      BY ONLY <3>1, Appended
    <3>3. Len(t) = n
      BY <2>1
    <3>4. QED  BY <3>2, <3>3
  <2>3. at = N + 2 * (n + 1)
    BY <1>3, <1>9
  <2>4. \A k \in 1 .. n + 1 : k = n + 1 \/ k \in 1 .. n
    OBVIOUS
  <2>5. QED  BY <2>1, <2>2, <2>3, <2>4
<1>19. \A x, y : NewEdge(d, e, sources, n + 1, x, y)
                   <=> NewEdge(d, e, sources, n, x, y) \/ Between(x, y, src, at)
  <2>1. at = N + 2 * (n + 1)
    BY <1>3, <1>9
  <2>2. \A k \in 1 .. n + 1 : k = n + 1 \/ k \in 1 .. n
    OBVIOUS
  <2>3. n + 1 \in 1 .. n + 1 /\ \A k \in 1 .. n : k \in 1 .. n + 1
    OBVIOUS
  <2>4. QED  BY <2>1, <2>2, <2>3 DEF NewEdge, src, N
<1>20. /\ \A x, y : Edge(m.db, x, y) <=> Edge(d, x, y) \/ NewEdge(d, e, sources, n, x, y)
       /\ \A x, y, t : EdgeIn(m.db, x, y, t)
                      <=> EdgeIn(d, x, y, t) \/ (t = e.e_subsystem /\ NewEdge(d, e, sources, n, x, y))
  BY DEF MulInv
<1>21. /\ \A x, y : Edge(below, x, y) <=> Edge(m.db, x, y)
       /\ \A x, y, t : EdgeIn(below, x, y, t) <=> EdgeIn(m.db, x, y, t)
  BY <1>8 DEF Edge, EdgeIn
<1>22. \A x, y : Edge(g, x, y) <=> Edge(d, x, y) \/ NewEdge(d, e, sources, n + 1, x, y)
  BY <1>13, <1>19, <1>20, <1>21
<1>23. \A x, y, t : EdgeIn(g, x, y, t)
                      <=> EdgeIn(d, x, y, t) \/ (t = e.e_subsystem /\ NewEdge(d, e, sources, n + 1, x, y))
  BY <1>13, <1>19, <1>20, <1>21
<1>24. MulInv(d, e, sources, n + 1, r)
  BY <1>4, <1>8, <1>11, <1>13, <1>14, <1>15, <1>16, <1>18, <1>22, <1>23 DEF MulInv, N
<1>25. QED  BY <1>24 DEF r

\* What MULTIPLY makes of the graph, target by target.
LEMMA MultipliedIs ==
    ASSUME NEW d, DbOK(d), NEW e, e.multi_scale \in Int, NEW sources \in Seq(Vs(d))
    PROVE  \E n \in Nat : /\ MulInv(d, e, sources, n, Multiplied(d, e, sources))
                          /\ n = IF e.multi_scale > 0 THEN Len(sources) * e.multi_scale ELSE 0
                          /\ \A k \in 1 .. n : SourceAt(e, sources, k) \in Vs(d) \cap Range(sources)
<1> DEFINE ks == [n \in 1 .. Len(sources) * e.multi_scale |-> n - 1]
           M == IF e.multi_scale > 0 THEN Len(sources) * e.multi_scale ELSE 0
<1>1. Len(sources) \in Nat /\ \A i \in 1 .. Len(sources) : sources[i] \in Vs(d) \cap Range(sources)
  BY SequenceOf, SequenceIs
<1>2. M \in Nat
  BY <1>1
<1>3. 1 .. Len(sources) * e.multi_scale = 1 .. M
  <2>1. CASE e.multi_scale > 0
    BY <2>1
  <2>2. CASE e.multi_scale <= 0
    <3>1. Len(sources) * e.multi_scale <= 0 /\ Len(sources) * e.multi_scale \in Int
      BY <2>2, <1>1
    <3>2. 1 .. Len(sources) * e.multi_scale = {}
      BY <3>1
    <3>3. QED  BY <2>2, <3>2
  <2>3. QED  BY <2>1, <2>2
<1>4. ks \in Seq(Nat) /\ Len(ks) = M /\ \A k \in 1 .. M : ks[k] = k - 1
  <2> HIDE DEF M
  <2>1. ks = [n \in 1 .. M |-> n - 1]
    BY <1>3
  <2>2. ks \in [1 .. M -> Nat] /\ \A k \in 1 .. M : ks[k] = k - 1
    BY <2>1, <1>2
  <2> HIDE DEF ks
  <2>3. ks \in Seq(Nat)
    BY <2>2, <1>2
  <2>4. Len(ks) = M
    BY <2>2, <2>3, <1>2
  <2>5. QED  BY <2>2, <2>3, <2>4
<1>5. \A k \in 1 .. M : SourceAt(e, sources, k) \in Vs(d) \cap Range(sources)
  <2> SUFFICES ASSUME NEW k \in 1 .. M
               PROVE  SourceAt(e, sources, k) \in Vs(d) \cap Range(sources)
    OBVIOUS
  <2>1. e.multi_scale > 0 /\ k - 1 \in Nat /\ k - 1 < Len(sources) * e.multi_scale
    BY <1>1
  <2> DEFINE w == e.multi_scale
             q == (k - 1) \div w
             a == k - 1
             L == Len(sources)
  <2>2. q \in Nat /\ q < L
    <3>1. w \in Nat \ {0} /\ a \in Nat /\ a < L * w /\ L \in Nat /\ q = a \div w
      BY <2>1, <1>1
    <3> HIDE DEF w, a, L, q
    <3>2. q \in Nat /\ q * w <= a
      BY <3>1
    <3>3. ~ (q >= L)
      <4> SUFFICES ASSUME q >= L PROVE FALSE
        OBVIOUS
      <4>1. q * w >= L * w
        BY <3>1, <3>2
      <4>2. q * w \in Nat /\ L * w \in Nat
        BY <3>1, <3>2
      <4>3. QED  BY <4>1, <4>2, <3>1, <3>2
    <3>4. QED  BY <3>1, <3>2, <3>3
  <2>3. q + 1 \in 1 .. Len(sources)
    BY <2>2, <1>1
  <2>4. QED  BY <2>3, <1>1 DEF SourceAt
<1>6. Multiplied(d, e, sources) = Mul!Loop(e, sources, Made(d), ks)
  BY ONLY DEF Multiplied, Folded, Mul!Loop, Mul!Folded, Of, Mul!Of, ks
<1> HIDE DEF ks, M
<1>7. MulInv(d, e, sources, 0, Made(d))
  <2>1. Made(d).db = d /\ Made(d).made = <<>> /\ Made(d) = [db |-> Made(d).db, made |-> Made(d).made]
    BY DEF Made
  <2>2. IsSequence(<<>>) /\ Len(<<>>) = 0
    BY DEF IsSequence
  <2>3. \A x, y : ~NewEdge(d, e, sources, 0, x, y)
    BY DEF NewEdge
  <2>4. Len(d.vertices) + 2 * 0 = Len(d.vertices)
    BY DbIs
  <2>5. QED  BY <2>1, <2>2, <2>3, <2>4 DEF MulInv
<1>8. ASSUME NEW n \in 0 .. Len(ks) - 1, NEW m, MulInv(d, e, sources, n, m)
      PROVE  MulInv(d, e, sources, n + 1, MultiplyStep(e, sources, m, ks[n + 1]))
  <2>1. n \in Nat /\ n + 1 \in 1 .. M /\ (n + 1) - 1 = n
    BY <1>2, <1>4
  <2>2. ks[n + 1] = n
    BY <2>1, <1>4
  <2>3. SourceAt(e, sources, n + 1) \in Vs(d)
    BY <2>1, <1>5
  <2>4. QED  BY <2>1, <2>2, <2>3, <1>8, MultiplyStepKeeps
<1>9. MulInv(d, e, sources, Len(ks), Mul!Loop(e, sources, Made(d), ks))
  <2>1. Len(ks) \in Nat
    BY <1>2, <1>4
  <2> DEFINE base == Made(d)
  <2>2. MulInv(d, e, sources, 0, base)
    BY <1>7
  <2> HIDE DEF base
  <2>3. MulInv(d, e, sources, Len(ks), Mul!Loop(e, sources, base, ks))
    BY ONLY <2>1, <2>2, <1>8, Mul!LoopInvariant
  <2>4. QED  BY <2>3 DEF base
<1>10. QED  BY <1>2, <1>4, <1>5, <1>6, <1>9 DEF M

-----------------------------------------------------------------------------
(* What is kept of a sequence. *)

KeptByType(d, type, kept, v) == IF d.vertices[v].type = type THEN Append(kept, v) ELSE kept
KeptByTypeInv(d, type, none, n, kept) ==
    IsSequence(kept) /\ \A x : x \in Range(kept) <=> x \in 1 .. n /\ d.vertices[x].type = type
OfType == INSTANCE LoopLaws WITH Step <- KeptByType, Inv <- KeptByTypeInv

LEMMA ByTypeIs ==
    ASSUME NEW d, DbOK(d), NEW type, NEW r, Is(r, ByType(d, type))
    PROVE  IsSequence(r) /\ \A x : x \in Range(r) <=> x \in Vs(d) /\ d.vertices[x].type = type
<1> DEFINE vs == [v \in DOMAIN d.vertices |-> v]
           base == <<>>
           N == Len(d.vertices)
<1>1. N \in Nat /\ Vs(d) = 1 .. N
  BY DbIs
<1>2. ByType(d, type) = OfType!Loop(d, type, base, vs)
  BY ONLY DEF ByType, Where, Folded, Of, OfType!Loop, OfType!Folded, OfType!Of, vs, base, KeptByType
<1>3. Len(vs) = N /\ \A i \in 1 .. N : vs[i] = i
  <2>1. vs = [v \in 1 .. N |-> v]
    BY <1>1 DEF Vs
  <2>2. vs \in [1 .. N -> Nat] /\ \A i \in 1 .. N : vs[i] = i
    BY <2>1, <1>1
  <2> HIDE DEF vs, N
  <2>3. vs \in Seq(Nat)
    BY <2>2, <1>1
  <2>4. QED  BY <2>2, <2>3, <1>1
<1>4. KeptByTypeInv(d, type, 0, 0, base)
  BY DEF KeptByTypeInv, IsSequence, Range
<1> HIDE DEF vs, base, N
<1>5. ASSUME NEW n \in 0 .. Len(vs) - 1, NEW kept, KeptByTypeInv(d, type, 0, n, kept)
      PROVE  KeptByTypeInv(d, type, 0, n + 1, KeptByType(d, type, kept, vs[n + 1]))
  <2> DEFINE at == n + 1
             next == KeptByType(d, type, kept, at)
  <2>1. vs[n + 1] = at /\ at \in Nat /\ n \in Nat
    BY <1>1, <1>3
  <2>2. IsSequence(kept) /\ \A x : x \in Range(kept) <=> x \in 1 .. n /\ d.vertices[x].type = type
    BY <1>5 DEF KeptByTypeInv
  <2>3. \A x : x \in 1 .. at <=> x \in 1 .. n \/ x = at
    BY <2>1
  <2>4. CASE d.vertices[at].type = type
    <3>1. Extended(next, kept, at)
      BY <2>4 DEF KeptByType, Extended
    <3> HIDE DEF next, at
    <3>2. IsSequence(next) /\ Range(next) = Range(kept) \cup {at}
      BY <2>2, <3>1, Appended
    <3>3. QED  BY <2>1, <2>2, <2>3, <2>4, <3>2 DEF KeptByTypeInv, next, at
  <2>5. CASE d.vertices[at].type # type
    <3>1. next = kept
      BY <2>5 DEF KeptByType
    <3> HIDE DEF next
    <3>2. KeptByTypeInv(d, type, 0, at, next)
      <4> HIDE DEF at
      <4>1. QED  BY <2>2, <2>3, <2>5, <3>1 DEF KeptByTypeInv
    <3>3. QED  BY <3>2, <2>1 DEF next
  <2>6. QED  BY <2>4, <2>5
<1>6. KeptByTypeInv(d, type, 0, Len(vs), OfType!Loop(d, type, base, vs))
  <2>1. Len(vs) \in Nat
    BY <1>1, <1>3
  <2>2. QED  BY ONLY <2>1, <1>4, <1>5, OfType!LoopInvariant
<1>7. QED  BY <1>1, <1>2, <1>3, <1>6 DEF KeptByTypeInv, Is

KeptOut(u, none, kept, e) == IF e.src = u THEN Append(kept, e) ELSE kept
KeptOutInv(u, none, nor, n, kept) ==
    IsSequence(kept) /\ \A e \in Range(kept) : e.src = u /\ e \in Range(recipe.edges)
Out == INSTANCE LoopLaws WITH Step <- KeptOut, Inv <- KeptOutInv

LEMMA OutEdgesAre ==
    ASSUME IsSequence(recipe.edges), NEW u, NEW r, Is(r, OutEdges(u))
    PROVE  IsSequence(r) /\ \A e \in Range(r) : e.src = u /\ e \in Range(recipe.edges)
<1> DEFINE es == recipe.edges
           base == <<>>
<1>1. OutEdges(u) = Out!Loop(u, 0, base, es)
  BY ONLY DEF OutEdges, Where, Folded, Of, Out!Loop, Out!Folded, Out!Of, es, base, KeptOut
<1>2. KeptOutInv(u, 0, 0, 0, base)
  BY DEF KeptOutInv, IsSequence, Range
<1>3. Len(es) \in Nat /\ \A i \in 1 .. Len(es) : es[i] \in Range(recipe.edges)
  BY SequenceIs
<1> HIDE DEF es, base
<1>4. ASSUME NEW n \in 0 .. Len(es) - 1, NEW kept, KeptOutInv(u, 0, 0, n, kept)
      PROVE  KeptOutInv(u, 0, 0, n + 1, KeptOut(u, 0, kept, es[n + 1]))
  <2> DEFINE e == es[n + 1]
             next == KeptOut(u, 0, kept, e)
  <2>1. e \in Range(recipe.edges)
    BY <1>3
  <2>2. IsSequence(kept) /\ \A x \in Range(kept) : x.src = u /\ x \in Range(recipe.edges)
    BY <1>4 DEF KeptOutInv
  <2>3. CASE e.src = u
    <3>1. Extended(next, kept, e)
      BY <2>3 DEF KeptOut, Extended
    <3> HIDE DEF next, e
    <3>2. IsSequence(next) /\ Range(next) = Range(kept) \cup {e}
      BY <2>2, <3>1, Appended
    <3>3. QED  BY <2>1, <2>2, <2>3, <3>2 DEF KeptOutInv, next, e
  <2>4. CASE e.src # u
    <3>1. next = kept
      BY <2>4 DEF KeptOut
    <3>2. QED  BY <2>2, <3>1 DEF KeptOutInv
  <2>5. QED  BY <2>3, <2>4
<1>5. KeptOutInv(u, 0, 0, Len(es), Out!Loop(u, 0, base, es))
  <2>1. Len(es) \in Nat
    BY <1>3
  <2>2. QED  BY ONLY <2>1, <1>2, <1>4, Out!LoopInvariant
<1>6. QED  BY <1>1, <1>5 DEF KeptOutInv, Is

-----------------------------------------------------------------------------
(* ASSOCIATE_IN and ASSOCIATE_BY_PATH_IN. *)

\* v is w but for where it is and what it belongs to.
Kin(v, w) == v.type = w.type /\ v.size = w.size /\ v.id = w.id /\ v.name = w.name

\* v is w, and it was put in a subsystem.
Joined(v, w, s) ==
    /\ IsVertex(v) /\ Kin(v, w)
    /\ \A t : t \in DOMAIN v.paths <=> t \in DOMAIN w.paths \/ t = s
    /\ \A t : t \in DOMAIN v.member_of <=> t \in DOMAIN w.member_of \/ t = s
    /\ \A t \in DOMAIN w.paths : t # s => v.paths[t] = w.paths[t]

LEMMA AssociatedIs ==
    ASSUME NEW d, DbOK(d), NEW e, NEW src \in Vs(d), NEW tgt \in Vs(d), NEW r, Is(r, Associated(d, e, src, tgt))
    PROVE  /\ DbOK(r) /\ Len(r.vertices) = Len(d.vertices) /\ r.roots = d.roots
           /\ \A x \in Vs(d) : x # tgt => r.vertices[x] = d.vertices[x]
           /\ Joined(r.vertices[tgt], d.vertices[tgt], e.e_subsystem)
           /\ r.vertices[tgt].paths[e.e_subsystem]
                = Append(PathIn(d, src, e.e_subsystem), d.vertices[tgt].name)
           /\ \A x, y : Edge(r, x, y) <=> Edge(d, x, y) \/ Between(x, y, src, tgt)
           /\ \A x, y, t : EdgeIn(r, x, y, t)
                             <=> EdgeIn(d, x, y, t) \/ (t = e.e_subsystem /\ Between(x, y, src, tgt))
<1> DEFINE s == e.e_subsystem
           path == Append(PathIn(d, src, s), d.vertices[tgt].name)
           v == d.vertices[tgt]
           ps == Put(v.paths, s, path)
           ms == Put(v.member_of, s, "*")
           w == [type |-> v.type, size |-> v.size, id |-> v.id, name |-> v.name, paths |-> ps, member_of |-> ms]
           q == [d EXCEPT !.vertices[tgt].paths = Put(@, s, path), !.vertices[tgt].member_of = Put(@, s, "*")]
<1>1. Is(r, EmitEdges(q, e, src, tgt))
  BY DEF Associated, Of, Is
<1>2. IsVertex(v) /\ Len(d.vertices) \in Nat /\ Vs(d) = 1 .. Len(d.vertices) /\ DOMAIN d.out = Vs(d)
  BY DbIs DEF DbOK
<1>3. /\ q.roots = d.roots /\ q.edges = d.edges /\ q.out = d.out
      /\ q = [vertices |-> q.vertices, edges |-> q.edges, out |-> q.out, roots |-> q.roots]
      /\ DOMAIN q.vertices = DOMAIN d.vertices
      /\ \A x \in Vs(d) : x # tgt => q.vertices[x] = d.vertices[x]
  <2> DEFINE vertices == [d.vertices EXCEPT ![tgt].paths = Put(@, s, path), ![tgt].member_of = Put(@, s, "*")]
  <2>1. d = [vertices |-> d.vertices, edges |-> d.edges, out |-> d.out, roots |-> d.roots]
    BY DEF DbOK
  <2>2. q = [vertices |-> vertices, edges |-> d.edges, out |-> d.out, roots |-> d.roots]
    <3> DEFINE v1 == [d.vertices EXCEPT ![tgt].paths = Put(@, s, path)]
               q1 == [d EXCEPT !.vertices[tgt].paths = Put(@, s, path)]
               v2 == [v1 EXCEPT ![tgt].member_of = Put(@, s, "*")]
    <3> HIDE DEF path, s
    <3>1. q1 = [vertices |-> v1, edges |-> d.edges, out |-> d.out, roots |-> d.roots]
      BY <2>1
    <3>2. [q1 EXCEPT !.vertices[tgt].member_of = Put(@, s, "*")]
            = [vertices |-> v2, edges |-> d.edges, out |-> d.out, roots |-> d.roots]
      <4> HIDE DEF q1, v1
      <4>1. QED  BY <3>1
    <3>3. q = [q1 EXCEPT !.vertices[tgt].member_of = Put(@, s, "*")]
      OBVIOUS
    <3>4. v2 = vertices
      OBVIOUS
    <3> HIDE DEF q, q1, v2, vertices
    <3>5. QED  BY <3>2, <3>3, <3>4
  <2>3. DOMAIN vertices = DOMAIN d.vertices /\ \A x \in Vs(d) : x # tgt => vertices[x] = d.vertices[x]
    <3> HIDE DEF path, s
    <3>1. QED  BY DEF Vs
  <2> HIDE DEF q, vertices
  <2>4. QED  BY <2>2, <2>3
<1>4. q.vertices[tgt] = w
  <2>1. tgt \in DOMAIN d.vertices
    BY DEF Vs
  <2>2. q.vertices[tgt] = [[v EXCEPT !.paths = Put(@, s, path)] EXCEPT !.member_of = Put(@, s, "*")]
    <3> HIDE DEF path, s
    <3>1. QED  BY <2>1 DEF DbOK
  <2> HIDE DEF path, s
  <2>3. v = [type |-> v.type, size |-> v.size, id |-> v.id, name |-> v.name, paths |-> v.paths,
             member_of |-> v.member_of]
    BY <1>2 DEF IsVertex
  <2> HIDE DEF v
  <2>4. [[v EXCEPT !.paths = Put(@, s, path)] EXCEPT !.member_of = Put(@, s, "*")] = w
    <3> DEFINE c == [v EXCEPT !.paths = Put(@, s, path)]
    <3>1. c = [type |-> v.type, size |-> v.size, id |-> v.id, name |-> v.name, paths |-> ps,
               member_of |-> v.member_of]
      <4> HIDE DEF ps
      <4>1. ps = Put(v.paths, s, path)
        BY DEF ps
      <4>2. QED  BY <2>3, <4>1
    <3> HIDE DEF c, ps
    <3>2. [c EXCEPT !.member_of = Put(@, s, "*")] = w
      BY <3>1
    <3>3. QED  BY <3>2 DEF c
  <2>5. QED  BY <2>2, <2>4
<1>5. /\ \A t : t \in DOMAIN ps <=> t \in DOMAIN v.paths \/ t = s
      /\ ps[s] = path /\ \A t \in DOMAIN v.paths : t # s => ps[t] = v.paths[t]
      /\ \A t : t \in DOMAIN ms <=> t \in DOMAIN v.member_of \/ t = s
  <2> DEFINE old == v.paths
             was == v.member_of
             star == "*"
  <2>1. ps = Put(old, s, path) /\ ms = Put(was, s, star)
    OBVIOUS
  <2>2. /\ \A t : t \in DOMAIN Put(old, s, path) <=> t \in DOMAIN old \/ t = s
        /\ Put(old, s, path)[s] = path
        /\ \A t \in DOMAIN old : t # s => Put(old, s, path)[t] = old[t]
    <3> HIDE DEF old, s, path
    <3>1. QED  BY PutIs
  <2>3. \A t : t \in DOMAIN Put(was, s, star) <=> t \in DOMAIN was \/ t = s
    <3> HIDE DEF was, s, star
    <3>1. QED  BY PutIs
  <2> HIDE DEF ps, ms, s, path
  <2>4. QED  BY <2>1, <2>2, <2>3
<1> HIDE DEF q, path, ps, ms, s
<1>6. /\ IsVertex(w) /\ Kin(w, v) /\ w.paths = ps /\ w.member_of = ms
  BY DEF IsVertex, Kin
<1> HIDE DEF w
<1>7. Joined(w, v, s) /\ w.paths[s] = path
  <2> HIDE DEF v
  <2>1. QED  BY <1>5, <1>6 DEF Joined
<1>8. IsSequence(q.vertices) /\ Len(q.vertices) = Len(d.vertices)
  <2> DEFINE a == d.vertices
             b == q.vertices
             N == Len(a)
             S == Range(b)
  <2>1. IsSequence(a) /\ DOMAIN a = 1 .. N /\ N \in Nat
    BY <1>2 DEF DbOK, Vs
  <2>2. b = [i \in 1 .. N |-> b[i]]
    <3>1. b = [d.vertices EXCEPT ![tgt] = b[tgt]]
      <4>1. q.vertices = [d.vertices EXCEPT ![tgt].paths = Put(@, s, path), ![tgt].member_of = Put(@, s, "*")]
        BY DEF q, DbOK
      <4>2. QED  BY <4>1, <2>1 DEF Vs
    <3>2. QED  BY <3>1, <2>1
  <2> HIDE DEF a, b, N
  <2>3. b \in [1 .. N -> S]
    BY <2>2 DEF S, Range
  <2> HIDE DEF S
  <2>4. b \in Seq(S)
    BY <2>1, <2>3
  <2>5. Len(b) = N
    BY <2>1, <2>3, <2>4
  <2>6. QED  BY <2>4, <2>5, SequenceOf DEF a, b, N
<1>9. Vs(q) = Vs(d)
  BY <1>3 DEF Vs
<1>10. \A x \in Vs(d) : IsVertex(q.vertices[x])
  <2>1. \A x \in Vs(d) : IsVertex(d.vertices[x])
    BY DEF DbOK
  <2>2. QED  BY <2>1, <1>3, <1>4, <1>6
<1>11. DbOK(q)
  <2>1. \A x \in Vs(d) : q.out[x] \in Seq(Vs(d))
    BY <1>3 DEF DbOK
  <2>2. DOMAIN q.edges = {x \in Vs(d) \X Vs(d) : x[2] \in Range(q.out[x[1]])}
    BY <1>3 DEF DbOK
  <2>3. IsSequence(q.out) /\ Len(q.out) = Len(q.vertices)
    BY <1>3, <1>8 DEF DbOK
  <2>4. \A t \in DOMAIN q.roots : q.roots[t] \in Vs(d)
    BY <1>3 DEF DbOK
  <2>5. q = [vertices |-> q.vertices, edges |-> q.edges, out |-> q.out, roots |-> q.roots]
    BY <1>3
  <2>6. QED  BY <1>8, <1>9, <1>10, <2>1, <2>2, <2>3, <2>4, <2>5 DEF DbOK
<1>12. /\ DbOK(r) /\ r.vertices = q.vertices /\ r.roots = q.roots
       /\ \A x, y : Edge(r, x, y) <=> Edge(q, x, y) \/ Between(x, y, src, tgt)
       /\ \A x, y, t : EdgeIn(r, x, y, t)
                             <=> EdgeIn(q, x, y, t) \/ (t = e.e_subsystem /\ Between(x, y, src, tgt))
  <2>1. src \in Vs(q) /\ tgt \in Vs(q)
    BY <1>9
  <2>2. QED  BY ONLY <2>1, <1>1, <1>11, EmitEdgesIs
<1>13. /\ \A x, y : Edge(q, x, y) <=> Edge(d, x, y)
       /\ \A x, y, t : EdgeIn(q, x, y, t) <=> EdgeIn(d, x, y, t)
  BY <1>3 DEF Edge, EdgeIn
<1>14. /\ DbOK(r) /\ Len(r.vertices) = Len(d.vertices) /\ r.roots = d.roots
       /\ \A x \in Vs(d) : x # tgt => r.vertices[x] = d.vertices[x]
  BY <1>3, <1>8, <1>12
<1>15. Joined(r.vertices[tgt], d.vertices[tgt], e.e_subsystem)
  BY <1>4, <1>7, <1>12 DEF v, s
<1>16. r.vertices[tgt].paths[e.e_subsystem] = Append(PathIn(d, src, e.e_subsystem), d.vertices[tgt].name)
  BY <1>4, <1>7, <1>12 DEF v, s, path
<1>17. /\ \A x, y : Edge(r, x, y) <=> Edge(d, x, y) \/ Between(x, y, src, tgt)
       /\ \A x, y, t : EdgeIn(r, x, y, t)
                             <=> EdgeIn(d, x, y, t) \/ (t = e.e_subsystem /\ Between(x, y, src, tgt))
  BY <1>12, <1>13
<1>18. QED  BY <1>14, <1>15, <1>16, <1>17

LEMMA JoinedTwice ==
    ASSUME NEW u, NEW v, NEW w, NEW s, Joined(u, v, s), Joined(v, w, s) \/ v = w
    PROVE  Joined(u, w, s)
BY DEF Joined, Kin

\* An edge has its edge back, in the same subsystems.
Mirrored(d) ==
    /\ \A x, y : Edge(d, x, y) => Edge(d, y, x)
    /\ \A x, y, t : EdgeIn(d, x, y, t) => EdgeIn(d, y, x, t)

\* The path that x was given is that of the vertex src in d, and its name.
PathOver(m, d, x, src, e) ==
    /\ EdgeIn(m, src, x, e.e_subsystem)
    /\ d.vertices[src].type # recipe.vertices[e.tgt].type =>
          m.vertices[x].paths[e.e_subsystem] = Append(PathIn(d, src, e.e_subsystem), d.vertices[x].name)

\* After some of the targets: d is the graph before the first of them.
AssocInv(d, e, sources, n, m) ==
    /\ m = [db |-> m.db, made |-> m.made]
    /\ DbOK(m.db) /\ Vs(m.db) = Vs(d) /\ m.db.roots = d.roots
    /\ IsSequence(m.made)
    /\ \A x \in Range(m.made) : /\ x \in Vs(d) /\ d.vertices[x].type = recipe.vertices[e.tgt].type
                                /\ Joined(m.db.vertices[x], d.vertices[x], e.e_subsystem)
                                /\ \E src \in Range(sources) : PathOver(m.db, d, x, src, e)
    /\ \A x \in Vs(d) : x \notin Range(m.made) => m.db.vertices[x] = d.vertices[x]
    /\ Mirrored(d) => Mirrored(m.db)
    /\ \A x, y, t : EdgeIn(d, x, y, t) => EdgeIn(m.db, x, y, t)
    /\ \A x, y, t : t # e.e_subsystem => (EdgeIn(m.db, x, y, t) => EdgeIn(d, x, y, t))

As == INSTANCE LoopLaws WITH Step <- AssociateStep, Inv <- AssocInv

LEMMA AssociateStepKeeps ==
    ASSUME NEW d, NEW e, NEW sources, NEW src \in Range(sources), src \in Vs(d),
           NEW n, NEW m, AssocInv(d, e, sources, n, m),
           NEW tgt \in Vs(d), d.vertices[tgt].type = recipe.vertices[e.tgt].type
    PROVE  AssocInv(d, e, sources, n + 1, AssociateStep(e, src, m, tgt))
<1>1. CASE ~Takes(m.db, e, src, tgt)
  <2>1. AssociateStep(e, src, m, tgt) = m
    BY <1>1 DEF AssociateStep
  <2>2. QED  BY <2>1 DEF AssocInv
<1>2. CASE Takes(m.db, e, src, tgt)
  <2> DEFINE c == m.db
             r == Associated(c, e, src, tgt)
             old == m.made
             made == Append(old, tgt)
             s == e.e_subsystem
             T == recipe.vertices[e.tgt].type
             q == AssociateStep(e, src, m, tgt)
  <2>1. q = [db |-> r, made |-> made]
    BY <1>2 DEF AssociateStep
  <2>2. q.db = r /\ q.made = made /\ q = [db |-> q.db, made |-> q.made]
    BY <2>1
  <2>3. Is(r, Associated(c, e, src, tgt)) /\ Extended(made, old, tgt)
    BY DEF Is, Extended
  <2>4. /\ DbOK(c) /\ Vs(c) = Vs(d) /\ c.roots = d.roots /\ IsSequence(old)
        /\ \A x \in Range(old) : /\ x \in Vs(d) /\ d.vertices[x].type = T
                                 /\ Joined(c.vertices[x], d.vertices[x], s)
                                 /\ \E y \in Range(sources) : PathOver(c, d, x, y, e)
        /\ \A x \in Vs(d) : x \notin Range(old) => c.vertices[x] = d.vertices[x]
        /\ Mirrored(d) => Mirrored(c)
        /\ \A x, y, t : EdgeIn(d, x, y, t) => EdgeIn(c, x, y, t)
        /\ \A x, y, t : t # s => (EdgeIn(c, x, y, t) => EdgeIn(d, x, y, t))
    BY DEF AssocInv
  <2> HIDE DEF c, r, old, made, q
  <2>5. /\ DbOK(r) /\ Len(r.vertices) = Len(c.vertices) /\ r.roots = c.roots
        /\ \A x \in Vs(c) : x # tgt => r.vertices[x] = c.vertices[x]
        /\ Joined(r.vertices[tgt], c.vertices[tgt], s)
        /\ r.vertices[tgt].paths[s] = Append(PathIn(c, src, s), c.vertices[tgt].name)
        /\ \A x, y : Edge(r, x, y) <=> Edge(c, x, y) \/ Between(x, y, src, tgt)
        /\ \A x, y, t : EdgeIn(r, x, y, t) <=> EdgeIn(c, x, y, t) \/ (t = s /\ Between(x, y, src, tgt))
    <3>1. src \in Vs(c) /\ tgt \in Vs(c)
      BY <2>4
    <3>2. QED  BY <2>3, <2>4, <3>1, AssociatedIs
  <2>6. IsSequence(made) /\ Range(made) = Range(old) \cup {tgt}
    BY ONLY <2>3, <2>4, Appended
  <2>7. Vs(r) = Vs(d)
    BY <2>4, <2>5, DbIs
  <2>8. \A x \in Vs(d) : x # tgt => r.vertices[x] = c.vertices[x]
    BY <2>4, <2>5
  <2>9. /\ \A x, y, t : EdgeIn(d, x, y, t) => EdgeIn(r, x, y, t)
        /\ \A x, y, t : t # s => (EdgeIn(r, x, y, t) => EdgeIn(d, x, y, t))
    BY <2>4, <2>5
  <2>10. Mirrored(d) => Mirrored(r)
    <3>1. \A x, y : Between(x, y, src, tgt) => Between(y, x, src, tgt)
      BY DEF Between
    <3>2. QED  BY <2>4, <2>5, <3>1 DEF Mirrored
  <2>11. ASSUME NEW x \in Range(made)
         PROVE  /\ x \in Vs(d) /\ d.vertices[x].type = T
                /\ Joined(r.vertices[x], d.vertices[x], s)
                /\ \E y \in Range(sources) : PathOver(r, d, x, y, e)
    <3>1. CASE x = tgt
      <4>1. Joined(c.vertices[tgt], d.vertices[tgt], s) \/ c.vertices[tgt] = d.vertices[tgt]
        BY <2>4
      <4>2. Joined(r.vertices[tgt], d.vertices[tgt], s)
        BY <2>5, <4>1, JoinedTwice
      <4>3. c.vertices[tgt].name = d.vertices[tgt].name
        BY <4>1 DEF Joined, Kin
      <4>4. d.vertices[src].type # T => PathIn(c, src, s) = PathIn(d, src, s)
        <5>1. d.vertices[src].type # T => c.vertices[src] = d.vertices[src]
          BY <2>4
        <5>2. QED  BY <5>1 DEF PathIn
      <4>5. EdgeIn(r, src, tgt, s)
        BY <2>5 DEF Between
      <4>6. PathOver(r, d, tgt, src, e)
        <5>1. d.vertices[src].type # T =>
                r.vertices[tgt].paths[s] = Append(PathIn(d, src, s), d.vertices[tgt].name)
          BY <2>5, <4>3, <4>4
        <5>2. QED  BY <4>5, <5>1 DEF PathOver
      <4>7. QED  BY <3>1, <4>2, <4>6
    <3>2. CASE x # tgt
      <4>1. x \in Range(old)
        BY <2>6, <3>2
      <4>2. r.vertices[x] = c.vertices[x]
        BY <2>4, <2>8, <3>2, <4>1
      <4>3. PICK y \in Range(sources) : PathOver(c, d, x, y, e)
        BY <2>4, <4>1
      <4>4. EdgeIn(c, y, x, s) => EdgeIn(r, y, x, s)
        BY <2>5
      <4>5. PathOver(r, d, x, y, e)
        BY <4>2, <4>3, <4>4 DEF PathOver
      <4>6. QED  BY <2>4, <4>1, <4>2, <4>5
    <3>3. QED  BY <3>1, <3>2
  <2>12. \A x \in Vs(d) : x \notin Range(made) => r.vertices[x] = d.vertices[x]
    BY <2>4, <2>6, <2>8
  <2>13. r.roots = d.roots
    BY <2>4, <2>5
  <2>14. AssocInv(d, e, sources, n + 1, q)
    BY <2>2, <2>5, <2>6, <2>7, <2>9, <2>10, <2>11, <2>12, <2>13 DEF AssocInv
  <2>15. QED  BY <2>14 DEF q
<1>3. QED  BY <1>1, <1>2

\* The associations of one source.
LEMMA AssociateSourceKeeps ==
    ASSUME NEW d, NEW e, NEW sources, NEW src \in Range(sources), src \in Vs(d),
           NEW n, NEW k, NEW m, AssocInv(d, e, sources, n, m)
    PROVE  AssocInv(d, e, sources, k, AssociateSource(e, m, src))
<1> DEFINE T == recipe.vertices[e.tgt].type
           c == m.db
           tgts == ByType(c, T)
<1>1. AssociateSource(e, m, src) = As!Loop(e, src, m, tgts)
  BY ONLY DEF AssociateSource, Folded, Of, As!Loop, As!Folded, As!Of, tgts, c, T
<1>2. DbOK(c) /\ Is(tgts, ByType(c, T)) /\ Vs(c) = Vs(d)
  BY DEF Is, AssocInv
<1>3. \A x \in Vs(d) : c.vertices[x].type = d.vertices[x].type
  BY DEF AssocInv, Joined, Kin
<1> HIDE DEF tgts, c, T
<1>4. IsSequence(tgts) /\ \A x : x \in Range(tgts) <=> x \in Vs(c) /\ c.vertices[x].type = T
  BY ONLY <1>2, ByTypeIs
<1>5. Len(tgts) \in Nat /\ \A i \in 1 .. Len(tgts) : tgts[i] \in Vs(d) /\ d.vertices[tgts[i]].type = T
  BY <1>2, <1>3, <1>4, SequenceIs
<1>6. AssocInv(d, e, sources, 0, m)
  BY DEF AssocInv
<1>7. ASSUME NEW i \in 0 .. Len(tgts) - 1, NEW x, AssocInv(d, e, sources, i, x)
      PROVE  AssocInv(d, e, sources, i + 1, AssociateStep(e, src, x, tgts[i + 1]))
  <2> DEFINE tgt == tgts[i + 1]
  <2>1. i + 1 \in 1 .. Len(tgts)
    BY <1>5
  <2>2. tgt \in Vs(d) /\ d.vertices[tgt].type = recipe.vertices[e.tgt].type
    BY <1>5, <2>1 DEF T
  <2> HIDE DEF tgt
  <2>3. AssocInv(d, e, sources, i + 1, AssociateStep(e, src, x, tgt))
    BY <1>7, <2>2, AssociateStepKeeps
  <2>4. QED  BY <2>3 DEF tgt
<1>8. AssocInv(d, e, sources, Len(tgts), As!Loop(e, src, m, tgts))
  <2>1. Len(tgts) \in Nat
    BY <1>5
  <2>2. QED  BY ONLY <2>1, <1>6, <1>7, As!LoopInvariant
<1>9. QED  BY <1>1, <1>8 DEF AssocInv

SourceStep(e, none, m, src) == AssociateSource(e, m, src)
All == INSTANCE LoopLaws WITH Step <- SourceStep, Inv <- AssocInv

\* What the two associations make of the graph.
LEMMA AssociatedAllIs ==
    ASSUME NEW d, DbOK(d), NEW e, NEW sources \in Seq(Vs(d))
    PROVE  AssocInv(d, e, sources, 0, AssociatedAll(d, e, sources))
<1> DEFINE base == Made(d)
<1>1. AssociatedAll(d, e, sources) = All!Loop(e, 0, base, sources)
  BY ONLY DEF AssociatedAll, Folded, Of, All!Loop, All!Folded, All!Of, SourceStep, base
<1>2. AssocInv(d, e, sources, 0, base)
  <2>1. base.db = d /\ base.made = <<>> /\ base = [db |-> base.db, made |-> base.made]
    BY DEF Made
  <2>2. IsSequence(<<>>) /\ Range(<<>>) = {}
    BY DEF IsSequence, Range
  <2>3. QED  BY <2>1, <2>2 DEF AssocInv
<1> HIDE DEF base
<1>3. Len(sources) \in Nat /\ \A i \in 1 .. Len(sources) : sources[i] \in Vs(d) /\ sources[i] \in Range(sources)
  BY SequenceOf, SequenceIs
<1>4. ASSUME NEW i \in 0 .. Len(sources) - 1, NEW x, AssocInv(d, e, sources, i, x)
      PROVE  AssocInv(d, e, sources, i + 1, SourceStep(e, 0, x, sources[i + 1]))
  <2> DEFINE src == sources[i + 1]
  <2>1. src \in Range(sources) /\ src \in Vs(d)
    BY <1>3
  <2> HIDE DEF src
  <2>2. AssocInv(d, e, sources, i + 1, AssociateSource(e, x, src))
    BY <1>4, <2>1, AssociateSourceKeeps
  <2>3. QED  BY <2>2 DEF src, SourceStep
<1>5. AssocInv(d, e, sources, Len(sources), All!Loop(e, 0, base, sources))
  <2>1. Len(sources) \in Nat
    BY <1>3
  <2>2. QED  BY ONLY <2>1, <1>2, <1>4, All!LoopInvariant
<1>6. QED  BY <1>1, <1>5 DEF AssocInv

-----------------------------------------------------------------------------
(* One tree edge. *)

\* What belongs to a subsystem has a type, and so have the roots.
TypedDb(d) ==
    /\ \A v \in Vs(d) : d.vertices[v].type = "" => DOMAIN d.vertices[v].member_of = {}
    /\ \A v \in Vs(d) : d.vertices[v].size \in Nat
    /\ \A s \in DOMAIN d.roots : d.vertices[d.roots[s]].type # ""

LEMMA EmitRootIs ==
    ASSUME NEW d, DbOK(d), NEW u, NEW r, Is(r, EmitRoot(d, u))
    PROVE  /\ DbOK(r) /\ Len(r.vertices) = Len(d.vertices) + 1
           /\ r.vertices[Len(d.vertices) + 1] = Emitted(u, 0, <<>>)
           /\ \A x \in Vs(d) : r.vertices[x] = d.vertices[x]
           /\ r.edges = d.edges
           /\ \A s : s \in DOMAIN r.roots <=> s \in DOMAIN d.roots \/ s = recipe.vertices[u].subsystem
           /\ r.roots[recipe.vertices[u].subsystem] = Len(d.vertices) + 1
           /\ \A s \in DOMAIN d.roots : s # recipe.vertices[u].subsystem => r.roots[s] = d.roots[s]
<1> DEFINE v == Emitted(u, 0, <<>>)
           q == Added(d, v)
           S == recipe.vertices[u].subsystem
           at == Newest(d) + 1
           old == d.roots
           roots == Put(old, S, at)
<1>1. IsVertex(v)
  BY EmittedIs
<1>2. r = [q EXCEPT !.roots = Put(@, S, at)] /\ q = Added(d, v)
  BY DEF EmitRoot, Is
<1>3. Len(d.vertices) \in Nat /\ Vs(d) = 1 .. Len(d.vertices) /\ at = Len(d.vertices) + 1
  BY DbIs
<1> HIDE DEF v, q, S, at
<1>4. /\ DbOK(q)
      /\ Len(q.vertices) = Len(d.vertices) + 1 /\ q.vertices[Len(d.vertices) + 1] = v
      /\ \A x \in Vs(d) : q.vertices[x] = d.vertices[x]
      /\ q.edges = d.edges /\ q.roots = d.roots
  BY <1>1, <1>2, AddedIs
<1>5. /\ \A s : s \in DOMAIN roots <=> s \in DOMAIN old \/ s = S
      /\ roots[S] = at /\ \A s \in DOMAIN old : s # S => roots[s] = old[s]
  <2> HIDE DEF old
  <2>1. QED  BY PutIs
<1> HIDE DEF roots
<1>6. /\ r.vertices = q.vertices /\ r.edges = q.edges /\ r.out = q.out /\ r.roots = roots
      /\ r = [vertices |-> r.vertices, edges |-> r.edges, out |-> r.out, roots |-> r.roots]
  BY <1>2, <1>4 DEF DbOK, roots
<1>7. Vs(r) = Vs(q) /\ Vs(q) = 1 .. Len(d.vertices) + 1
  BY <1>4, <1>6, DbIs DEF Vs
<1>8. \A s \in DOMAIN roots : roots[s] \in Vs(r)
  <2>1. at \in Vs(r)
    BY <1>3, <1>7
  <2>2. \A s \in DOMAIN old : old[s] \in Vs(q)
    BY <1>4 DEF DbOK
  <2>3. QED  BY <1>5, <1>7, <2>1, <2>2
<1>9. DbOK(r)
  BY <1>4, <1>6, <1>7, <1>8 DEF DbOK
<1>10. QED  BY <1>3, <1>4, <1>5, <1>6, <1>9 DEF v, S

\* With its first tree edge a recipe vertex has what it stands for: what is
\* known already, the root that is there, or a new one.
RootedAs(e, from) ==
    \/ from = [db |-> db, made |-> SourcesOf(e.src)]
    \/ /\ recipe.vertices[e.src].subsystem \in DOMAIN db.roots
       /\ from = [db |-> db, made |-> <<db.roots[recipe.vertices[e.src].subsystem]>>]
    \/ /\ recipe.vertices[e.src].subsystem \notin DOMAIN db.roots
       /\ Is(from.db, EmitRoot(db, e.src)) /\ from.made = <<Len(db.vertices) + 1>>

LEMMA RootedIs ==
    ASSUME NEW e, NEW from, Is(from, Rooted(e))
    PROVE  RootedAs(e, from)
BY DEF Rooted, RootedAs, Is, Newest

\* The graph d grew to r.
Grown(d, r) == Vs(d) \subseteq Vs(r) /\ \A x \in Vs(d) : Kin(r.vertices[x], d.vertices[x])

LEMMA RootedKeeps ==
    ASSUME IsRecipe(recipe), DbOK(db), TypedDb(db), \A u : SourcesOf(u) \in Seq(Vs(db)),
           NEW e, e.src \in DOMAIN recipe.vertices, NEW from, RootedAs(e, from)
    PROVE  DbOK(from.db) /\ TypedDb(from.db) /\ from.made \in Seq(Vs(from.db)) /\ Grown(db, from.db)
<1> DEFINE d == db
           r == from.db
           S == recipe.vertices[e.src].subsystem
<1>1. Grown(d, d)
  BY DEF Grown, Kin
<1>2. CASE from = [db |-> db, made |-> SourcesOf(e.src)]
  BY <1>1, <1>2
<1>3. CASE S \in DOMAIN db.roots /\ from = [db |-> db, made |-> <<db.roots[S]>>]
  <2>1. db.roots[S] \in Vs(db)
    BY <1>3 DEF DbOK
  <2>2. <<db.roots[S]>> \in Seq(Vs(db))
    BY <2>1
  <2>3. QED  BY <1>1, <1>3, <2>2
<1>4. CASE Is(from.db, EmitRoot(db, e.src)) /\ from.made = <<Len(db.vertices) + 1>>
  <2> DEFINE u == e.src
             v == Emitted(u, 0, <<>>)
             N == Len(d.vertices)
  <2>1. Is(r, EmitRoot(d, u)) /\ DbOK(d)
    BY <1>4
  <2>2. v.type # "" /\ v.size \in Nat
    BY DEF IsRecipe, Emitted
  <2>3. N \in Nat /\ Vs(d) = 1 .. N
    BY DbIs
  <2>4. TypedDb(d) /\ \A s \in DOMAIN d.roots : d.roots[s] \in Vs(d)
    BY DEF DbOK
  <2> HIDE DEF d, r, u, v
  <2>5. /\ DbOK(r) /\ Len(r.vertices) = N + 1 /\ r.vertices[N + 1] = Emitted(u, 0, <<>>)
        /\ \A x \in Vs(d) : r.vertices[x] = d.vertices[x]
        /\ \A s : s \in DOMAIN r.roots <=> s \in DOMAIN d.roots \/ s = recipe.vertices[u].subsystem
        /\ r.roots[recipe.vertices[u].subsystem] = N + 1
        /\ \A s \in DOMAIN d.roots : s # recipe.vertices[u].subsystem => r.roots[s] = d.roots[s]
    BY ONLY <2>1, EmitRootIs
  <2> HIDE DEF N
  <2>6. Vs(r) = 1 .. N + 1
    BY <2>5, DbIs
  <2>7. \A x \in Vs(r) : x = N + 1 \/ x \in Vs(d)
    BY <2>3, <2>6
  <2>8. Vs(d) \subseteq Vs(r) /\ N + 1 \in Vs(r)
    BY <2>3, <2>6
  <2>9. Grown(d, r)
    BY <2>5, <2>8 DEF Grown, Kin
  <2>10. TypedDb(r)
    <3>1. \A x \in Vs(r) : r.vertices[x].type = "" => DOMAIN r.vertices[x].member_of = {}
      BY <2>2, <2>4, <2>5, <2>7 DEF TypedDb, v
    <3>2. \A s \in DOMAIN r.roots : r.vertices[r.roots[s]].type # ""
      BY <2>2, <2>4, <2>5, <2>7 DEF TypedDb, v
    <3>4. \A x \in Vs(r) : r.vertices[x].size \in Nat
      BY <2>2, <2>4, <2>5, <2>7 DEF TypedDb, v
    <3>3. QED  BY <3>1, <3>2, <3>4 DEF TypedDb
  <2>11. from.made \in Seq(Vs(r))
    <3>1. <<N + 1>> \in Seq(Vs(r))
      BY <2>8
    <3>2. QED  BY <3>1, <1>4 DEF N, d
  <2>12. QED  BY <2>5, <2>9, <2>10, <2>11 DEF d, r
<1>5. QED  BY <1>2, <1>3, <1>4 DEF RootedAs

LEMMA OddOrEven ==
    ASSUME NEW n \in Nat, NEW y \in 1 .. 2 * n
    PROVE  \E k \in 1 .. n : y = 2 * k - 1 \/ y = 2 * k
<1> DEFINE k == (y + 1) \div 2
<1>1. k \in Int /\ (y + 1 = 2 * k \/ y + 1 = 2 * k + 1)
  OBVIOUS
<1>2. k \in 1 .. n /\ (y = 2 * k - 1 \/ y = 2 * k)
  <2> HIDE DEF k
  <2>1. QED  BY <1>1
<1>3. QED  BY <1>2

\* What an edge of any method makes of the graph.
LEMMA GeneratedKeeps ==
    ASSUME IsRecipe(recipe), NEW e \in Range(recipe.edges), NEW from, DbOK(from.db), TypedDb(from.db),
           from.made \in Seq(Vs(from.db)), NEW to, Is(to, Generated(e, from))
    PROVE  /\ DbOK(to.db) /\ TypedDb(to.db) /\ to.made \in Seq(Vs(to.db)) /\ Grown(from.db, to.db)
           /\ to.db.roots = from.db.roots
<1> DEFINE d == from.db
           r == to.db
           sources == from.made
<1>1. e.multi_scale \in Int /\ e.tgt \in DOMAIN recipe.vertices
  BY DEF IsRecipe
<1>2. recipe.vertices[e.tgt].type # "" /\ recipe.vertices[e.tgt].size \in Nat
  BY <1>1 DEF IsRecipe
<1>3. \A s \in DOMAIN d.roots : d.roots[s] \in Vs(d)
  BY DEF DbOK
<1>4. CASE e.gen_method = "MULTIPLY"
  <2>1. to = Multiplied(d, e, sources)
    BY <1>4 DEF Generated, Is, GenMethods
  <2> HIDE DEF d, sources
  <2>2. PICK n \in Nat : /\ MulInv(d, e, sources, n, to)
                         /\ \A k \in 1 .. n : SourceAt(e, sources, k) \in Vs(d)
    <3>1. DbOK(d) /\ sources \in Seq(Vs(d))
      BY DEF d, sources
    <3>2. QED  BY <1>1, <2>1, <3>1, MultipliedIs
  <2> DEFINE N == Len(d.vertices)
  <2>3. N \in Nat /\ Vs(d) = 1 .. N
    BY DbIs DEF d
  <2>4. /\ DbOK(r) /\ Len(r.vertices) = N + 2 * n /\ r.roots = d.roots
        /\ \A x \in Vs(d) : r.vertices[x] = d.vertices[x]
        /\ \A k \in 1 .. n : /\ r.vertices[N + 2 * k - 1] = Blank
                             /\ r.vertices[N + 2 * k] = TargetAt(d, e, sources, k)
        /\ IsSequence(to.made) /\ Len(to.made) = n /\ \A k \in 1 .. n : to.made[k] = N + 2 * k
    BY <2>2 DEF MulInv
  <2> HIDE DEF N, r
  <2>5. Vs(r) = 1 .. N + 2 * n
    BY <2>4, DbIs
  <2>6. \A x \in Vs(r) : x \in Vs(d) \/ \E k \in 1 .. n : x = N + 2 * k - 1 \/ x = N + 2 * k
    <3> SUFFICES ASSUME NEW x \in Vs(r), x \notin Vs(d)
                 PROVE  \E k \in 1 .. n : x = N + 2 * k - 1 \/ x = N + 2 * k
      OBVIOUS
    <3>5. x \in Int
      BY <2>5
    <3>1. x - N \in 1 .. 2 * n
      BY <2>3, <2>5
    <3>2. PICK k \in 1 .. n : x - N = 2 * k - 1 \/ x - N = 2 * k
      BY <3>1, OddOrEven
    <3>3. x = N + 2 * k - 1 \/ x = N + 2 * k
      BY <2>3, <3>2, <3>5
    <3>4. QED  BY <3>3
  <2>7. Vs(d) \subseteq Vs(r)
    BY <2>3, <2>5
  <2>8. Grown(d, r)
    BY <2>4, <2>7 DEF Grown, Kin
  <2>9. Blank.type = "" /\ DOMAIN Blank.member_of = {} /\ Blank.size \in Nat
    BY DEF Blank, NoMap
  <2>10. \A k \in 1 .. n : TargetAt(d, e, sources, k).type # "" /\ TargetAt(d, e, sources, k).size \in Nat
    BY <1>2 DEF TargetAt, Emitted
  <2>11. TypedDb(d) /\ \A s \in DOMAIN d.roots : d.roots[s] \in Vs(d)
    BY <1>3 DEF d
  <2>12. TypedDb(r)
    <3>1. \A x \in Vs(r) : r.vertices[x].type = "" => DOMAIN r.vertices[x].member_of = {}
      <4> SUFFICES ASSUME NEW x \in Vs(r), r.vertices[x].type = ""
                   PROVE  DOMAIN r.vertices[x].member_of = {}
        OBVIOUS
      <4>1. CASE x \in Vs(d)
        BY <4>1, <2>4, <2>11 DEF TypedDb
      <4>2. CASE \E k \in 1 .. n : x = N + 2 * k - 1
        BY <4>2, <2>4, <2>9
      <4>3. CASE \E k \in 1 .. n : x = N + 2 * k
        BY <4>3, <2>4, <2>10
      <4>4. QED  BY <4>1, <4>2, <4>3, <2>6
    <3>2. \A s \in DOMAIN r.roots : r.vertices[r.roots[s]].type # ""
      BY <2>4, <2>11 DEF TypedDb
    <3>4. \A x \in Vs(r) : r.vertices[x].size \in Nat
      <4> SUFFICES ASSUME NEW x \in Vs(r)
                   PROVE  r.vertices[x].size \in Nat
        OBVIOUS
      <4>1. CASE x \in Vs(d)
        BY <4>1, <2>4, <2>11 DEF TypedDb
      <4>2. CASE \E k \in 1 .. n : x = N + 2 * k - 1
        BY <4>2, <2>4, <2>9
      <4>3. CASE \E k \in 1 .. n : x = N + 2 * k
        BY <4>3, <2>4, <2>10
      <4>4. QED  BY <4>1, <4>2, <4>3, <2>6
    <3>3. QED  BY <3>1, <3>2, <3>4 DEF TypedDb
  <2>13. to.made \in Seq(Vs(r))
    <3>1. \A k \in 1 .. n : N + 2 * k \in Vs(r)
      BY <2>3, <2>5
    <3>2. \A k \in 1 .. Len(to.made) : to.made[k] \in Vs(r)
      BY <2>4, <3>1
    <3>3. QED  BY <2>4, <3>2, SequenceIn
  <2>14. QED  BY <2>4, <2>8, <2>12, <2>13 DEF r, d
<1>5. CASE e.gen_method \in {"ASSOCIATE_IN", "ASSOCIATE_BY_PATH_IN"}
  <2>1. to = AssociatedAll(d, e, sources)
    BY <1>5 DEF Generated, Is, GenMethods
  <2>2. AssocInv(d, e, sources, 0, to)
    BY <2>1, AssociatedAllIs
  <2>3. /\ DbOK(r) /\ Vs(r) = Vs(d) /\ r.roots = d.roots /\ IsSequence(to.made)
        /\ \A x \in Range(to.made) : /\ x \in Vs(d) /\ d.vertices[x].type = recipe.vertices[e.tgt].type
                                     /\ Joined(r.vertices[x], d.vertices[x], e.e_subsystem)
        /\ \A x \in Vs(d) : x \notin Range(to.made) => r.vertices[x] = d.vertices[x]
    BY <2>2 DEF AssocInv
  <2>4. \A x \in Vs(d) : Kin(r.vertices[x], d.vertices[x])
    BY <2>3 DEF Joined, Kin
  <2>5. \A x \in Vs(r) : r.vertices[x].type = "" => DOMAIN r.vertices[x].member_of = {}
    <3> SUFFICES ASSUME NEW x \in Vs(d), r.vertices[x].type = ""
                 PROVE  DOMAIN r.vertices[x].member_of = {}
      BY <2>3
    <3>1. x \notin Range(to.made)
      BY <1>2, <2>3, <2>4 DEF Kin
    <3>2. QED  BY <2>3, <3>1 DEF TypedDb
  <2>6. \A s \in DOMAIN r.roots : r.vertices[r.roots[s]].type # ""
    BY <1>3, <2>3, <2>4 DEF TypedDb, Kin
  <2>7. to.made \in Seq(Vs(r))
    <3>1. \A k \in 1 .. Len(to.made) : to.made[k] \in Vs(r)
      BY <2>3, SequenceIs
    <3>2. QED  BY <2>3, <3>1, SequenceIn
  <2>9. \A x \in Vs(r) : r.vertices[x].size \in Nat
    BY <2>3, <2>4 DEF TypedDb, Kin
  <2>8. QED  BY <2>3, <2>4, <2>5, <2>6, <2>7, <2>9 DEF TypedDb, Grown
<1>6. CASE e.gen_method \notin GenMethods
  <2>1. to = Made(d)
    BY <1>6 DEF Generated, Is, GenMethods
  <2>2. r = d /\ to.made = <<>>
    BY <2>1 DEF Made
  <2>3. QED  BY <2>2 DEF Grown, Kin
<1>7. QED  BY <1>4, <1>5, <1>6 DEF GenMethods

-----------------------------------------------------------------------------
(* The search. *)

IsLevel(level) ==
    /\ level = [at |-> level.at, next |-> level.next]
    /\ level.at \in color /\ level.next \in 1 .. Len(OutEdges(level.at)) + 1

\* The stack and the scales are in step but for the levels that did not bring
\* one; what recipe vertices stand for is in the graph.
GenInv ==
    /\ IsRecipe(recipe) /\ color \subseteq DOMAIN recipe.vertices
    /\ IsSequence(stack) /\ \A level \in Range(stack) : IsLevel(level)
    /\ IsSequence(m_hier_scales) /\ Len(m_hier_scales) <= Len(stack)
    /\ DbOK(db) /\ TypedDb(db)
    /\ \A u : SourcesOf(u) \in Seq(Vs(db))

LEMMA PushedIs ==
    ASSUME NEW s, IsSequence(s), NEW x
    PROVE  /\ IsSequence(<<x>> \o s) /\ Len(<<x>> \o s) = Len(s) + 1
           /\ (<<x>> \o s)[1] = x /\ \A i \in 1 .. Len(s) : (<<x>> \o s)[i + 1] = s[i]
           /\ Range(<<x>> \o s) = {x} \cup Range(s)
<1> DEFINE S == {x} \cup Range(s)
           a == <<x>>
           t == a \o s
<1>1. s \in Seq(S) /\ a \in Seq(S) /\ Len(a) = 1 /\ a[1] = x /\ Len(s) \in Nat
  BY DEF IsSequence, Range
<1> HIDE DEF a
<1>2. t \in Seq(S) /\ Len(t) = Len(s) + 1
  <2> HIDE DEF S
  <2>1. QED  BY <1>1, ConcatProperties
<1>3. \A i \in 1 .. Len(s) + 1 : t[i] = IF i <= 1 THEN x ELSE s[i - 1]
  <2>1. s \in Seq(S) /\ a \in Seq(S)
    BY <1>1
  <2> HIDE DEF S
  <2>2. \A i \in 1 .. Len(a) + Len(s) : t[i] = IF i <= Len(a) THEN a[i] ELSE s[i - Len(a)]
    BY ONLY <2>1, ConcatProperties
  <2> HIDE DEF t
  <2>3. \A i \in 1 .. Len(s) + 1 : i \in 1 .. Len(a) + Len(s) /\ (i <= 1 => i = 1)
    BY <1>1
  <2>4. QED  BY <1>1, <2>2, <2>3
<1>4. t[1] = x /\ \A i \in 1 .. Len(s) : t[i + 1] = s[i]
  <2> HIDE DEF t
  <2>1. 1 \in 1 .. Len(s) + 1 /\ \A i \in 1 .. Len(s) : i + 1 \in 1 .. Len(s) + 1 /\ ~(i + 1 <= 1) /\ (i + 1) - 1 = i
    BY <1>1
  <2>2. QED  BY <1>3, <2>1
<1>5. DOMAIN t = 1 .. Len(s) + 1 /\ DOMAIN s = 1 .. Len(s)
  BY <1>1, <1>2
<1>6. Range(t) = {x} \cup Range(s)
  <2> HIDE DEF t, S
  <2>1. \A y : y \in Range(t) <=> \E i \in 1 .. Len(s) + 1 : t[i] = y
    BY <1>5 DEF Range
  <2>2. \A y : y \in Range(s) <=> \E i \in 1 .. Len(s) : s[i] = y
    BY <1>5 DEF Range
  <2>3. \A i \in 1 .. Len(s) + 1 : i = 1 \/ (i - 1 \in 1 .. Len(s) /\ (i - 1) + 1 = i)
    BY <1>1
  <2>4. 1 \in 1 .. Len(s) + 1 /\ \A i \in 1 .. Len(s) : i + 1 \in 1 .. Len(s) + 1
    BY <1>1
  <2>5. \A y : y \in Range(t) => y = x \/ y \in Range(s)
    <3> SUFFICES ASSUME NEW i \in 1 .. Len(s) + 1, t[i] # x
                 PROVE  t[i] \in Range(s)
      BY <2>1
    <3>1. t[i] = s[i - 1] /\ i - 1 \in 1 .. Len(s)
      BY <2>3, <1>4
    <3>2. QED  BY <3>1, <2>2
  <2>6. \A y : y = x \/ y \in Range(s) => y \in Range(t)
    BY <1>4, <2>1, <2>2, <2>4
  <2>7. QED  BY <2>5, <2>6
<1>7. IsSequence(t)
  BY <1>2, <1>6 DEF IsSequence
<1> HIDE DEF t
<1>8. QED  BY <1>2, <1>4, <1>6, <1>7 DEF t, a

LEMMA TailIs ==
    ASSUME NEW s, IsSequence(s), s # <<>>, NEW t, Is(t, Tail(s))
    PROVE  /\ IsSequence(t) /\ Len(t) = Len(s) - 1 /\ Len(s) > 0
           /\ \A i \in 1 .. Len(t) : t[i] = s[i + 1]
           /\ Range(t) \subseteq Range(s)
           /\ Head(s) = s[1] /\ Head(s) \in Range(s)
<1> DEFINE S == Range(s)
<1>1. s \in Seq(S) /\ Len(s) \in Nat /\ Len(s) > 0 /\ DOMAIN s = 1 .. Len(s)
  BY DEF IsSequence
<1>2. t \in Seq(S) /\ Len(t) = Len(s) - 1 /\ \A i \in 1 .. Len(t) : t[i] = s[i + 1]
  <2> HIDE DEF S
  <2>1. QED  BY <1>1 DEF Is
<1>3. Head(s) = s[1] /\ Head(s) \in Range(s)
  BY <1>1 DEF Range
<1>4. IsSequence(t) /\ Range(t) \subseteq S
  <2> HIDE DEF S
  <2>1. QED  BY <1>2, SequenceOf
<1>5. QED  BY <1>1, <1>2, <1>3, <1>4

\* The edge that is next, and the levels below the top.
LEMMA NextEdgeIs ==
    ASSUME GenInv, stack # <<>>, Top.next <= Len(OutEdges(Top.at))
    PROVE  /\ NextEdge \in Range(recipe.edges) /\ NextEdge.src = Top.at /\ Top.at \in color
           /\ NextEdge.src \in DOMAIN recipe.vertices /\ NextEdge.tgt \in DOMAIN recipe.vertices
           /\ IsSequence(Advanced) /\ Len(Advanced) = Len(stack)
           /\ \A level \in Range(Advanced) : IsLevel(level)
<1> DEFINE es == OutEdges(Top.at)
           rest == Tail(stack)
           up == [Top EXCEPT !.next = @ + 1]
<1>1. IsSequence(recipe.edges)
  BY DEF GenInv, IsRecipe, IsSequence
<1>2. Is(es, OutEdges(Top.at)) /\ Is(rest, Tail(stack))
  BY DEF Is
<1> HIDE DEF es
<1>3. IsSequence(es) /\ \A e \in Range(es) : e.src = Top.at /\ e \in Range(recipe.edges)
  BY ONLY <1>1, <1>2, OutEdgesAre
<1> HIDE DEF rest
<1>4. /\ IsSequence(rest) /\ Len(rest) = Len(stack) - 1 /\ Range(rest) \subseteq Range(stack)
      /\ Head(stack) \in Range(stack) /\ Len(stack) \in Nat
  BY <1>2, TailIs, SequenceIs DEF GenInv
<1>5. IsLevel(Top)
  BY <1>4 DEF GenInv, Top
<1>6. NextEdge = es[Top.next] /\ Top.next \in 1 .. Len(es) /\ Len(es) \in Nat
  <2>1. Len(es) \in Nat
    BY <1>3, SequenceIs
  <2>2. QED  BY <2>1, <1>5 DEF NextEdge, es, IsLevel
<1>7. NextEdge \in Range(es)
  BY <1>3, <1>6, SequenceIs
<1>8. NextEdge \in Range(recipe.edges) /\ NextEdge.src = Top.at
  BY <1>3, <1>7
<1>9. NextEdge.src \in DOMAIN recipe.vertices /\ NextEdge.tgt \in DOMAIN recipe.vertices
  BY <1>8 DEF GenInv, IsRecipe
<1>10. IsLevel(up)
  <2>1. Top = [at |-> Top.at, next |-> Top.next] /\ Top.at \in color
    BY <1>5 DEF IsLevel
  <2>2. up = [at |-> Top.at, next |-> Top.next + 1]
    BY <2>1
  <2>3. up.at = Top.at /\ up.next = Top.next + 1 /\ up = [at |-> up.at, next |-> up.next]
    BY <2>2
  <2>4. Top.next + 1 \in 1 .. Len(es) + 1
    BY <1>6
  <2> HIDE DEF up
  <2>5. QED  BY <2>1, <2>3, <2>4 DEF IsLevel, es
<1> HIDE DEF up
<1>11. /\ IsSequence(<<up>> \o rest) /\ Len(<<up>> \o rest) = Len(rest) + 1
       /\ Range(<<up>> \o rest) = {up} \cup Range(rest)
  BY <1>4, PushedIs
<1>12. Advanced = <<up>> \o rest
  BY DEF Advanced, up, rest
<1>13. Len(Advanced) = Len(stack)
  BY <1>4, <1>11, <1>12
<1>14. \A level \in Range(Advanced) : IsLevel(level)
  BY <1>4, <1>10, <1>11, <1>12 DEF GenInv
<1>15. QED  BY <1>5, <1>8, <1>9, <1>11, <1>12, <1>13, <1>14 DEF IsLevel

OutOf(edges, u) == Where(LAMBDA e : e.src = u, edges)

LEMMA OutEdgesSame ==
    ASSUME recipe' = recipe, NEW u
    PROVE  OutEdges(u)' = OutEdges(u)
<1>1. OutEdges(u) = OutOf(recipe.edges, u)
  BY ONLY DEF OutEdges, OutOf, Where, Folded, Of
<1>2. OutEdges(u)' = OutOf(recipe'.edges, u)
  BY ONLY DEF OutEdges, OutOf, Where, Folded, Of
<1>3. QED  BY <1>1, <1>2

LEMMA LevelSame ==
    ASSUME recipe' = recipe, color \subseteq color', NEW level, IsLevel(level)
    PROVE  IsLevel(level)'
<1>1. OutEdges(level.at)' = OutEdges(level.at)
  BY OutEdgesSame
<1>2. QED  BY <1>1 DEF IsLevel

\* A vertex begins with its first edge.
LEMMA LevelNew ==
    ASSUME IsRecipe(recipe), recipe' = recipe, NEW u \in color', NEW level, level = [at |-> u, next |-> 1]
    PROVE  IsLevel(level)'
<1> DEFINE es == OutEdges(u)
<1>1. IsSequence(recipe.edges) /\ Is(es, OutEdges(u))
  BY DEF IsRecipe, IsSequence, Is
<1>2. OutEdges(u)' = es
  BY OutEdgesSame
<1> HIDE DEF es
<1>3. IsSequence(es)
  BY ONLY <1>1, OutEdgesAre
<1>4. Len(es) \in Nat
  BY <1>3, SequenceIs
<1>5. 1 \in 1 .. Len(es) + 1
  BY <1>4
<1>6. level.at = u /\ level.next = 1 /\ level = [at |-> level.at, next |-> level.next]
  OBVIOUS
<1>7. QED  BY <1>2, <1>5, <1>6 DEF IsLevel

LEMMA GenInit ==
    ASSUME InitGen, IsRecipe(recipe)
    PROVE  GenInv
<1>1. DbOK(EmptyDb) /\ TypedDb(EmptyDb)
  <2>1. /\ EmptyDb.vertices = <<>> /\ EmptyDb.out = <<>>
        /\ EmptyDb.edges = NoMap /\ EmptyDb.roots = NoMap
        /\ EmptyDb = [vertices |-> EmptyDb.vertices, edges |-> EmptyDb.edges, out |-> EmptyDb.out,
                      roots |-> EmptyDb.roots]
    BY DEF EmptyDb
  <2>2. DOMAIN NoMap = {}
    BY DEF NoMap
  <2>3. Vs(EmptyDb) = {}
    BY <2>1 DEF Vs
  <2>4. IsSequence(<<>>)
    BY DEF IsSequence
  <2>5. DOMAIN EmptyDb.edges = {x \in Vs(EmptyDb) \X Vs(EmptyDb) : x[2] \in Range(EmptyDb.out[x[1]])}
    BY <2>1, <2>2, <2>3
  <2>6. QED  BY <2>1, <2>2, <2>3, <2>4, <2>5 DEF DbOK, TypedDb
<1>2. IsSequence(stack) /\ IsSequence(m_hier_scales) /\ Len(stack) = 0 /\ Len(m_hier_scales) = 0
  BY DEF InitGen, IsSequence
<1>3. Range(stack) = {}
  BY DEF InitGen, Range
<1>4. \A u : SourcesOf(u) = <<>>
  BY DEF SourcesOf, InitGen, NoMap
<1>5. ASSUME NEW u
      PROVE  SourcesOf(u) \in Seq(Vs(db))
  <2> DEFINE S == Vs(db)
  <2>1. SourcesOf(u) = <<>>
    BY <1>4
  <2> HIDE DEF S
  <2>2. SourcesOf(u) \in Seq(S)
    BY <2>1
  <2>3. QED  BY <2>2 DEF S
<1>6. QED  BY <1>1, <1>2, <1>3, <1>5 DEF GenInv, InitGen

LEMMA StartVertexKeeps ==
    ASSUME GenInv, StartVertex
    PROVE  GenInv'
<1> DEFINE W == DOMAIN recipe.vertices \ color
<1>1. color # DOMAIN recipe.vertices /\ stack = <<>>
  BY DEF StartVertex, Searched
<1>2. W # {} /\ W \in SUBSET Nat
  <2> DEFINE vs == recipe.vertices
  <2>1. IsSequence(vs)
    BY DEF GenInv, IsRecipe, IsSequence
  <2>2. DOMAIN vs = 1 .. Len(vs) /\ Len(vs) \in Nat
    <3> HIDE DEF vs
    <3>1. QED  BY <2>1, SequenceIs
  <2>3. color \subseteq DOMAIN vs /\ color # DOMAIN vs
    BY <1>1 DEF GenInv
  <2>4. W # {} /\ \A x \in W : x \in 1 .. Len(vs)
    BY <2>2, <2>3
  <2> HIDE DEF W, vs
  <2>5. QED  BY <2>2, <2>4
<1>12. PICK u \in {Min(W)} : color' = color \cup {u} /\ stack' = <<[at |-> u, next |-> 1]>>
  BY DEF StartVertex
<1>3. u \in W
  BY <1>2, LeastElement
<1> DEFINE level == [at |-> u, next |-> 1]
<1>4. /\ color' = color \cup {u} /\ stack' = <<level>>
      /\ UNCHANGED <<recipe, m_gen_src_vtx, m_hier_scales, db, m_err_msg>>
  BY <1>12 DEF StartVertex
<1>5. IsLevel(level)'
  <2>1. IsRecipe(recipe) /\ recipe' = recipe /\ u \in color' /\ level = [at |-> u, next |-> 1]
    BY <1>4 DEF GenInv
  <2> HIDE DEF level
  <2>2. QED  BY <2>1, LevelNew
<1>6. IsSequence(stack') /\ Range(stack') = {level} /\ Len(stack') = 1
  <2> DEFINE e == <<>>
  <2>1. IsSequence(e) /\ Len(e) = 0 /\ Range(e) = {} /\ stack' = <<level>> \o e
    <3>1. <<level>> \o <<>> = <<level>>
      OBVIOUS
    <3>2. QED  BY <3>1, <1>4 DEF IsSequence, Range
  <2> HIDE DEF e, level
  <2>2. /\ IsSequence(<<level>> \o e) /\ Len(<<level>> \o e) = Len(e) + 1
        /\ Range(<<level>> \o e) = {level} \cup Range(e)
    BY <2>1, PushedIs
  <2>3. QED  BY <2>1, <2>2
<1> HIDE DEF level
<1>7. (\A x : SourcesOf(x) \in Seq(Vs(db)))'
  BY <1>4 DEF GenInv, SourcesOf
<1>8. IsSequence(m_hier_scales') /\ Len(m_hier_scales') <= Len(stack')
  <2>1. Len(stack) = 0 /\ IsSequence(m_hier_scales) /\ Len(m_hier_scales) <= Len(stack)
    BY <1>1 DEF GenInv
  <2>2. Len(m_hier_scales) \in Nat
    BY <2>1, SequenceIs
  <2>3. QED  BY <1>4, <1>6, <2>1, <2>2
<1>9. IsRecipe(recipe') /\ color' \subseteq DOMAIN recipe'.vertices /\ DbOK(db') /\ TypedDb(db')
  BY <1>3, <1>4 DEF GenInv
<1>10. ASSUME NEW x \in Range(stack')
       PROVE  IsLevel(x)'
  BY <1>5, <1>6
<1>11. QED  BY <1>6, <1>7, <1>8, <1>9, <1>10 DEF GenInv

\* The tree edge e was taken, from what its source stands for to what its
\* target does.
Taken(e, from, to) ==
    /\ e = NextEdge /\ e \in Range(recipe.edges) /\ e.src = Top.at /\ e.src \in color
    /\ e.src \in DOMAIN recipe.vertices /\ e.tgt \in DOMAIN recipe.vertices /\ e.tgt \notin color
    /\ RootedAs(e, from) /\ Is(to, Generated(e, from))
    /\ db' = to.db /\ m_gen_src_vtx' = Put(Put(m_gen_src_vtx, e.src, from.made), e.tgt, to.made)
    /\ m_hier_scales' = IF e.gen_method = "MULTIPLY" THEN <<e.multi_scale>> \o m_hier_scales ELSE m_hier_scales
    /\ stack # <<>> /\ Top.next <= Len(OutEdges(Top.at))
    /\ color' = color \cup {e.tgt} /\ stack' = <<[at |-> e.tgt, next |-> 1]>> \o Advanced
    /\ recipe' = recipe

LEMMA TreeEdgeIs ==
    ASSUME GenInv, TreeEdge
    PROVE  \E e, from, to : Taken(e, from, to)
<1>1. stack # <<>> /\ Top.next <= Len(OutEdges(Top.at)) /\ NextEdge.tgt \notin color
  BY DEF TreeEdge
<1>2. /\ NextEdge \in Range(recipe.edges) /\ NextEdge.src = Top.at /\ Top.at \in color
      /\ NextEdge.src \in DOMAIN recipe.vertices /\ NextEdge.tgt \in DOMAIN recipe.vertices
  BY <1>1, NextEdgeIs
<1>3. PICK e \in {NextEdge} :
        /\ \E from \in {Rooted(e)} : \E to \in {Generated(e, from)} :
            /\ db' = to.db
            /\ m_gen_src_vtx' = Put(Put(m_gen_src_vtx, e.src, from.made), e.tgt, to.made)
        /\ m_hier_scales' = IF e.gen_method = "MULTIPLY" THEN <<e.multi_scale>> \o m_hier_scales ELSE m_hier_scales
        /\ color' = color \cup {e.tgt}
        /\ stack' = <<[at |-> e.tgt, next |-> 1]>> \o Advanced
  BY DEF TreeEdge
<1>4. PICK from \in {Rooted(e)} : \E to \in {Generated(e, from)} :
            /\ db' = to.db
            /\ m_gen_src_vtx' = Put(Put(m_gen_src_vtx, e.src, from.made), e.tgt, to.made)
  BY <1>3
<1>5. PICK to \in {Generated(e, from)} :
            /\ db' = to.db
            /\ m_gen_src_vtx' = Put(Put(m_gen_src_vtx, e.src, from.made), e.tgt, to.made)
  BY <1>4
<1>6. Is(to, Generated(e, from)) /\ Is(from, Rooted(e))
  BY <1>4, <1>5 DEF Is
<1>7. RootedAs(e, from)
  BY <1>6, RootedIs
<1>8. recipe' = recipe
  BY DEF TreeEdge
<1>9. e = NextEdge
  OBVIOUS
<1>10. Taken(e, from, to)
  BY <1>1, <1>2, <1>3, <1>5, <1>6, <1>7, <1>8, <1>9 DEF Taken
<1>11. QED  BY <1>10

\* What a recipe vertex stands for after the edge was taken.
LEMMA SourcesThen ==
    ASSUME NEW e, NEW from, NEW to, Taken(e, from, to), NEW u
    PROVE  SourcesOf(u)' = IF u = e.tgt THEN to.made ELSE IF u = e.src THEN from.made ELSE SourcesOf(u)
<1> DEFINE old == m_gen_src_vtx
           a == e.src
           b == e.tgt
           va == from.made
           vb == to.made
           mid == Put(old, a, va)
           new == Put(mid, b, vb)
<1>1. m_gen_src_vtx' = new
  BY DEF Taken
<1>2. /\ \A x : x \in DOMAIN mid <=> x \in DOMAIN old \/ x = a
      /\ mid[a] = va /\ \A x \in DOMAIN old : x # a => mid[x] = old[x]
  <2> HIDE DEF old, a, va
  <2>1. QED  BY PutIs
<1>3. /\ \A x : x \in DOMAIN new <=> x \in DOMAIN mid \/ x = b
      /\ new[b] = vb /\ \A x \in DOMAIN mid : x # b => new[x] = mid[x]
  <2> HIDE DEF mid, b, vb
  <2>1. QED  BY PutIs
<1>4. SourcesOf(u) = IF u \in DOMAIN old THEN old[u] ELSE <<>>
  BY DEF SourcesOf
<1>5. SourcesOf(u)' = IF u \in DOMAIN new THEN new[u] ELSE <<>>
  BY <1>1 DEF SourcesOf
<1> HIDE DEF old, mid, new
<1>6. QED  BY <1>2, <1>3, <1>4, <1>5

LEMMA TakenKeeps ==
    ASSUME GenInv, NEW e, NEW from, NEW to, Taken(e, from, to)
    PROVE  GenInv' /\ Grown(db, from.db) /\ Grown(from.db, db')
<1>1. IsRecipe(recipe) /\ DbOK(db) /\ TypedDb(db) /\ \A u : SourcesOf(u) \in Seq(Vs(db))
  BY DEF GenInv
<1>2. /\ e \in Range(recipe.edges) /\ e.src \in DOMAIN recipe.vertices /\ RootedAs(e, from)
      /\ Is(to, Generated(e, from)) /\ db' = to.db /\ color' = color \cup {e.tgt} /\ recipe' = recipe
      /\ e.tgt \in DOMAIN recipe.vertices
  BY DEF Taken
<1>3. DbOK(from.db) /\ TypedDb(from.db) /\ from.made \in Seq(Vs(from.db)) /\ Grown(db, from.db)
  BY <1>1, <1>2, RootedKeeps
<1>4. DbOK(to.db) /\ TypedDb(to.db) /\ to.made \in Seq(Vs(to.db)) /\ Grown(from.db, to.db)
  BY <1>1, <1>2, <1>3, GeneratedKeeps
<1>5. Vs(db) \subseteq Vs(db') /\ Vs(from.db) \subseteq Vs(db')
  BY <1>2, <1>3, <1>4 DEF Grown
<1>6. ASSUME NEW u
      PROVE  SourcesOf(u)' \in Seq(Vs(db'))
  <2> DEFINE W == Vs(db')
             A == Vs(db)
             B == Vs(from.db)
             old == SourcesOf(u)
             s == from.made
  <2>1. old \in Seq(A) /\ s \in Seq(B) /\ A \subseteq W /\ B \subseteq W /\ to.made \in Seq(W)
    BY <1>1, <1>2, <1>3, <1>4, <1>5
  <2> HIDE DEF W, A, B, old, s
  <2>2. old \in Seq(W) /\ s \in Seq(W)
    BY <2>1, SeqMonotonic
  <2>3. SourcesOf(u)' = IF u = e.tgt THEN to.made ELSE IF u = e.src THEN s ELSE old
    BY SourcesThen DEF s, old
  <2>4. SourcesOf(u)' \in Seq(W)
    BY <2>1, <2>2, <2>3
  <2>5. QED  BY <2>4 DEF W
<1> DEFINE level == [at |-> e.tgt, next |-> 1]
           rest == Advanced
<1>7. stack # <<>> /\ Top.next <= Len(OutEdges(Top.at)) /\ stack' = <<level>> \o rest
  BY DEF Taken
<1>8. IsSequence(rest) /\ Len(rest) = Len(stack) /\ \A x \in Range(rest) : IsLevel(x)
  BY <1>7, NextEdgeIs
<1> HIDE DEF rest
<1>9. IsLevel(level)'
  <2>1. IsRecipe(recipe) /\ recipe' = recipe /\ e.tgt \in color'
    BY <1>1, <1>2
  <2> DEFINE u == e.tgt
  <2>2. u \in color' /\ level = [at |-> u, next |-> 1]
    BY <2>1
  <2> HIDE DEF u, level
  <2>3. QED  BY <2>1, <2>2, LevelNew
<1> HIDE DEF level
<1>10. /\ IsSequence(stack') /\ Len(stack') = Len(stack) + 1 /\ Range(stack') = {level} \cup Range(rest)
  BY <1>7, <1>8, PushedIs
<1>11. ASSUME NEW x \in Range(stack')
       PROVE  IsLevel(x)'
  <2>1. CASE x = level
    BY <2>1, <1>9
  <2>2. CASE x # level
    <3>1. IsLevel(x) /\ color \subseteq color'
      BY <2>2, <1>2, <1>8, <1>10
    <3>2. QED  BY <3>1, <1>2, LevelSame
  <2>3. QED  BY <2>1, <2>2
<1>12. IsSequence(m_hier_scales') /\ Len(m_hier_scales') <= Len(stack')
  <2> DEFINE s == m_hier_scales
             t == stack
             k == e.multi_scale
  <2>1. IsSequence(s) /\ Len(s) <= Len(t) /\ IsSequence(t)
    BY DEF GenInv
  <2>2. m_hier_scales' = IF e.gen_method = "MULTIPLY" THEN <<k>> \o s ELSE s
    BY DEF Taken
  <2>3. Len(stack') = Len(t) + 1
    BY <1>10
  <2> HIDE DEF s, k, t
  <2>4. Len(s) \in Nat /\ Len(t) \in Nat
    BY <2>1, SequenceIs
  <2>5. IsSequence(<<k>> \o s) /\ Len(<<k>> \o s) = Len(s) + 1
    BY <2>1, PushedIs
  <2>6. QED  BY <2>1, <2>2, <2>3, <2>4, <2>5
<1>13. IsRecipe(recipe') /\ color' \subseteq DOMAIN recipe'.vertices
  BY <1>1, <1>2 DEF GenInv
<1>14. GenInv'
  BY <1>2, <1>4, <1>6, <1>10, <1>11, <1>12, <1>13 DEF GenInv
<1>15. QED  BY <1>2, <1>3, <1>4, <1>14

LEMMA OtherEdgeKeeps ==
    ASSUME GenInv, OtherEdge
    PROVE  GenInv'
<1>1. /\ stack # <<>> /\ Top.next <= Len(OutEdges(Top.at)) /\ stack' = Advanced
      /\ UNCHANGED <<recipe, color, m_gen_src_vtx, m_hier_scales, db, m_err_msg>>
  BY DEF OtherEdge
<1>2. IsSequence(stack') /\ Len(stack') = Len(stack) /\ \A x \in Range(stack') : IsLevel(x)
  BY <1>1, NextEdgeIs
<1>3. ASSUME NEW x \in Range(stack')
      PROVE  IsLevel(x)'
  BY <1>1, <1>2, LevelSame
<1>4. (\A x : SourcesOf(x) \in Seq(Vs(db)))'
  BY <1>1 DEF GenInv, SourcesOf
<1>5. QED  BY <1>1, <1>2, <1>3, <1>4 DEF GenInv

LEMMA FinishVertexKeeps ==
    ASSUME GenInv, FinishVertex
    PROVE  GenInv'
<1> DEFINE s == stack
           h == m_hier_scales
           t == Tail(s)
           g == Tail(h)
<1>1. /\ s # <<>> /\ stack' = t /\ m_hier_scales' = IF h = <<>> THEN <<>> ELSE g
      /\ UNCHANGED <<recipe, color, m_gen_src_vtx, db, m_err_msg>>
  BY DEF FinishVertex
<1>2. IsSequence(s) /\ IsSequence(h) /\ Len(h) <= Len(s) /\ Is(t, Tail(s)) /\ Is(g, Tail(h))
  BY DEF GenInv, Is
<1> HIDE DEF s, h, t, g
<1>3. IsSequence(t) /\ Len(t) = Len(s) - 1 /\ Range(t) \subseteq Range(s) /\ Len(s) \in Nat /\ Len(s) > 0
  BY <1>1, <1>2, TailIs, SequenceIs
<1>4. h # <<>> => IsSequence(g) /\ Len(g) = Len(h) - 1 /\ Len(h) \in Nat
  BY <1>2, TailIs, SequenceIs
<1>5. IsSequence(<<>>) /\ Len(<<>>) = 0
  BY DEF IsSequence
<1>6. IsSequence(m_hier_scales') /\ Len(m_hier_scales') <= Len(stack')
  BY <1>1, <1>2, <1>3, <1>4, <1>5
<1>7. ASSUME NEW x \in Range(stack')
      PROVE  IsLevel(x)'
  <2>1. IsLevel(x)
    BY <1>1, <1>3 DEF GenInv, s
  <2>2. QED  BY <1>1, <2>1, LevelSame
<1>8. (\A x : SourcesOf(x) \in Seq(Vs(db)))'
  BY <1>1 DEF GenInv, SourcesOf
<1>9. QED  BY <1>1, <1>3, <1>6, <1>7, <1>8 DEF GenInv

-----------------------------------------------------------------------------
(* SetSubsystemsUse. *)

LEMMA ListIs ==
    ASSUME NEW a, NEW b, NEW c, NEW d, NEW e, NEW s,
           s \in {<<>>, <<a>>, <<a, b>>, <<a, b, c>>, <<a, b, c, d, e>>}
    PROVE  IsSequence(s)
<1> DEFINE S == {a, b, c, d, e}
<1>1. a \in S /\ b \in S /\ c \in S /\ d \in S /\ e \in S
  OBVIOUS
<1> HIDE DEF S
<1>2. /\ <<>> \in Seq(S) /\ <<a>> \in Seq(S) /\ <<a, b>> \in Seq(S)
      /\ <<a, b, c>> \in Seq(S) /\ <<a, b, c, d, e>> \in Seq(S)
  BY <1>1
<1>3. s \in Seq(S)
  BY <1>2
<1>4. QED  BY <1>3, SequenceOf

LEMMA RowsAre == ASSUME NEW name PROVE IsSequence(Rows(name))
<1>1. CASE name = "CA"
  <2> DEFINE a == <<"containment", "*">>
  <2>1. Rows(name) = <<a>>
    BY <1>1 DEF Rows
  <2> HIDE DEF a
  <2>2. QED  BY <2>1, ListIs
<1>2. CASE name = "IBA"
  <2> DEFINE a == <<"ibnet", "*">>
  <2>1. Rows(name) = <<a>>
    BY <1>2 DEF Rows
  <2> HIDE DEF a
  <2>2. QED  BY <2>1, ListIs
<1>3. CASE name = "IBBA"
  <2> DEFINE a == <<"ibnetbw", "*">>
  <2>1. Rows(name) = <<a>>
    BY <1>3 DEF Rows
  <2> HIDE DEF a
  <2>2. QED  BY <2>1, ListIs
<1>4. CASE name = "PFS1BA"
  <2> DEFINE a == <<"pfs1bw", "*">>
  <2>1. Rows(name) = <<a>>
    BY <1>4 DEF Rows
  <2> HIDE DEF a
  <2>2. QED  BY <2>1, ListIs
<1>5. CASE name = "PA"
  <2> DEFINE a == <<"power", "*">>
  <2>1. Rows(name) = <<a>>
    BY <1>5 DEF Rows
  <2> HIDE DEF a
  <2>2. QED  BY <2>1, ListIs
<1>6. CASE name = "C+PFS1BA"
  <2> DEFINE a == <<"containment", "contains">>
             b == <<"pfs1bw", "*">>
  <2>1. Rows(name) = <<a, b>>
    BY <1>6 DEF Rows
  <2> HIDE DEF a, b
  <2>2. QED  BY <2>1, ListIs
<1>7. CASE name = "C+IBA"
  <2> DEFINE a == <<"containment", "contains">>
             b == <<"ibnet", "connected_up">>
  <2>1. Rows(name) = <<a, b>>
    BY <1>7 DEF Rows
  <2> HIDE DEF a, b
  <2>2. QED  BY <2>1, ListIs
<1>8. CASE name = "C+PA"
  <2> DEFINE a == <<"containment", "*">>
             b == <<"power", "draws_from">>
  <2>1. Rows(name) = <<a, b>>
    BY <1>8 DEF Rows
  <2> HIDE DEF a, b
  <2>2. QED  BY <2>1, ListIs
<1>9. CASE name = "IB+IBBA"
  <2> DEFINE a == <<"ibnet", "connected_down">>
             b == <<"ibnetbw", "*">>
  <2>1. Rows(name) = <<a, b>>
    BY <1>9 DEF Rows
  <2> HIDE DEF a, b
  <2>2. QED  BY <2>1, ListIs
<1>10. CASE name = "C+P+IBA"
  <2> DEFINE a == <<"containment", "contains">>
             b == <<"power", "draws_from">>
             c == <<"ibnet", "connected_up">>
  <2>1. Rows(name) = <<a, b, c>>
    BY <1>10 DEF Rows
  <2> HIDE DEF a, b, c
  <2>2. QED  BY <2>1, ListIs
<1>11. CASE name = "V+PFS1BA"
  <2> DEFINE a == <<"virtual1", "*">>
             b == <<"pfs1bw", "*">>
  <2>1. Rows(name) = <<a, b>>
    BY <1>11 DEF Rows
  <2> HIDE DEF a, b
  <2>2. QED  BY <2>1, ListIs
<1>12. CASE name = "VA"
  <2> DEFINE a == <<"virtual1", "*">>
  <2>1. Rows(name) = <<a>>
    BY <1>12 DEF Rows
  <2> HIDE DEF a
  <2>2. QED  BY <2>1, ListIs
<1>13. CASE name = "ALL"
  <2> DEFINE a == <<"containment", "*">>
             b == <<"ibnet", "*">>
             c == <<"ibnetbw", "*">>
             d == <<"pfs1bw", "*">>
             e == <<"power", "*">>
  <2>1. Rows(name) = <<a, b, c, d, e>>
    BY <1>13 DEF Rows
  <2> HIDE DEF a, b, c, d, e
  <2>2. QED  BY <2>1, ListIs
<1>14. CASE name \notin {"CA", "IBA", "IBBA", "PFS1BA", "PA", "C+PFS1BA", "C+IBA", "C+PA",
                      "IB+IBBA", "C+P+IBA", "V+PFS1BA", "VA", "ALL"}
  <2>1. Rows(name) = <<>>
    BY <1>14 DEF Rows
  <2>2. QED  BY <2>1, ListIs
<1>15. QED  BY <1>1, <1>2, <1>3, <1>4, <1>5, <1>6, <1>7, <1>8, <1>9, <1>10, <1>11, <1>12, <1>13, <1>14

\* After n of the rows: the rows so far are there, and unless an error is
\* hidden they are all of them.
SelectInv(name, none, nor, n, s) ==
    /\ s = [rc |-> s.rc, rows |-> s.rows] /\ IsSequence(s.rows)
    /\ \A row \in Range(s.rows) : Found(row)
    /\ s.rc = 0 /\ n > 0 => s.rows # <<>>
    /\ s.rc = 0 /\ Rows(name) = <<>> => FALSE
    /\ s.rc = 0 /\ name \notin Masking => Len(s.rows) = n /\ \A i \in 1 .. n : s.rows[i] = Rows(name)[i]

SelectStep(name, none, s, row) == SelectRow(name, s, row)
Sel == INSTANCE LoopLaws WITH Step <- SelectStep, Inv <- SelectInv

LEMMA SelectRowKeeps ==
    ASSUME NEW name, NEW n \in Nat, NEW s, SelectInv(name, 0, 0, n, s), n + 1 <= Len(Rows(name))
    PROVE  SelectInv(name, 0, 0, n + 1, SelectRow(name, s, n + 1))
<1> DEFINE at == n + 1
           r == SelectRow(name, s, at)
           row == Rows(name)[at]
           old == s.rows
<1>1. /\ s = [rc |-> s.rc, rows |-> old] /\ IsSequence(old) /\ \A x \in Range(old) : Found(x)
      /\ s.rc = 0 /\ n > 0 => old # <<>>
      /\ s.rc = 0 /\ Rows(name) = <<>> => FALSE
      /\ s.rc = 0 /\ name \notin Masking => Len(old) = n /\ \A i \in 1 .. n : old[i] = Rows(name)[i]
  BY DEF SelectInv
<1>2. Rows(name) # <<>>
  <2>1. Len(<<>>) = 0
    OBVIOUS
  <2>2. QED  BY <2>1
<1>3. CASE s.rc # 0 /\ Guarded(name, at)
  <2>1. r = s
    BY <1>3 DEF SelectRow
  <2>2. QED  BY <1>1, <1>3, <2>1 DEF SelectInv
<1>4. CASE ~(s.rc # 0 /\ Guarded(name, at)) /\ Found(row)
  <2> DEFINE rows == Append(old, row)
  <2>1. r = [rc |-> 0, rows |-> rows] /\ Extended(rows, old, row)
    BY <1>4 DEF SelectRow, Extended
  <2>2. name \notin Masking => s.rc = 0
    BY <1>4 DEF Guarded
  <2> HIDE DEF rows, row, old
  <2>3. /\ IsSequence(rows) /\ Len(rows) = Len(old) + 1 /\ rows[Len(old) + 1] = row
        /\ \A i \in 1 .. Len(old) : rows[i] = old[i]
        /\ Range(rows) = Range(old) \cup {row} /\ Len(old) \in Nat
    BY <1>1, <2>1, Appended, SequenceIs
  <2>4. \A x \in Range(rows) : Found(x)
    BY <1>1, <1>4, <2>3
  <2>5. rows # <<>>
    BY <2>3
  <2>6. name \notin Masking => Len(rows) = at /\ \A i \in 1 .. at : rows[i] = Rows(name)[i]
    <3> SUFFICES ASSUME name \notin Masking
                 PROVE  Len(rows) = at /\ \A i \in 1 .. at : rows[i] = Rows(name)[i]
      OBVIOUS
    <3>1. Len(old) = n /\ \A i \in 1 .. n : old[i] = Rows(name)[i]
      BY <1>1, <2>2
    <3>2. \A i \in 1 .. at : i = at \/ i \in 1 .. n
      OBVIOUS
    <3>3. QED  BY <2>3, <3>1, <3>2 DEF row
  <2>7. r.rc = 0 /\ r.rows = rows /\ r = [rc |-> r.rc, rows |-> r.rows]
    BY <2>1
  <2> HIDE DEF r
  <2>8. SelectInv(name, 0, 0, at, r)
    BY <1>2, <2>3, <2>4, <2>5, <2>6, <2>7 DEF SelectInv
  <2>9. QED  BY <2>8 DEF r
<1>5. CASE ~(s.rc # 0 /\ Guarded(name, at)) /\ ~Found(row)
  <2>1. r = [s EXCEPT !.rc = -1]
    BY <1>5 DEF SelectRow
  <2>2. r.rc = -1 /\ r.rows = old /\ r = [rc |-> r.rc, rows |-> r.rows]
    BY <1>1, <2>1
  <2>3. r.rc # 0
    BY <2>2
  <2> HIDE DEF r
  <2>4. SelectInv(name, 0, 0, at, r)
    BY <1>1, <2>2, <2>3 DEF SelectInv
  <2>5. QED  BY <2>4 DEF r
<1>6. QED  BY <1>3, <1>4, <1>5

LEMMA SelectionIs ==
    ASSUME NEW name, NEW s, Is(s, Selection(name))
    PROVE  SelectInv(name, 0, 0, Len(Rows(name)), s)
<1> DEFINE rows == Rows(name)
           ks == [row \in DOMAIN rows |-> row]
           base == [rc |-> IF rows = <<>> THEN -1 ELSE 0, rows |-> <<>>]
<1>1. Selection(name) = Sel!Loop(name, 0, base, ks)
  BY ONLY DEF Selection, Folded, Of, Sel!Loop, Sel!Folded, Sel!Of, SelectStep, rows, ks, base
<1>2. Len(rows) \in Nat /\ DOMAIN rows = 1 .. Len(rows)
  <2>1. IsSequence(rows)
    BY RowsAre
  <2> HIDE DEF rows
  <2>2. QED  BY <2>1, SequenceIs
<1>3. Len(ks) = Len(rows) /\ \A i \in 1 .. Len(rows) : ks[i] = i
  <2> DEFINE N == Len(rows)
  <2>1. ks = [i \in 1 .. N |-> i] /\ N \in Nat
    BY <1>2
  <2> HIDE DEF N, rows
  <2>2. ks \in [1 .. N -> Nat] /\ \A i \in 1 .. N : ks[i] = i
    BY <2>1
  <2> HIDE DEF ks
  <2>3. ks \in Seq(Nat)
    BY <2>1, <2>2
  <2>4. QED  BY <2>1, <2>2, <2>3 DEF N
<1>4. SelectInv(name, 0, 0, 0, base)
  <2>1. IsSequence(<<>>) /\ Range(<<>>) = {} /\ Len(<<>>) = 0
    BY DEF IsSequence, Range
  <2>2. base.rows = <<>> /\ base = [rc |-> base.rc, rows |-> base.rows] /\ (base.rc = 0 => rows # <<>>)
    BY SMT
  <2> HIDE DEF base
  <2>3. QED  BY <2>1, <2>2 DEF SelectInv
<1> HIDE DEF ks, base
<1>5. ASSUME NEW i \in 0 .. Len(ks) - 1, NEW x, SelectInv(name, 0, 0, i, x)
      PROVE  SelectInv(name, 0, 0, i + 1, SelectStep(name, 0, x, ks[i + 1]))
  <2>1. i \in Nat /\ i + 1 <= Len(Rows(name)) /\ ks[i + 1] = i + 1
    BY <1>2, <1>3
  <2>2. QED  BY <1>5, <2>1, SelectRowKeeps DEF SelectStep
<1>6. SelectInv(name, 0, 0, Len(ks), Sel!Loop(name, 0, base, ks))
  <2>1. Len(ks) \in Nat
    BY <1>2, <1>3
  <2>2. QED  BY ONLY <2>1, <1>4, <1>5, Sel!LoopInvariant
<1>7. QED  BY <1>1, <1>3, <1>6 DEF Is

-----------------------------------------------------------------------------
(* Initialize: prime is a recursion that ends, as every call of it has seen *)
(* a vertex more.                                                           *)

Typed(v) == db.vertices[v].type # ""
Plans == UNION {[P -> Nat] : P \in SUBSET Vs(db)}
Primings == [seen : SUBSET Vs(db), plans : Plans, sum : Nat]
Calls == Vs(db) \X SUBSET Vs(db)

\* What prime returns has seen what it was given, and plans are for vertices
\* with a type, or for the one it was called for.
PrimeFs ==
    {f \in [Calls -> Primings] :
        \A c \in Calls : c[2] \subseteq f[c].seen /\ \A x \in DOMAIN f[c].plans : x = c[1] \/ Typed(x)}

CallRank == [c \in Calls |-> 2 * Cardinality(Vs(db) \ c[2]) + (IF c[1] \in c[2] THEN 1 ELSE 0)]

PrimeInv(c, none, nor, n, below) ==
    /\ below \in Primings /\ c[2] \cup {c[1]} \subseteq below.seen
    /\ \A x \in DOMAIN below.plans : Typed(x)

Pr == INSTANCE LoopLaws WITH Step <- PrimeStep, Inv <- PrimeInv

PrimeBase(c) == [seen |-> c[2] \cup {c[1]}, plans |-> NoMap, sum |-> 0]
PrimeLoop(f, c) == Pr!Loop(f, c[1], PrimeBase(c), db.out[c[1]])
PrimeNext(f) == [c \in Calls |-> PrimedVertex(c[1], PrimeLoop(f, c))]

LEMMA CallRankIs ==
    ASSUME DbOK(db)
    PROVE  /\ CallRank \in [Calls -> Nat]
           /\ \A c \in Calls : \A w \in Vs(db) : \A s \in SUBSET Vs(db) :
                  c[2] \cup {c[1]} \subseteq s /\ w \notin s => CallRank[<<w, s>>] < CallRank[c]
<1> DEFINE V == Vs(db)
           N == Len(db.vertices)
<1>1. IsFiniteSet(V)
  <2>1. V = 1 .. N /\ N \in Nat
    BY DbIs
  <2>2. QED  BY <2>1, FS_Interval
<1>2. \A s \in SUBSET V : IsFiniteSet(V \ s) /\ Cardinality(V \ s) \in Nat
  <2> SUFFICES ASSUME NEW s \in SUBSET V
               PROVE  IsFiniteSet(V \ s) /\ Cardinality(V \ s) \in Nat
    OBVIOUS
  <2>1. IsFiniteSet(V \ s)
    BY <1>1, FS_Subset
  <2>2. QED  BY <2>1, FS_CardinalityType
<1> HIDE DEF V
<1>3. \A c \in Calls : c[2] \in SUBSET V /\ c[1] \in V
  BY DEF Calls, V
<1>4. CallRank \in [Calls -> Nat]
  <2>1. \A c \in Calls : 2 * Cardinality(V \ c[2]) + (IF c[1] \in c[2] THEN 1 ELSE 0) \in Nat
    <3> SUFFICES ASSUME NEW c \in Calls
                 PROVE  2 * Cardinality(V \ c[2]) + (IF c[1] \in c[2] THEN 1 ELSE 0) \in Nat
      OBVIOUS
    <3> DEFINE m == Cardinality(V \ c[2])
    <3>1. m \in Nat
      BY <1>2, <1>3
    <3> HIDE DEF m
    <3>2. 2 * m + (IF c[1] \in c[2] THEN 1 ELSE 0) \in Nat
      BY <3>1
    <3>3. QED  BY <3>2 DEF m
  <2>2. QED  BY <2>1 DEF CallRank, V
<1>5. ASSUME NEW c \in Calls, NEW w \in V, NEW s \in SUBSET V, c[2] \cup {c[1]} \subseteq s, w \notin s
      PROVE  CallRank[<<w, s>>] < CallRank[c]
  <2> DEFINE a == V \ c[2]
             b == V \ s
  <2>1. <<w, s>> \in Calls
    BY DEF Calls, V
  <2> DEFINE d == <<w, s>>
  <2>11. CallRank[d] = 2 * Cardinality(V \ d[2]) + (IF d[1] \in d[2] THEN 1 ELSE 0)
    BY <2>1 DEF CallRank, V
  <2>12. Cardinality(b) \in Nat /\ 2 * Cardinality(b) + 0 = 2 * Cardinality(b)
    BY <1>2
  <2>2. CallRank[<<w, s>>] = 2 * Cardinality(b)
    BY <2>11, <2>12, <1>5
  <2>3. CallRank[c] = 2 * Cardinality(a) + (IF c[1] \in c[2] THEN 1 ELSE 0)
    BY DEF CallRank, V
  <2>4. IsFiniteSet(a) /\ b \subseteq a /\ Cardinality(a) \in Nat /\ Cardinality(b) \in Nat
    BY <1>2, <1>3, <1>5
  <2>5. c[1] \notin c[2] => c[1] \in a /\ c[1] \notin b
    BY <1>3, <1>5
  <2> HIDE DEF a, b
  <2>6. Cardinality(b) <= Cardinality(a)
    BY <2>4, FS_Subset
  <2>7. c[1] \notin c[2] => Cardinality(b) < Cardinality(a)
    <3> SUFFICES ASSUME c[1] \notin c[2]
                 PROVE  Cardinality(b) < Cardinality(a)
      OBVIOUS
    <3>1. b # a
      BY <2>5
    <3>2. QED  BY <2>4, <2>6, <3>1, FS_Subset
  <2> DEFINE m == Cardinality(a)
             k == Cardinality(b)
  <2>8. m \in Nat /\ k \in Nat /\ k <= m /\ (c[1] \notin c[2] => k < m)
    BY <2>4, <2>6, <2>7
  <2> HIDE DEF m, k
  <2>9. 2 * k < 2 * m + (IF c[1] \in c[2] THEN 1 ELSE 0)
    BY <2>8
  <2>10. QED  BY <2>2, <2>3, <2>9 DEF m, k
<1>6. QED  BY <1>4, <1>5 DEF V

LEMMA SelectedIsTyped ==
    ASSUME TypedDb(db), NEW v, NEW w \in Vs(db), NEW s, InSubsystem(v, w, s)
    PROVE  Typed(w)
BY DEF InSubsystem, SelectsEdge, SelectsVertex, Selects, TypedDb, Typed

LEMMA PrimeStepKeeps ==
    ASSUME DbOK(db), TypedDb(db), NEW f \in PrimeFs, NEW c \in Calls, NEW n, NEW below,
           PrimeInv(c, 0, 0, n, below), NEW w \in Vs(db), NEW p,
           \A b \in Calls : CallRank[b] < CallRank[c] => p[b] = f[b]
    PROVE  /\ PrimeInv(c, 0, 0, n + 1, PrimeStep(f, c[1], below, w))
           /\ PrimeStep(p, c[1], below, w) = PrimeStep(f, c[1], below, w)
<1> DEFINE V == Vs(db)
           r == PrimeStep(f, c[1], below, w)
<1>1. CASE w \in below.seen \/ ~InSubsystem(c[1], w, Dominant)
  <2>1. r = below /\ PrimeStep(p, c[1], below, w) = below
    BY <1>1 DEF PrimeStep
  <2>2. QED  BY <2>1 DEF PrimeInv
<1>2. CASE ~(w \in below.seen \/ ~InSubsystem(c[1], w, Dominant))
  <2> DEFINE b == <<w, below.seen>>
             q == f[b]
  <2>1. /\ below.seen \in SUBSET V /\ below.plans \in Plans /\ below.sum \in Nat
        /\ c[2] \cup {c[1]} \subseteq below.seen /\ \A x \in DOMAIN below.plans : Typed(x)
    BY DEF PrimeInv, Primings
  <2>2. b \in Calls /\ CallRank[b] < CallRank[c]
    <3>1. b \in Calls
      BY <2>1 DEF Calls
    <3>2. QED  BY <1>2, <2>1, <3>1, CallRankIs
  <2>3. p[b] = f[b]
    BY <2>2
  <2>4. /\ q.seen \in SUBSET V /\ q.plans \in Plans /\ q.sum \in Nat /\ below.seen \subseteq q.seen
        /\ \A x \in DOMAIN q.plans : x = w \/ Typed(x)
    <3>1. q \in Primings /\ b[2] \subseteq q.seen /\ \A x \in DOMAIN q.plans : x = b[1] \/ Typed(x)
      BY <2>2 DEF PrimeFs
    <3> HIDE DEF q
    <3>2. QED  BY <3>1 DEF Primings
  <2>5. Typed(w)
    BY <1>2, SelectedIsTyped
  <2>6. r = [seen |-> q.seen, plans |-> Over(q.plans, below.plans), sum |-> below.sum + q.sum]
    BY <1>2 DEF PrimeStep, Of
  <2>7. PrimeStep(p, c[1], below, w)
          = [seen |-> p[b].seen, plans |-> Over(p[b].plans, below.plans), sum |-> below.sum + p[b].sum]
    BY <1>2 DEF PrimeStep, Of
  <2>8. PrimeStep(p, c[1], below, w) = r
    BY <2>3, <2>6, <2>7
  <2> DEFINE m == q.plans
             k == below.plans
             o == Over(m, k)
  <2>9. /\ DOMAIN o = DOMAIN m \cup DOMAIN k
        /\ o = [x \in DOMAIN m \cup DOMAIN k |-> IF x \in DOMAIN m THEN m[x] ELSE k[x]]
    BY DEF Over
  <2>10. o \in Plans
    <3>1. PICK P \in SUBSET V : m \in [P -> Nat]
      BY <2>4 DEF Plans
    <3>2. PICK Q \in SUBSET V : k \in [Q -> Nat]
      BY <2>1 DEF Plans
    <3> HIDE DEF o, m, k
    <3>3. o \in [P \cup Q -> Nat]
      BY <2>9, <3>1, <3>2
    <3>4. QED  BY <3>3 DEF Plans
  <2>11. \A x \in DOMAIN o : Typed(x)
    BY <2>1, <2>4, <2>5, <2>9
  <2> HIDE DEF o, q
  <2>12. r.seen = q.seen /\ r.plans = o /\ r.sum = below.sum + q.sum /\ r \in Primings
    BY <2>1, <2>4, <2>6, <2>10 DEF Primings, o
  <2> HIDE DEF r
  <2>13. PrimeInv(c, 0, 0, n + 1, r)
    BY <2>1, <2>4, <2>11, <2>12 DEF PrimeInv
  <2>14. QED  BY <2>8, <2>13 DEF r
<1>3. QED  BY <1>1, <1>2

\* The loop over the out edges, for two functions that agree on the calls it
\* makes.
LEMMA PrimeLoopIs ==
    ASSUME DbOK(db), TypedDb(db), NEW f \in PrimeFs, NEW c \in Calls, NEW p,
           \A b \in Calls : CallRank[b] < CallRank[c] => p[b] = f[b]
    PROVE  PrimeLoop(f, c) = PrimeLoop(p, c) /\ \E n : PrimeInv(c, 0, 0, n, PrimeLoop(f, c))
<1> DEFINE v == c[1]
           ws == db.out[v]
           base == PrimeBase(c)
<1>1. v \in Vs(db) /\ c[2] \in SUBSET Vs(db)
  BY DEF Calls
<1>2. Len(ws) \in Nat /\ \A i \in 1 .. Len(ws) : ws[i] \in Vs(db)
  <2>1. ws \in Seq(Vs(db))
    BY <1>1 DEF DbOK
  <2> HIDE DEF ws
  <2>2. QED  BY <2>1, SequenceOf
<1>3. PrimeInv(c, 0, 0, 0, base)
  <2>1. NoMap \in Plans /\ DOMAIN NoMap = {}
    <3>1. NoMap \in [{} -> Nat] /\ {} \in SUBSET Vs(db)
      BY DEF NoMap
    <3>2. QED  BY <3>1 DEF Plans
  <2>2. base.seen = c[2] \cup {v} /\ base.plans = NoMap /\ base.sum = 0 /\ base \in Primings
    <3>1. base = [seen |-> c[2] \cup {v}, plans |-> NoMap, sum |-> 0]
      BY DEF PrimeBase
    <3>2. c[2] \cup {v} \in SUBSET Vs(db)
      BY <1>1
    <3> HIDE DEF base
    <3>3. QED  BY <2>1, <3>1, <3>2 DEF Primings
  <2> HIDE DEF base
  <2>3. QED  BY <2>1, <2>2 DEF PrimeInv
<1> HIDE DEF base, ws
<1>4. ASSUME NEW n \in 0 .. Len(ws) - 1, NEW x, PrimeInv(c, 0, 0, n, x)
      PROVE  /\ PrimeInv(c, 0, 0, n + 1, PrimeStep(f, v, x, ws[n + 1]))
             /\ PrimeStep(p, v, x, ws[n + 1]) = PrimeStep(f, v, x, ws[n + 1])
  <2> DEFINE w == ws[n + 1]
  <2>1. w \in Vs(db)
    BY <1>2
  <2> HIDE DEF w
  <2>2. /\ PrimeInv(c, 0, 0, n + 1, PrimeStep(f, v, x, w))
        /\ PrimeStep(p, v, x, w) = PrimeStep(f, v, x, w)
    BY <1>4, <2>1, PrimeStepKeeps
  <2>3. QED  BY <2>2 DEF w
<1> HIDE DEF v
<1>5. Len(ws) \in Nat
  BY <1>2
<1>6. Pr!Loop(f, v, base, ws) = Pr!Loop(p, v, base, ws)
  BY ONLY <1>3, <1>4, <1>5, Pr!LoopSame
<1>7. PrimeInv(c, 0, 0, Len(ws), Pr!Loop(f, v, base, ws))
  <2>1. \A n \in 0 .. Len(ws) - 1 : \A x :
            PrimeInv(c, 0, 0, n, x) => PrimeInv(c, 0, 0, n + 1, PrimeStep(f, v, x, ws[n + 1]))
    BY <1>4
  <2>2. QED  BY ONLY <1>3, <2>1, <1>5, Pr!LoopInvariant
<1>8. QED  BY <1>6, <1>7 DEF PrimeLoop, v, ws, base

LEMMA PrimedVertexIs ==
    ASSUME DbOK(db), TypedDb(db), NEW c \in Calls, NEW n, NEW below, PrimeInv(c, 0, 0, n, below)
    PROVE  /\ PrimedVertex(c[1], below) \in Primings /\ c[2] \subseteq PrimedVertex(c[1], below).seen
           /\ \A x \in DOMAIN PrimedVertex(c[1], below).plans : x = c[1] \/ Typed(x)
<1> DEFINE v == c[1]
           k == below.plans
           s == below.sum
           m == IF s = 0 THEN k ELSE Put(k, v, s)
           t == Counts(v) + s
           r == PrimedVertex(v, below)
<1>1. /\ below.seen \in SUBSET Vs(db) /\ k \in Plans /\ s \in Nat /\ c[2] \cup {v} \subseteq below.seen
      /\ \A x \in DOMAIN k : Typed(x) /\ v \in Vs(db)
      /\ below = [seen |-> below.seen, plans |-> k, sum |-> s]
  BY DEF PrimeInv, Primings, Calls
<1>2. v \in Vs(db)
  BY DEF Calls
<1>3. Counts(v) \in Nat
  BY <1>2 DEF Counts, TypedDb
<1>4. r = [seen |-> below.seen, plans |-> m, sum |-> t]
  <2>1. r = [below EXCEPT !.plans = m, !.sum = t]
    BY DEF PrimedVertex
  <2> HIDE DEF k, s, m, t, r
  <2>2. QED  BY <1>1, <2>1
<1>5. m \in Plans /\ \A x \in DOMAIN m : x = v \/ Typed(x)
  <2>1. CASE s = 0
    BY <1>1, <2>1
  <2>2. CASE s # 0
    <3>1. m = [x \in DOMAIN k \cup {v} |-> IF x = v THEN s ELSE k[x]]
      BY <2>2 DEF Put
    <3>2. PICK P \in SUBSET Vs(db) : k \in [P -> Nat]
      BY <1>1 DEF Plans
    <3> HIDE DEF m, k, s, v
    <3>3. m \in [P \cup {v} -> Nat] /\ P \cup {v} \in SUBSET Vs(db)
      BY <1>1, <1>2, <3>1, <3>2
    <3>4. m \in Plans
      BY <3>3 DEF Plans
    <3>5. \A x \in DOMAIN m : x = v \/ Typed(x)
      BY <1>1, <3>1
    <3>6. QED  BY <3>4, <3>5
  <2>3. QED  BY <2>1, <2>2
<1>6. t \in Nat
  BY <1>1, <1>3
<1> HIDE DEF t, m, k, s, r
<1>7. r.seen = below.seen /\ r.plans = m /\ r \in Primings
  BY <1>1, <1>4, <1>5, <1>6 DEF Primings
<1>8. QED  BY <1>1, <1>5, <1>7 DEF r, v

LEMMA PrimeNextIn ==
    ASSUME DbOK(db), TypedDb(db), NEW f \in PrimeFs
    PROVE  PrimeNext(f) \in PrimeFs
<1> DEFINE g == PrimeNext(f)
<1>1. ASSUME NEW c \in Calls
      PROVE  g[c] \in Primings /\ c[2] \subseteq g[c].seen /\ \A x \in DOMAIN g[c].plans : x = c[1] \/ Typed(x)
  <2> DEFINE below == PrimeLoop(f, c)
  <2>1. PICK n : PrimeInv(c, 0, 0, n, below)
    BY PrimeLoopIs
  <2>2. g[c] = PrimedVertex(c[1], below)
    BY DEF PrimeNext
  <2> HIDE DEF below, g
  <2>3. QED  BY <2>1, <2>2, PrimedVertexIs
<1>2. g = [c \in Calls |-> g[c]]
  BY DEF PrimeNext
<1> HIDE DEF g
<1>3. g \in PrimeFs
  BY <1>1, <1>2 DEF PrimeFs
<1>4. QED  BY <1>3 DEF g

LEMMA PrimedSolves ==
    ASSUME DbOK(db), TypedDb(db)
    PROVE  \E f : f = PrimeNext(f) /\ f \in PrimeFs
<1> DEFINE next == [f \in PrimeFs |-> PrimeNext(f)]
           zero == [c \in Calls |-> [seen |-> c[2], plans |-> NoMap, sum |-> 0]]
<1>1. PointByPoint(PrimeFs, Calls)
  BY DEF PointByPoint, PrimeFs
<1>2. CallRank \in [Calls -> Nat]
  BY CallRankIs
<1>3. \A f \in PrimeFs : PrimeNext(f) \in PrimeFs
  BY PrimeNextIn
<1>4. next \in [PrimeFs -> PrimeFs]
  BY <1>3
<1>5. zero \in PrimeFs
  <2>1. NoMap \in Plans /\ DOMAIN NoMap = {}
    <3>1. NoMap \in [{} -> Nat] /\ {} \in SUBSET Vs(db)
      BY DEF NoMap
    <3>2. QED  BY <3>1 DEF Plans
  <2>2. \A c \in Calls : c[2] \in SUBSET Vs(db)
    BY DEF Calls
  <2>3. \A c \in Calls : [seen |-> c[2], plans |-> NoMap, sum |-> 0] \in Primings
    BY <2>1, <2>2 DEF Primings
  <2>4. zero \in [Calls -> Primings]
    BY <2>3
  <2>5. QED  BY <2>1, <2>4 DEF PrimeFs
<1>6. \A f, g \in PrimeFs : \A a \in Calls :
          (\A b \in Calls : CallRank[b] < CallRank[a] => f[b] = g[b]) => next[f][a] = next[g][a]
  <2> SUFFICES ASSUME NEW f \in PrimeFs, NEW g \in PrimeFs, NEW a \in Calls,
                      \A b \in Calls : CallRank[b] < CallRank[a] => f[b] = g[b]
               PROVE  next[f][a] = next[g][a]
    OBVIOUS
  <2>1. PrimeLoop(g, a) = PrimeLoop(f, a)
    BY PrimeLoopIs
  <2>2. next[f][a] = PrimedVertex(a[1], PrimeLoop(f, a)) /\ next[g][a] = PrimedVertex(a[1], PrimeLoop(g, a))
    BY DEF PrimeNext
  <2>3. QED  BY <2>1, <2>2
<1>7. \E f \in PrimeFs : f = next[f]
  <2> HIDE DEF next, zero
  <2>1. QED  BY ONLY <1>1, <1>2, <1>4, <1>5, <1>6, RankedRecursion
<1>8. QED  BY <1>7

\* Every solution is one of the kind.
LEMMA PrimedOnly ==
    ASSUME DbOK(db), TypedDb(db), NEW p, p = PrimeNext(p)
    PROVE  p \in PrimeFs
<1> DEFINE next == [f \in PrimeFs |-> PrimeNext(f)]
<1>1. PICK start : start = PrimeNext(start) /\ start \in PrimeFs
  BY PrimedSolves
<1>2. PointByPoint(PrimeFs, Calls) /\ CallRank \in [Calls -> Nat] /\ p = [a \in Calls |-> p[a]]
  BY CallRankIs DEF PointByPoint, PrimeFs, PrimeNext
<1>3. next \in [PrimeFs -> PrimeFs]
  BY PrimeNextIn
<1>4. \A g \in PrimeFs : \A a \in Calls :
          (\A b \in Calls : CallRank[b] < CallRank[a] => p[b] = g[b]) => p[a] = next[g][a]
  <2> SUFFICES ASSUME NEW g \in PrimeFs, NEW a \in Calls,
                      \A b \in Calls : CallRank[b] < CallRank[a] => p[b] = g[b]
               PROVE  p[a] = next[g][a]
    OBVIOUS
  <2>1. PrimeLoop(g, a) = PrimeLoop(p, a)
    BY PrimeLoopIs
  <2>2. next[g][a] = PrimedVertex(a[1], PrimeLoop(g, a))
    BY DEF PrimeNext
  <2>3. PrimeNext(p)[a] = PrimedVertex(a[1], PrimeLoop(p, a))
    BY DEF PrimeNext
  <2>4. QED  BY <2>1, <2>2, <2>3
<1> HIDE DEF next
<1>5. start \in PrimeFs
  BY <1>1
<1>6. QED  BY ONLY <1>2, <1>3, <1>4, <1>5, RankedSolution

\* A vertex that prime makes a plan for has a type, if the root has one.
LEMMA PrimedIs ==
    ASSUME DbOK(db), TypedDb(db), NEW root \in Vs(db), Typed(root), NEW r, Is(r, Primed(root))
    PROVE  \A x \in DOMAIN r.plans : x \in Vs(db) /\ Typed(x)
<1> DEFINE p == CHOOSE f : f = PrimeNext(f)
           c == <<root, {}>>
<1>1. p = PrimeNext(p)
  <2>1. \E f : f = PrimeNext(f)
    BY PrimedSolves
  <2>2. QED  BY <2>1
<1>2. Primed(root) = p[c]
  BY ONLY DEF Primed, PrimeNext, PrimeLoop, PrimeBase, Calls, Vs, Folded, Of, Pr!Loop, Pr!Folded, Pr!Of, p, c
<1> HIDE DEF p
<1>3. p \in PrimeFs
  BY <1>1, PrimedOnly
<1>4. c \in Calls /\ c[1] = root
  BY DEF Calls
<1> HIDE DEF c
<1>5. r = p[c]
  BY <1>2 DEF Is
<1>6. r \in Primings /\ \A x \in DOMAIN r.plans : x = root \/ Typed(x)
  BY <1>3, <1>4, <1>5 DEF PrimeFs
<1>7. DOMAIN r.plans \subseteq Vs(db)
  <2>1. r.plans \in Plans
    BY <1>6 DEF Primings
  <2>2. QED  BY <2>1 DEF Plans
<1>8. QED  BY <1>6, <1>7

-----------------------------------------------------------------------------
(* main, step by step. *)

Stages == {"options", "generate", "initialize", "prompt", "close"}
Fields == {"grug", "matcher_name", "matcher_policy", "o_format", "o_fname", "r_fname", "lines"}

\* But for the lines that are read, the parameters are those given.
Given(p) == p \in Params /\ [p EXCEPT !.lines = <<>>] = [params EXCEPT !.lines = <<>>]

\* The graph grows while it is generated only: then there is neither a plan
\* nor a file, and later both are of typed vertices.
StartInv ==
    /\ GenInv
    /\ stage \in Stopped \cup Stages
    /\ \E p : Given(p)
    /\ stage = "options" => InitGen
    /\ stage \in {"options", "generate"} => subplans = NoMap /\ written = NoGraph
    /\ SubsystemsFound /\ IsSequence(subsystems)
    /\ \A v \in DOMAIN subplans : v \in Vs(db) /\ Typed(v)
    /\ \A v \in written.vertices : v \in Vs(db) /\ Typed(v)
    /\ \A e \in written.edges : {e[1], e[2]} \subseteq written.vertices

LEMMA GivenIs ==
    ASSUME NEW p, Given(p)
    PROVE  DOMAIN params = Fields
<1>1. DOMAIN p = Fields
  BY ParamsAssumption DEF Given, Fields
<1>2. DOMAIN [p EXCEPT !.lines = <<>>] = DOMAIN p /\ DOMAIN [params EXCEPT !.lines = <<>>] = DOMAIN params
  OBVIOUS
<1>3. QED  BY <1>1, <1>2 DEF Given

\* Nothing is there yet.
LEMMA NothingYet ==
    ASSUME subplans = NoMap, written = NoGraph
    PROVE  DOMAIN subplans = {} /\ written.vertices = {} /\ written.edges = {}
BY DEF NoMap, NoGraph

LEMMA EmptyRecipe == IsRecipe([vertices |-> <<>>, edges |-> <<>>])
<1> DEFINE r == [vertices |-> <<>>, edges |-> <<>>]
<1>1. r.vertices = <<>> /\ r.edges = <<>>
  OBVIOUS
<1>2. <<>> \in Seq(Range(<<>>)) /\ Range(<<>>) = {} /\ DOMAIN <<>> = {}
  BY DEF Range
<1> HIDE DEF r
<1>3. IsRecipe(r)
  BY <1>1, <1>2 DEF IsRecipe
<1>4. QED  BY <1>3 DEF r

LEMMA StartInit ==
    ASSUME Init
    PROVE  StartInv
<1>1. GenInv
  <2>1. recipe = [vertices |-> <<>>, edges |-> <<>>] /\ InitGen
    BY DEF Init
  <2>2. QED  BY <2>1, EmptyRecipe, GenInit
<1>2. DOMAIN subplans = {} /\ written.vertices = {} /\ written.edges = {}
  BY NothingYet DEF Init
<1>3. Given(params)
  BY DEF Init, Given
<1>4. stage = "options" /\ InitGen /\ subplans = NoMap /\ written = NoGraph
  BY DEF Init
<1>5. SubsystemsFound /\ IsSequence(subsystems)
  BY <1>4 DEF SubsystemsFound, Init, IsSequence
<1>6. QED  BY <1>1, <1>2, <1>3, <1>4, <1>5 DEF StartInv, Stages

\* A step that leaves the graph alone.
LEMMA GenSame ==
    ASSUME GenInv, UNCHANGED gen
    PROVE  GenInv' /\ (\A row : Found(row)' <=> Found(row)) /\ (\A v : Typed(v)' <=> Typed(v))
           /\ Vs(db)' = Vs(db) /\ (InitGen => InitGen')
<1>1. UNCHANGED <<recipe, color, stack, m_gen_src_vtx, m_hier_scales, db, m_err_msg>>
  BY DEF gen
<1>2. ASSUME NEW x \in Range(stack')
      PROVE  IsLevel(x)'
  <2>1. IsLevel(x) /\ color \subseteq color' /\ recipe' = recipe
    BY <1>1 DEF GenInv
  <2>2. QED  BY <2>1, LevelSame
<1>3. (\A x : SourcesOf(x) \in Seq(Vs(db)))'
  BY <1>1 DEF GenInv, SourcesOf
<1>4. GenInv'
  BY <1>1, <1>2, <1>3 DEF GenInv
<1>5. QED  BY <1>1, <1>4 DEF Found, Typed, Vs, InitGen

LEMMA ReadOptionsKeeps ==
    ASSUME StartInv, ReadOptions
    PROVE  StartInv'
<1>1. /\ stage = "options" /\ stage' = "generate" /\ Sound /\ recipe' = Files[params.grug]
      /\ UNCHANGED <<color, stack, m_gen_src_vtx, m_hier_scales, db, m_err_msg,
                     params, subsystems, subplans, written>>
  BY DEF ReadOptions, Goto
<1>2. GenInv'
  <2>1. color = {} /\ Range(stack) = {} /\ GenInv
    BY <1>1 DEF StartInv, InitGen, Range
  <2>2. IsRecipe(recipe')
    BY <1>1, FilesAssumption DEF Sound
  <2>3. (\A u : SourcesOf(u) \in Seq(Vs(db)))'
    BY <1>1, <2>1 DEF GenInv, SourcesOf
  <2>4. QED  BY <1>1, <2>1, <2>2, <2>3 DEF GenInv
<1>3. subplans' = NoMap /\ written' = NoGraph
  BY <1>1 DEF StartInv
<1>4. DOMAIN subplans' = {} /\ written'.vertices = {} /\ written'.edges = {}
  BY <1>3 DEF NoMap, NoGraph
<1>5. SubsystemsFound' /\ IsSequence(subsystems')
  BY <1>1 DEF StartInv, SubsystemsFound
<1>6. (\E p : Given(p))'
  BY <1>1 DEF StartInv, Given
<1>7. QED  BY <1>1, <1>2, <1>3, <1>4, <1>5, <1>6 DEF StartInv, Stages

LEMMA GiveUpKeeps ==
    ASSUME StartInv, GiveUp
    PROVE  StartInv'
<1>1. stage' = "failed" /\ UNCHANGED gen /\ UNCHANGED <<params, subsystems, subplans, written>>
  BY DEF GiveUp, Goto
<1>2. GenInv' /\ (\A v : Typed(v)' <=> Typed(v)) /\ Vs(db)' = Vs(db)
  BY <1>1, GenSame DEF StartInv
<1>3. SubsystemsFound' /\ IsSequence(subsystems')
  BY <1>1 DEF StartInv, SubsystemsFound
<1>4. (\E p : Given(p))'
  BY <1>1 DEF StartInv, Given
<1>5. ASSUME NEW v \in DOMAIN subplans'
      PROVE  v \in Vs(db)' /\ Typed(v)'
  BY <1>1, <1>2 DEF StartInv
<1>6. ASSUME NEW v \in written'.vertices
      PROVE  v \in Vs(db)' /\ Typed(v)'
  BY <1>1, <1>2 DEF StartInv
<1>7. (\A e \in written.edges : {e[1], e[2]} \subseteq written.vertices)'
  BY <1>1 DEF StartInv
<1>8. QED  BY <1>1, <1>2, <1>3, <1>4, <1>5, <1>6, <1>7 DEF StartInv, Stopped

LEMMA SearchKeeps ==
    ASSUME GenInv, SearchStep
    PROVE  GenInv'
<1>1. CASE StartVertex
  BY <1>1, StartVertexKeeps
<1>2. CASE TreeEdge
  <2>1. PICK e, from, to : Taken(e, from, to)
    BY <1>2, TreeEdgeIs
  <2>2. QED  BY <2>1, TakenKeeps
<1>3. CASE OtherEdge
  BY <1>3, OtherEdgeKeeps
<1>4. CASE FinishVertex
  BY <1>4, FinishVertexKeeps
<1>5. QED  BY <1>1, <1>2, <1>3, <1>4 DEF SearchStep

LEMMA GenerateKeeps ==
    ASSUME StartInv, Generate
    PROVE  StartInv'
<1>1. stage = "generate" /\ UNCHANGED <<stage, params, subsystems, subplans, written>>
  BY DEF Generate
<1>2. GenInv'
  BY SearchKeeps DEF StartInv, Generate
<1>3. subplans' = NoMap /\ written' = NoGraph
  BY <1>1 DEF StartInv
<1>4. DOMAIN subplans' = {} /\ written'.vertices = {} /\ written'.edges = {}
  BY <1>3 DEF NoMap, NoGraph
<1>5. SubsystemsFound' /\ IsSequence(subsystems')
  BY <1>1 DEF StartInv, SubsystemsFound
<1>6. (\E p : Given(p))'
  BY <1>1 DEF StartInv, Given
<1>7. QED  BY <1>1, <1>2, <1>3, <1>4, <1>5, <1>6 DEF StartInv, Stages

LEMMA SetSubsystemsUseKeeps ==
    ASSUME StartInv, SetSubsystemsUse
    PROVE  StartInv'
<1> DEFINE name == params.matcher_name
<1>1. PICK s \in {Selection(name)} :
        /\ subsystems' = s.rows
        /\ stage' = (IF s.rc # 0 THEN "failed"
                     ELSE IF params.r_fname = "unwritable" THEN "aborted" ELSE "initialize")
  BY DEF SetSubsystemsUse, Goto
<1>2. stage = "generate" /\ UNCHANGED gen /\ UNCHANGED <<params, subplans, written>>
  BY DEF SetSubsystemsUse
<1>3. SelectInv(name, 0, 0, Len(Rows(name)), s)
  <2>1. Is(s, Selection(name))
    BY DEF Is
  <2> HIDE DEF name
  <2>2. QED  BY <2>1, SelectionIs
<1>4. /\ GenInv' /\ \A row : Found(row)' <=> Found(row)
  BY <1>2, GenSame DEF StartInv
<1>5. subplans' = NoMap /\ written' = NoGraph
  BY <1>2 DEF StartInv
<1>6. DOMAIN subplans' = {} /\ written'.vertices = {} /\ written'.edges = {}
  BY <1>5 DEF NoMap, NoGraph
<1>7. (\E p : Given(p))'
  BY <1>2 DEF StartInv, Given
<1>8. s.rc = 0 => /\ s.rows # <<>> /\ \A row \in Range(s.rows) : Found(row)
                  /\ name \in Masking \/ s.rows = Rows(name)
  <2> SUFFICES ASSUME s.rc = 0
               PROVE  /\ s.rows # <<>> /\ \A row \in Range(s.rows) : Found(row)
                      /\ name \in Masking \/ s.rows = Rows(name)
    OBVIOUS
  <2> DEFINE rows == s.rows
             all == Rows(name)
             N == Len(all)
  <2>1. /\ IsSequence(rows) /\ \A row \in Range(rows) : Found(row)
        /\ N > 0 => rows # <<>>
        /\ all # <<>>
        /\ name \notin Masking => Len(rows) = N /\ \A i \in 1 .. N : rows[i] = all[i]
    BY <1>3 DEF SelectInv
  <2>2. IsSequence(all)
    BY RowsAre
  <2> HIDE DEF rows, all, name
  <2>3. Len(all) \in Nat /\ Len(all) > 0
    <3>1. all \in Seq(Range(all))
      BY <2>2 DEF IsSequence
    <3>2. QED  BY <2>1, <3>1
  <2>4. rows # <<>>
    BY <2>1, <2>3
  <2>5. name \notin Masking => rows = all
    <3> SUFFICES ASSUME name \notin Masking
                 PROVE  rows = all
      OBVIOUS
    <3>1. Len(rows) = Len(all) /\ \A i \in 1 .. Len(all) : rows[i] = all[i]
      BY <2>1
    <3> DEFINE S == Range(rows) \cup Range(all)
    <3>2. rows \in Seq(S) /\ all \in Seq(S)
      BY <2>1, <2>2, SequenceIs, SequenceIn
    <3> HIDE DEF S
    <3>3. QED  BY <3>1, <3>2, SeqEqual
  <2>6. QED  BY <2>1, <2>4, <2>5 DEF rows, all
<1>9. SubsystemsFound'
  <2> SUFFICES ASSUME stage' = "initialize"
               PROVE  /\ subsystems' # <<>> /\ \A row \in Range(subsystems') : Found(row)'
                      /\ params'.matcher_name \in Masking \/ subsystems' = Rows(params'.matcher_name)
    BY <1>1 DEF SubsystemsFound, Rows
  <2>1. s.rc = 0 /\ subsystems' = s.rows
    BY <1>1
  <2> HIDE DEF name
  <2>2. params'.matcher_name = name
    BY <1>2 DEF name
  <2>3. QED  BY <1>4, <1>8, <2>1, <2>2
<1>10. stage' \in {"failed", "aborted", "initialize"} /\ IsSequence(subsystems')
  BY <1>1, <1>3 DEF SelectInv
<1>11. QED  BY <1>4, <1>5, <1>6, <1>7, <1>9, <1>10 DEF StartInv, Stages, Stopped

LEMMA InitializeKeeps ==
    ASSUME StartInv, Initialize
    PROVE  StartInv'
<1> DEFINE root == db.roots[Dominant]
<1>1. /\ stage = "initialize" /\ stage' = "prompt" /\ subplans' = Primed(root).plans
      /\ UNCHANGED gen /\ UNCHANGED <<params, subsystems, written>>
  BY DEF Initialize, Goto
<1>2. GenInv' /\ (\A row : Found(row)' <=> Found(row)) /\ (\A v : Typed(v)' <=> Typed(v)) /\ Vs(db)' = Vs(db)
  BY <1>1, GenSame DEF StartInv
<1>3. subsystems # <<>> /\ \A row \in Range(subsystems) : Found(row)
  BY <1>1 DEF StartInv, SubsystemsFound
<1>4. root \in Vs(db) /\ Typed(root)
  <2>1. IsSequence(subsystems)
    BY DEF StartInv
  <2>2. subsystems[1] \in Range(subsystems)
    BY <1>3, <2>1, TailIs DEF Is
  <2>3. QED  BY <1>3, <2>2 DEF Found, Dominant, StartInv, GenInv, DbOK, TypedDb, Typed
<1>5. \A x \in DOMAIN subplans' : x \in Vs(db) /\ Typed(x)
  <2> DEFINE r == Primed(root)
  <2>1. Is(r, Primed(root)) /\ DbOK(db) /\ TypedDb(db)
    BY DEF Is, StartInv, GenInv
  <2> HIDE DEF r, root
  <2>2. \A x \in DOMAIN r.plans : x \in Vs(db) /\ Typed(x)
    BY ONLY <2>1, <1>4, PrimedIs
  <2>3. QED  BY <1>1, <2>2 DEF r
<1>6. SubsystemsFound' /\ IsSequence(subsystems')
  BY <1>1, <1>2 DEF StartInv, SubsystemsFound
<1>7. (\E p : Given(p))'
  BY <1>1 DEF StartInv, Given
<1>8. ASSUME NEW v \in DOMAIN subplans'
      PROVE  v \in Vs(db)' /\ Typed(v)'
  BY <1>2, <1>5
<1>9. ASSUME NEW v \in written'.vertices
      PROVE  v \in Vs(db)' /\ Typed(v)'
  BY <1>1, <1>2 DEF StartInv
<1>10. (\A e \in written.edges : {e[1], e[2]} \subseteq written.vertices)'
  BY <1>1 DEF StartInv
<1>11. QED  BY <1>1, <1>2, <1>6, <1>7, <1>8, <1>9, <1>10 DEF StartInv, Stages

LEMMA CommandKeeps ==
    ASSUME StartInv, Command
    PROVE  StartInv'
<1>1. /\ stage = "prompt" /\ stage' \in {"close", "prompt", "aborted", "undefined"}
      /\ params' = [params EXCEPT !.lines = Tail(@)]
      /\ UNCHANGED gen /\ UNCHANGED <<subsystems, subplans, written>>
  <2>1. PICK line \in {Head(params.lines)} :
            \/ Goto(IF FindCmd(line) = {"quit"} THEN "close" ELSE "prompt")
            \/ MayAbort(line) /\ Goto("aborted")
            \/ ReadsPastEnd(line) /\ Goto("undefined")
    BY DEF Command
  <2>2. stage' \in {"close", "prompt", "aborted", "undefined"}
    BY <2>1 DEF Goto
  <2>3. QED  BY <2>2 DEF Command
<1>2. GenInv' /\ (\A row : Found(row)' <=> Found(row)) /\ (\A v : Typed(v)' <=> Typed(v)) /\ Vs(db)' = Vs(db)
  BY <1>1, GenSame DEF StartInv
<1>3. PICK p : Given(p)
  BY DEF StartInv
<1>4. DOMAIN params = Fields
  BY <1>3, GivenIs
<1>5. params'.matcher_name = params.matcher_name
  BY <1>1, <1>4 DEF Fields
<1>6. (\E q : Given(q))'
  <2>1. [params' EXCEPT !.lines = <<>>] = [params EXCEPT !.lines = <<>>]
    BY <1>1
  <2>2. p \in Params /\ [p EXCEPT !.lines = <<>>] = [params' EXCEPT !.lines = <<>>]
    BY <1>3, <2>1 DEF Given
  <2>3. QED  BY <2>2 DEF Given
<1>7. SubsystemsFound' /\ IsSequence(subsystems')
  BY <1>1, <1>2, <1>5 DEF StartInv, SubsystemsFound
<1>8. ASSUME NEW v \in DOMAIN subplans'
      PROVE  v \in Vs(db)' /\ Typed(v)'
  BY <1>1, <1>2 DEF StartInv
<1>9. ASSUME NEW v \in written'.vertices
      PROVE  v \in Vs(db)' /\ Typed(v)'
  BY <1>1, <1>2 DEF StartInv
<1>10. (\A e \in written.edges : {e[1], e[2]} \subseteq written.vertices)'
  BY <1>1 DEF StartInv
<1>11. QED  BY <1>1, <1>2, <1>6, <1>7, <1>8, <1>9, <1>10 DEF StartInv, Stages, Stopped

LEMMA CloseKeeps ==
    ASSUME StartInv, Close
    PROVE  StartInv'
<1> DEFINE vs == {v \in DOMAIN db.vertices : SelectsVertex(v)}
           es == {e \in DOMAIN db.edges : SelectsEdge(e[1], e[2])}
<1>1. /\ stage = "close" /\ stage' = "ended"
      /\ written' = (IF params.o_fname = "" THEN NoGraph
                     ELSE [ext |-> params.o_format, vertices |-> vs, edges |-> es])
      /\ UNCHANGED gen /\ UNCHANGED <<params, subsystems, subplans>>
  BY DEF Close, Goto
<1>2. GenInv' /\ (\A row : Found(row)' <=> Found(row)) /\ (\A v : Typed(v)' <=> Typed(v)) /\ Vs(db)' = Vs(db)
  BY <1>1, GenSame DEF StartInv
<1>3. \A v \in vs : v \in Vs(db) /\ Typed(v)
  BY DEF StartInv, GenInv, TypedDb, Typed, Vs, SelectsVertex, Selects
<1>4. \A e \in es : {e[1], e[2]} \subseteq vs
  <2>1. \A e \in DOMAIN db.edges : e[1] \in Vs(db) /\ e[2] \in Vs(db)
    BY DEF StartInv, GenInv, DbOK
  <2>2. QED  BY <2>1 DEF SelectsEdge, Vs
<1> HIDE DEF vs, es
<1>5. /\ \A v \in written'.vertices : v \in Vs(db) /\ Typed(v)
      /\ \A e \in written'.edges : {e[1], e[2]} \subseteq written'.vertices
  <2>1. CASE params.o_fname = ""
    BY <2>1, <1>1 DEF NoGraph
  <2>2. CASE params.o_fname # ""
    BY <2>2, <1>1, <1>3, <1>4
  <2>3. QED  BY <2>1, <2>2
<1>6. SubsystemsFound' /\ IsSequence(subsystems')
  BY <1>1, <1>2 DEF StartInv, SubsystemsFound
<1>7. (\E p : Given(p))'
  BY <1>1 DEF StartInv, Given
<1>8. ASSUME NEW v \in DOMAIN subplans'
      PROVE  v \in Vs(db)' /\ Typed(v)'
  BY <1>1, <1>2 DEF StartInv
<1>9. ASSUME NEW v \in written'.vertices
      PROVE  v \in Vs(db)' /\ Typed(v)'
  BY <1>2, <1>5
<1>10. QED  BY <1>1, <1>2, <1>5, <1>6, <1>7, <1>8, <1>9 DEF StartInv, Stopped

LEMMA NothingKeeps ==
    ASSUME StartInv, UNCHANGED vars
    PROVE  StartInv'
<1>1. UNCHANGED gen /\ UNCHANGED <<stage, params, subsystems, subplans, written>>
  BY DEF vars
<1>2. /\ GenInv' /\ (\A row : Found(row)' <=> Found(row)) /\ (\A v : Typed(v)' <=> Typed(v)) /\ Vs(db)' = Vs(db)
      /\ (InitGen => InitGen')
  BY <1>1, GenSame DEF StartInv
<1>3. SubsystemsFound' /\ IsSequence(subsystems')
  BY <1>1, <1>2 DEF StartInv, SubsystemsFound
<1>4. (\E p : Given(p))'
  BY <1>1 DEF StartInv, Given
<1>5. ASSUME NEW v \in DOMAIN subplans'
      PROVE  v \in Vs(db)' /\ Typed(v)'
  BY <1>1, <1>2 DEF StartInv
<1>6. ASSUME NEW v \in written'.vertices
      PROVE  v \in Vs(db)' /\ Typed(v)'
  BY <1>1, <1>2 DEF StartInv
<1>7. (\A e \in written.edges : {e[1], e[2]} \subseteq written.vertices)'
  BY <1>1 DEF StartInv
<1>8. QED  BY <1>1, <1>2, <1>3, <1>4, <1>5, <1>6, <1>7 DEF StartInv

LEMMA StartNext ==
    ASSUME StartInv, [Next]_vars
    PROVE  StartInv'
<1>1. CASE ReadOptions
  BY <1>1, ReadOptionsKeeps
<1>2. CASE GiveUp
  BY <1>2, GiveUpKeeps
<1>3. CASE Generate
  BY <1>3, GenerateKeeps
<1>4. CASE SetSubsystemsUse
  BY <1>4, SetSubsystemsUseKeeps
<1>5. CASE Initialize
  BY <1>5, InitializeKeeps
<1>6. CASE Command
  BY <1>6, CommandKeeps
<1>7. CASE EndOfInput
  BY <1>7, NothingKeeps DEF EndOfInput
<1>8. CASE Close
  BY <1>8, CloseKeeps
<1>9. CASE UNCHANGED vars
  BY <1>9, NothingKeeps
<1>10. QED  BY <1>1, <1>2, <1>3, <1>4, <1>5, <1>6, <1>7, <1>8, <1>9 DEF Next

LEMMA StartAlways == Spec => []StartInv
<1>1. Init => StartInv
  BY StartInit
<1>2. StartInv /\ [Next]_vars => StartInv'
  BY StartNext
<1>3. QED  BY <1>1, <1>2, PTL DEF Spec

LEMMA StartTyped ==
    ASSUME StartInv
    PROVE  TypeOK
<1>1. \E p \in Params : [p EXCEPT !.lines = <<>>] = [params EXCEPT !.lines = <<>>]
  BY DEF StartInv, Given
<1>2. DOMAIN db.edges = UNION {{<<v, w>> : w \in Range(db.out[v])} : v \in DOMAIN db.vertices}
  <2> DEFINE E == {x \in Vs(db) \X Vs(db) : x[2] \in Range(db.out[x[1]])}
             F == UNION {{<<v, w>> : w \in Range(db.out[v])} : v \in DOMAIN db.vertices}
  <2>1. DOMAIN db.edges = E
    BY DEF StartInv, GenInv, DbOK
  <2>2. \A v \in Vs(db) : Range(db.out[v]) \subseteq Vs(db)
    <3> SUFFICES ASSUME NEW v \in Vs(db)
                 PROVE  Range(db.out[v]) \subseteq Vs(db)
      OBVIOUS
    <3>1. db.out[v] \in Seq(Vs(db))
      BY DEF StartInv, GenInv, DbOK
    <3>2. QED  BY <3>1, SequenceOf
  <2>3. E \subseteq F
    BY DEF Vs
  <2>4. F \subseteq E
    BY <2>2 DEF Vs
  <2> HIDE DEF E, F
  <2>5. E = F
    BY <2>3, <2>4
  <2>6. QED  BY <2>1, <2>5 DEF F
<1>3. Range(db.roots) \cup DOMAIN subplans \subseteq DOMAIN db.vertices
  <2>1. Range(db.roots) \subseteq Vs(db)
    BY DEF StartInv, GenInv, DbOK, Range
  <2>2. DOMAIN subplans \subseteq Vs(db)
    BY DEF StartInv
  <2>3. QED  BY <2>1, <2>2 DEF Vs
<1>4. \A level \in Range(stack) : level.at \in color /\ level.next \in 1 .. Len(OutEdges(level.at)) + 1
  BY DEF StartInv, GenInv, IsLevel
<1>5. stage \in Stopped \cup {"options", "generate", "initialize", "prompt", "close"}
  BY DEF StartInv, Stages
<1>6. /\ color \subseteq DOMAIN recipe.vertices /\ Len(m_hier_scales) <= Len(stack)
      /\ Len(db.out) = Len(db.vertices)
  BY DEF StartInv, GenInv, DbOK
<1>7. QED  BY <1>1, <1>2, <1>3, <1>4, <1>5, <1>6 DEF TypeOK

\* From the options to the end of a session every variable has its type; the
\* search is never at an edge that is not there, and there are never more
\* scales than levels (gen_id and finish_vertex take them off unasked).
THEOREM StartupIsTyped == Spec => []TypeOK
<1>1. StartInv => TypeOK
  BY StartTyped
<1>2. QED  BY <1>1, StartAlways, PTL

\* However a recipe generates, no vertex that emit_vertex leaves blank has a
\* subtree plan or is in the file, and no edge is there without its ends.
THEOREM BlanksStayHidden == Spec => []OrphansHidden
<1>1. StartInv => OrphansHidden
  BY DEF StartInv, OrphansHidden, Typed
<1>2. QED  BY <1>1, StartAlways, PTL

\* No session begins without what its matcher's name asks for, and the
\* dominant subsystem has a root: initialize, run and schedule may take it
\* for granted.
THEOREM SessionsHaveTheirSubsystems == Spec => []SubsystemsFound
<1>1. StartInv => SubsystemsFound
  BY DEF StartInv
<1>2. QED  BY <1>1, StartAlways, PTL

-----------------------------------------------------------------------------
(* Paths. *)

\* A recipe vertex of c has the type and the subsystem.
Kind(c, type, s) == \E w \in c : recipe.vertices[w].type = type /\ recipe.vertices[w].subsystem = s

HasPath(d, v, s) == s \in DOMAIN d.vertices[v].paths

\* Where the path of v comes from.
Below(d, u, v, s) ==
    EdgeIn(d, u, v, s) /\ HasPath(d, u, s) /\ Extended(d.vertices[v].paths[s], d.vertices[u].paths[s], d.vertices[v].name)
AtRoot(d, v, s) ==
    d.vertices[v].paths[s] = <<d.vertices[v].name>> /\ s \in DOMAIN d.roots /\ d.roots[s] = v
Placed(d, v, s) == AtRoot(d, v, s) \/ \E u \in Vs(d) : Below(d, u, v, s)

\* The paths of a graph that the recipe vertices of c made.
PathsOK(d, c) ==
    /\ \A v \in Vs(d) : \A s : HasPath(d, v, s) =>
            IsSequence(d.vertices[v].paths[s]) /\ Placed(d, v, s) /\ Kind(c, d.vertices[v].type, s)
    /\ \A s \in DOMAIN d.roots : HasPath(d, d.roots[s], s)
    /\ Mirrored(d)

AllPlaced(d, made, s) == \A x \in Range(made) : HasPath(d, x, s)

\* A graph that grew and no path of which was written again.
KeptPaths(d, r) ==
    /\ Grown(d, r)
    /\ \A v \in Vs(d) : \A s : HasPath(d, v, s) => /\ HasPath(r, v, s)
                                                   /\ r.vertices[v].paths[s] = d.vertices[v].paths[s]
    /\ \A x, y, s : EdgeIn(d, x, y, s) => EdgeIn(r, x, y, s)
    /\ \A s \in DOMAIN d.roots : s \in DOMAIN r.roots /\ r.roots[s] = d.roots[s]

LEMMA PlacedKept ==
    ASSUME NEW d, NEW r, KeptPaths(d, r), NEW v \in Vs(d), NEW s, HasPath(d, v, s), Placed(d, v, s)
    PROVE  Placed(r, v, s)
<1>1. r.vertices[v].name = d.vertices[v].name /\ r.vertices[v].paths[s] = d.vertices[v].paths[s]
  BY DEF KeptPaths, Grown, Kin
<1>2. CASE AtRoot(d, v, s)
  BY <1>1, <1>2 DEF KeptPaths, AtRoot, Placed
<1>3. CASE \E u \in Vs(d) : Below(d, u, v, s)
  <2>1. PICK u \in Vs(d) : Below(d, u, v, s)
    BY <1>3
  <2>2. Below(r, u, v, s) /\ u \in Vs(r)
    BY <1>1, <2>1 DEF KeptPaths, Grown, Below
  <2>3. QED  BY <2>2 DEF Placed
<1>4. QED  BY <1>2, <1>3 DEF Placed

\* What was right before a change that writes no path again still is.
LEMMA PathsKept ==
    ASSUME NEW d, NEW r, KeptPaths(d, r), NEW c, PathsOK(d, c), NEW k, c \subseteq k, NEW v \in Vs(d), NEW s,
           HasPath(d, v, s)
    PROVE  IsSequence(r.vertices[v].paths[s]) /\ Placed(r, v, s) /\ Kind(k, r.vertices[v].type, s)
<1>1. Placed(r, v, s)
  BY PlacedKept DEF PathsOK
<1>2. r.vertices[v].type = d.vertices[v].type /\ r.vertices[v].paths[s] = d.vertices[v].paths[s]
  BY DEF KeptPaths, Grown, Kin
<1>3. QED  BY <1>1, <1>2 DEF PathsOK, Kind

LEMMA EmittedPath ==
    ASSUME NEW u, NEW id, NEW path, NEW v, Is(v, Emitted(u, id, path))
    PROVE  /\ v.type = recipe.vertices[u].type
           /\ \A s : s \in DOMAIN v.paths <=> s = recipe.vertices[u].subsystem
           /\ Extended(v.paths[recipe.vertices[u].subsystem], path, v.name)
<1> DEFINE S == recipe.vertices[u].subsystem
           name == <<recipe.vertices[u].basename, id>>
           p == Append(path, name)
           m == Put(NoMap, S, p)
<1>1. v.type = recipe.vertices[u].type /\ v.paths = m /\ v.name = name
  BY DEF Emitted, Is
<1>2. DOMAIN NoMap = {}
  BY DEF NoMap
<1>3. (\A s : s \in DOMAIN m <=> s = S) /\ m[S] = p
  <2> HIDE DEF p, S
  <2>1. QED  BY <1>2, PutIs
<1> HIDE DEF m, p
<1>4. p = Append(path, v.name)
  BY <1>1 DEF p
<1>5. QED  BY <1>1, <1>3, <1>4 DEF Extended

\* The path of a root is its name.
LEMMA RootPath ==
    ASSUME NEW v, NEW s, Extended(v.paths[s], <<>>, v.name)
    PROVE  IsSequence(v.paths[s]) /\ v.paths[s] = <<v.name>>
<1> DEFINE name == v.name
           p == v.paths[s]
           e == <<>>
<1>1. p = <<name>>
  BY DEF Extended
<1>2. IsSequence(e) /\ Extended(p, e, name)
  BY DEF IsSequence
<1> HIDE DEF p, name, e
<1>3. IsSequence(p)
  BY <1>2, Appended
<1>4. QED  BY <1>1, <1>3 DEF p, name

LEMMA RootedPaths ==
    ASSUME GenInv, PathsOK(db, color), NEW e, e.src \in DOMAIN recipe.vertices, e.src \in color,
           AllPlaced(db, SourcesOf(e.src), recipe.vertices[e.src].subsystem),
           NEW from, RootedAs(e, from)
    PROVE  /\ PathsOK(from.db, color) /\ KeptPaths(db, from.db)
           /\ AllPlaced(from.db, from.made, recipe.vertices[e.src].subsystem)
<1> DEFINE d == db
           r == from.db
           S == recipe.vertices[e.src].subsystem
<1>1. KeptPaths(d, d)
  BY DEF KeptPaths, Grown, Kin
<1>2. CASE from = [db |-> db, made |-> SourcesOf(e.src)]
  BY <1>1, <1>2
<1>3. CASE S \in DOMAIN db.roots /\ from = [db |-> db, made |-> <<db.roots[S]>>]
  <2>1. HasPath(db, db.roots[S], S)
    BY <1>3 DEF PathsOK
  <2>2. Range(<<db.roots[S]>>) = {db.roots[S]}
    BY DEF Range
  <2>3. QED  BY <1>1, <1>3, <2>1, <2>2 DEF AllPlaced
<1>4. CASE S \notin DOMAIN db.roots /\ Is(from.db, EmitRoot(db, e.src)) /\ from.made = <<Len(db.vertices) + 1>>
  <2> DEFINE u == e.src
             N == Len(d.vertices)
             v == r.vertices[N + 1]
  <2>1. Is(r, EmitRoot(d, u)) /\ DbOK(d)
    BY <1>4 DEF GenInv
  <2>2. N \in Nat /\ Vs(d) = 1 .. N
    BY DbIs DEF GenInv
  <2>3. PathsOK(d, color) /\ \A s \in DOMAIN d.roots : d.roots[s] \in Vs(d)
    BY DEF DbOK, GenInv
  <2>10. S = recipe.vertices[u].subsystem
    OBVIOUS
  <2> HIDE DEF d, r, u, S
  <2>4. /\ DbOK(r) /\ Len(r.vertices) = N + 1 /\ r.vertices[N + 1] = Emitted(u, 0, <<>>)
        /\ \A x \in Vs(d) : r.vertices[x] = d.vertices[x]
        /\ r.edges = d.edges
        /\ \A s : s \in DOMAIN r.roots <=> s \in DOMAIN d.roots \/ s = S
        /\ r.roots[S] = N + 1
        /\ \A s \in DOMAIN d.roots : s # S => r.roots[s] = d.roots[s]
    BY ONLY <2>1, <2>10, EmitRootIs
  <2>5. S \notin DOMAIN d.roots
    BY <1>4 DEF d
  <2> HIDE DEF N, v
  <2>6. Vs(r) = 1 .. N + 1
    BY <2>4, DbIs
  <2>7. \A x \in Vs(r) : x = N + 1 \/ x \in Vs(d)
    BY <2>2, <2>6
  <2>8. Vs(d) \subseteq Vs(r) /\ N + 1 \in Vs(r)
    BY <2>2, <2>6
  <2>9. /\ v.type = recipe.vertices[u].type /\ \A s : s \in DOMAIN v.paths <=> s = S
        /\ Extended(v.paths[S], <<>>, v.name)
    <3> DEFINE none == <<>>
    <3>1. Is(v, Emitted(u, 0, none))
      BY <2>4 DEF Is, v
    <3> HIDE DEF none
    <3>2. /\ v.type = recipe.vertices[u].type /\ \A s : s \in DOMAIN v.paths <=> s = S
          /\ Extended(v.paths[S], none, v.name)
      BY ONLY <2>10, <3>1, EmittedPath
    <3>3. QED  BY <3>2 DEF none
  <2>11. KeptPaths(d, r)
    <3>1. \A x, y, s : EdgeIn(d, x, y, s) => EdgeIn(r, x, y, s)
      BY <2>4 DEF EdgeIn, Edge
    <3>2. \A x \in Vs(d) : \A s : HasPath(d, x, s) => /\ HasPath(r, x, s)
                                                      /\ r.vertices[x].paths[s] = d.vertices[x].paths[s]
      BY <2>4 DEF HasPath
    <3>3. Grown(d, r)
      BY <2>4, <2>8 DEF Grown, Kin
    <3>4. QED  BY <2>4, <2>5, <3>1, <3>2, <3>3 DEF KeptPaths
  <2>12. IsSequence(v.paths[S]) /\ v.paths[S] = <<v.name>>
    BY <2>9, RootPath
  <2>13. ASSUME NEW x \in Vs(r), NEW s, HasPath(r, x, s)
         PROVE  IsSequence(r.vertices[x].paths[s]) /\ Placed(r, x, s) /\ Kind(color, r.vertices[x].type, s)
    <3>1. CASE x = N + 1
      <4>1. s = S /\ r.vertices[x] = v
        BY <2>9, <2>13, <3>1 DEF HasPath, v
      <4>2. AtRoot(r, x, s)
        BY <2>4, <2>12, <3>1, <4>1 DEF AtRoot
      <4>3. Kind(color, v.type, S)
        BY <2>9 DEF Kind, S, u
      <4>4. QED  BY <2>12, <4>1, <4>2, <4>3 DEF Placed
    <3>2. CASE x \in Vs(d)
      <4>1. HasPath(d, x, s)
        BY <2>4, <2>13, <3>2 DEF HasPath
      <4>2. QED  BY <2>3, <2>11, <3>2, <4>1, PathsKept
    <3>3. QED  BY <2>7, <3>1, <3>2
  <2>14. \A s \in DOMAIN r.roots : HasPath(r, r.roots[s], s)
    <3>1. HasPath(r, N + 1, S)
      BY <2>9 DEF HasPath, v
    <3>2. \A s \in DOMAIN d.roots : HasPath(d, d.roots[s], s)
      BY <2>3 DEF PathsOK
    <3>3. QED  BY <2>3, <2>4, <2>5, <2>11, <3>1, <3>2 DEF KeptPaths
  <2>15. Mirrored(r)
    BY <2>3, <2>4 DEF PathsOK, Mirrored, Edge, EdgeIn
  <2>16. AllPlaced(r, from.made, S)
    <3>1. Range(<<N + 1>>) = {N + 1}
      BY DEF Range
    <3>2. from.made = <<N + 1>>
      BY <1>4 DEF N, d
    <3>3. QED  BY <2>9, <3>1, <3>2 DEF AllPlaced, HasPath, v
  <2>17. PathsOK(r, color)
    BY <2>13, <2>14, <2>15 DEF PathsOK
  <2>18. QED  BY <2>11, <2>16, <2>17 DEF d, r, S
<1>5. QED  BY <1>2, <1>3, <1>4 DEF RootedAs

\* What a recipe edge is about, in a regular recipe.
RegularEdge(e, c) ==
    /\ recipe.vertices[e.tgt].subsystem = e.e_subsystem
    /\ ~Kind(c, recipe.vertices[e.tgt].type, e.e_subsystem)

LEMMA MultipliedPaths ==
    ASSUME NEW e, NEW c, RegularEdge(e, c), NEW d, DbOK(d), PathsOK(d, c),
           NEW sources \in Seq(Vs(d)), AllPlaced(d, sources, e.e_subsystem),
           NEW n \in Nat, NEW to, MulInv(d, e, sources, n, to),
           \A k \in 1 .. n : SourceAt(e, sources, k) \in Range(sources)
    PROVE  /\ PathsOK(to.db, c \cup {e.tgt}) /\ KeptPaths(d, to.db) /\ AllPlaced(to.db, to.made, e.e_subsystem)
<1> DEFINE r == to.db
           N == Len(d.vertices)
           S == e.e_subsystem
           T == recipe.vertices[e.tgt].type
           K == c \cup {e.tgt}
<1>1. N \in Nat /\ Vs(d) = 1 .. N
  BY DbIs
<1>2. /\ DbOK(r) /\ Len(r.vertices) = N + 2 * n /\ r.roots = d.roots
      /\ \A x \in Vs(d) : r.vertices[x] = d.vertices[x]
      /\ \A k \in 1 .. n : /\ r.vertices[N + 2 * k - 1] = Blank
                           /\ r.vertices[N + 2 * k] = TargetAt(d, e, sources, k)
      /\ IsSequence(to.made) /\ Len(to.made) = n /\ \A k \in 1 .. n : to.made[k] = N + 2 * k
      /\ \A x, y : Edge(r, x, y) <=> Edge(d, x, y) \/ NewEdge(d, e, sources, n, x, y)
      /\ \A x, y, t : EdgeIn(r, x, y, t)
                      <=> EdgeIn(d, x, y, t) \/ (t = S /\ NewEdge(d, e, sources, n, x, y))
  BY DEF MulInv
<1>3. \A x, y : NewEdge(d, e, sources, n, x, y) => NewEdge(d, e, sources, n, y, x)
  BY DEF NewEdge, Between
<1>4. \A k \in 1 .. n : SourceAt(e, sources, k) \in Vs(d) /\ HasPath(d, SourceAt(e, sources, k), S)
  <2>1. Range(sources) \subseteq Vs(d)
    BY SequenceOf
  <2>2. QED  BY <2>1 DEF AllPlaced
<1>5. \A k \in 1 .. n : NewEdge(d, e, sources, n, SourceAt(e, sources, k), N + 2 * k)
  BY DEF NewEdge, Between
<1> HIDE DEF N, r, S
<1>6. Vs(r) = 1 .. N + 2 * n
  BY <1>2, DbIs
<1>7. \A x \in Vs(r) : x \in Vs(d) \/ \E k \in 1 .. n : x = N + 2 * k - 1 \/ x = N + 2 * k
  <2> SUFFICES ASSUME NEW x \in Vs(r), x \notin Vs(d)
               PROVE  \E k \in 1 .. n : x = N + 2 * k - 1 \/ x = N + 2 * k
    OBVIOUS
  <2>1. x \in Int
    BY <1>6
  <2>2. x - N \in 1 .. 2 * n
    BY <1>1, <1>6
  <2>3. PICK k \in 1 .. n : x - N = 2 * k - 1 \/ x - N = 2 * k
    BY <2>2, OddOrEven
  <2>4. x = N + 2 * k - 1 \/ x = N + 2 * k
    BY <1>1, <2>3, <2>1
  <2>5. QED  BY <2>4
<1>8. Vs(d) \subseteq Vs(r) /\ \A k \in 1 .. n : N + 2 * k \in Vs(r)
  BY <1>1, <1>6
<1>9. KeptPaths(d, r)
  <2>1. Grown(d, r)
    BY <1>2, <1>8 DEF Grown, Kin
  <2>2. \A x \in Vs(d) : \A s : HasPath(d, x, s) => /\ HasPath(r, x, s)
                                                    /\ r.vertices[x].paths[s] = d.vertices[x].paths[s]
    BY <1>2 DEF HasPath
  <2>3. QED  BY <1>2, <2>1, <2>2 DEF KeptPaths
<1>10. ASSUME NEW k \in 1 .. n
       PROVE  /\ r.vertices[N + 2 * k].type = T
              /\ \A s : HasPath(r, N + 2 * k, s) <=> s = S
              /\ IsSequence(r.vertices[N + 2 * k].paths[S])
              /\ Below(r, SourceAt(e, sources, k), N + 2 * k, S)
  <2> DEFINE src == SourceAt(e, sources, k)
             path == PathIn(d, src, recipe.vertices[e.tgt].subsystem)
             id == GenId(e, (k - 1) % e.multi_scale, e.multi_scale, (k - 1) \div e.multi_scale)
             x == N + 2 * k
             v == r.vertices[x]
             u == e.tgt
  <2>1. recipe.vertices[u].subsystem = S
    BY DEF RegularEdge, S
  <2>2. v = Emitted(u, id, path)
    BY <1>2 DEF TargetAt
  <2>3. src \in Vs(d) /\ HasPath(d, src, S) /\ path = d.vertices[src].paths[S]
    <3>1. src \in Vs(d) /\ HasPath(d, src, S)
      BY <1>4
    <3>2. QED  BY <2>1, <3>1 DEF PathIn, HasPath
  <2>4. IsSequence(path)
    BY <2>3 DEF PathsOK
  <2>5. EdgeIn(r, src, x, S)
    BY <1>2, <1>5
  <2>6. HasPath(r, src, S) /\ r.vertices[src].paths[S] = path
    BY <1>9, <2>3 DEF KeptPaths
  <2> HIDE DEF path, src, id, v, x, u
  <2>7. /\ v.type = recipe.vertices[u].type /\ \A s : s \in DOMAIN v.paths <=> s = S
        /\ Extended(v.paths[S], path, v.name)
    <3>1. Is(v, Emitted(u, id, path))
      BY <2>2 DEF Is
    <3>2. QED  BY ONLY <2>1, <3>1, EmittedPath
  <2>8. IsSequence(v.paths[S])
    <3> DEFINE p == v.paths[S]
               name == v.name
    <3>1. IsSequence(path) /\ Extended(p, path, name)
      BY <2>4, <2>7
    <3> HIDE DEF p, name
    <3>2. IsSequence(p)
      BY <3>1, Appended
    <3>3. QED  BY <3>2 DEF p
  <2>9. Below(r, src, x, S)
    BY <2>5, <2>6, <2>7 DEF Below, v
  <2>10. QED  BY <2>7, <2>8, <2>9 DEF v, x, src, u, HasPath
<1>11. ASSUME NEW x \in Vs(r), NEW s, HasPath(r, x, s)
       PROVE  IsSequence(r.vertices[x].paths[s]) /\ Placed(r, x, s) /\ Kind(K, r.vertices[x].type, s)
  <2>1. CASE x \in Vs(d)
    <3>1. HasPath(d, x, s) /\ c \subseteq K
      BY <1>2, <1>11, <2>1 DEF HasPath
    <3> HIDE DEF K
    <3>2. QED  BY <1>9, <2>1, <3>1, PathsKept
  <2>2. CASE \E k \in 1 .. n : x = N + 2 * k - 1
    <3>1. DOMAIN r.vertices[x].paths = {}
      <4>1. r.vertices[x] = Blank
        BY <1>2, <2>2
      <4>2. Blank.paths = NoMap /\ DOMAIN NoMap = {}
        BY DEF Blank, NoMap
      <4>3. QED  BY <4>1, <4>2
    <3>2. QED  BY <3>1, <1>11 DEF HasPath
  <2>3. CASE \E k \in 1 .. n : x = N + 2 * k
    <3>1. PICK k \in 1 .. n : x = N + 2 * k
      BY <2>3
    <3> DEFINE src == SourceAt(e, sources, k)
    <3>2. s = S /\ r.vertices[x].type = T /\ IsSequence(r.vertices[x].paths[S]) /\ Below(r, src, x, S)
      BY <1>10, <1>11, <3>1
    <3>3. src \in Vs(r)
      BY <1>4, <1>8
    <3> HIDE DEF src
    <3>4. Placed(r, x, S)
      BY <3>2, <3>3 DEF Placed
    <3>5. Kind(K, T, S)
      BY DEF Kind, RegularEdge, S
    <3>6. QED  BY <3>2, <3>4, <3>5
  <2>4. QED  BY <1>7, <2>1, <2>2, <2>3
<1>12. \A s \in DOMAIN r.roots : HasPath(r, r.roots[s], s)
  <2>1. \A s \in DOMAIN d.roots : HasPath(d, d.roots[s], s) /\ d.roots[s] \in Vs(d)
    BY DEF PathsOK, DbOK
  <2>2. QED  BY <1>2, <1>9, <2>1 DEF KeptPaths
<1>13. Mirrored(r)
  BY <1>2, <1>3 DEF PathsOK, Mirrored
<1>14. AllPlaced(r, to.made, S)
  <2>1. DOMAIN to.made = 1 .. n
    BY <1>2, SequenceIs
  <2>2. \A k \in 1 .. n : HasPath(r, N + 2 * k, S)
    BY <1>10
  <2>3. QED  BY <1>2, <2>1, <2>2 DEF AllPlaced, Range
<1>15. PathsOK(r, K)
  <2> HIDE DEF K
  <2>1. QED  BY <1>11, <1>12, <1>13 DEF PathsOK
<1>16. QED  BY <1>9, <1>14, <1>15 DEF r, S

LEMMA AssociatedPaths ==
    ASSUME NEW e, NEW c, RegularEdge(e, c), NEW d, DbOK(d), PathsOK(d, c),
           NEW sources \in Seq(Vs(d)), AllPlaced(d, sources, e.e_subsystem),
           NEW to, AssocInv(d, e, sources, 0, to)
    PROVE  /\ PathsOK(to.db, c \cup {e.tgt}) /\ KeptPaths(d, to.db) /\ AllPlaced(to.db, to.made, e.e_subsystem)
<1> DEFINE r == to.db
           S == e.e_subsystem
           T == recipe.vertices[e.tgt].type
           K == c \cup {e.tgt}
<1>1. /\ DbOK(r) /\ Vs(r) = Vs(d) /\ r.roots = d.roots /\ IsSequence(to.made)
      /\ \A x \in Range(to.made) : /\ x \in Vs(d) /\ d.vertices[x].type = T
                                   /\ Joined(r.vertices[x], d.vertices[x], S)
                                   /\ \E src \in Range(sources) : PathOver(r, d, x, src, e)
      /\ \A x \in Vs(d) : x \notin Range(to.made) => r.vertices[x] = d.vertices[x]
      /\ Mirrored(d) => Mirrored(r)
      /\ \A x, y, t : EdgeIn(d, x, y, t) => EdgeIn(r, x, y, t)
  BY DEF AssocInv
<1>2. \A src \in Range(sources) : src \in Vs(d) /\ HasPath(d, src, S)
  <2>1. Range(sources) \subseteq Vs(d)
    BY SequenceOf
  <2>2. QED  BY <2>1 DEF AllPlaced
<1>3. \A x \in Vs(d) : HasPath(d, x, S) => d.vertices[x].type # T
  BY DEF PathsOK, RegularEdge
<1> HIDE DEF r, S
<1>4. KeptPaths(d, r)
  <2>1. Grown(d, r)
    BY <1>1 DEF Grown, Joined, Kin
  <2>2. ASSUME NEW x \in Vs(d), NEW s, HasPath(d, x, s)
        PROVE  HasPath(r, x, s) /\ r.vertices[x].paths[s] = d.vertices[x].paths[s]
    <3>1. CASE x \notin Range(to.made)
      BY <1>1, <2>2, <3>1 DEF HasPath
    <3>2. CASE x \in Range(to.made)
      <4>1. Joined(r.vertices[x], d.vertices[x], S) /\ d.vertices[x].type = T
        BY <1>1, <3>2
      <4>2. s # S
        BY <1>3, <2>2, <4>1
      <4>3. QED  BY <2>2, <4>1, <4>2 DEF Joined, HasPath
    <3>3. QED  BY <3>1, <3>2
  <2>3. QED  BY <1>1, <2>1, <2>2 DEF KeptPaths
<1>5. ASSUME NEW x \in Range(to.made)
      PROVE  /\ HasPath(r, x, S) /\ IsSequence(r.vertices[x].paths[S]) /\ Placed(r, x, S)
             /\ Kind(K, r.vertices[x].type, S)
             /\ \A s : HasPath(r, x, s) => s = S \/ HasPath(d, x, s)
  <2>1. /\ x \in Vs(d) /\ d.vertices[x].type = T /\ Joined(r.vertices[x], d.vertices[x], S)
    BY <1>1
  <2>2. PICK src \in Range(sources) : PathOver(r, d, x, src, e)
    BY <1>1
  <2> DEFINE path == d.vertices[src].paths[S]
             p == r.vertices[x].paths[S]
             name == d.vertices[x].name
  <2>3. src \in Vs(d) /\ HasPath(d, src, S) /\ d.vertices[src].type # T
    BY <1>2, <1>3
  <2>4. PathIn(d, src, S) = path
    BY <2>3 DEF PathIn, HasPath
  <2>5. EdgeIn(r, src, x, S) /\ p = Append(path, name)
    BY <2>2, <2>3, <2>4 DEF PathOver, S
  <2>6. Extended(p, path, name)
    BY <2>5 DEF Extended
  <2>7. IsSequence(path)
    BY <2>3 DEF PathsOK
  <2>8. r.vertices[x].name = name /\ r.vertices[x].type = T
    BY <2>1 DEF Joined, Kin
  <2>9. HasPath(r, src, S) /\ r.vertices[src].paths[S] = path
    BY <1>4, <2>3 DEF KeptPaths
  <2>10. Below(r, src, x, S)
    BY <2>5, <2>6, <2>8, <2>9 DEF Below
  <2>11. Placed(r, x, S)
    BY <1>1, <2>3, <2>10 DEF Placed
  <2> HIDE DEF path, p, name
  <2>12. IsSequence(p)
    BY <2>6, <2>7, Appended
  <2>13. Kind(K, T, S)
    BY DEF Kind, RegularEdge, S
  <2>14. HasPath(r, x, S) /\ \A s : HasPath(r, x, s) => s = S \/ HasPath(d, x, s)
    BY <2>1 DEF Joined, HasPath
  <2>15. QED  BY <2>8, <2>11, <2>12, <2>13, <2>14 DEF p
<1>6. ASSUME NEW x \in Vs(r), NEW s, HasPath(r, x, s)
      PROVE  IsSequence(r.vertices[x].paths[s]) /\ Placed(r, x, s) /\ Kind(K, r.vertices[x].type, s)
  <2>1. CASE HasPath(d, x, s)
    <3>1. c \subseteq K /\ x \in Vs(d)
      BY <1>1
    <3> HIDE DEF K
    <3>2. QED  BY <1>4, <2>1, <3>1, PathsKept
  <2>2. CASE ~HasPath(d, x, s)
    <3>1. x \in Range(to.made)
      BY <1>1, <1>6, <2>2 DEF HasPath
    <3>2. s = S
      BY <1>5, <1>6, <2>2, <3>1
    <3>3. QED  BY <1>5, <3>1, <3>2
  <2>3. QED  BY <2>1, <2>2
<1>7. \A s \in DOMAIN r.roots : HasPath(r, r.roots[s], s)
  <2>1. \A s \in DOMAIN d.roots : HasPath(d, d.roots[s], s) /\ d.roots[s] \in Vs(d)
    BY DEF PathsOK, DbOK
  <2>2. QED  BY <1>1, <1>4, <2>1 DEF KeptPaths
<1>8. Mirrored(r)
  BY <1>1 DEF PathsOK
<1>9. AllPlaced(r, to.made, S)
  BY <1>5 DEF AllPlaced
<1>10. PathsOK(r, K)
  <2> HIDE DEF K
  <2>1. QED  BY <1>6, <1>7, <1>8 DEF PathsOK
<1>11. QED  BY <1>4, <1>9, <1>10 DEF r, S

\* What an edge of any method makes of the paths.
LEMMA GeneratedPaths ==
    ASSUME IsRecipe(recipe), NEW e \in Range(recipe.edges), NEW c, RegularEdge(e, c),
           NEW from, DbOK(from.db), PathsOK(from.db, c), from.made \in Seq(Vs(from.db)),
           AllPlaced(from.db, from.made, e.e_subsystem), NEW to, Is(to, Generated(e, from))
    PROVE  /\ PathsOK(to.db, c \cup {e.tgt}) /\ KeptPaths(from.db, to.db)
           /\ AllPlaced(to.db, to.made, e.e_subsystem)
<1> DEFINE d == from.db
           sources == from.made
<1>1. DbOK(d) /\ PathsOK(d, c) /\ sources \in Seq(Vs(d)) /\ AllPlaced(d, sources, e.e_subsystem)
  OBVIOUS
<1>2. e.multi_scale \in Int
  BY DEF IsRecipe
<1>3. CASE e.gen_method = "MULTIPLY"
  <2>1. to = Multiplied(d, e, sources)
    BY <1>3 DEF Generated, Is, GenMethods
  <2> HIDE DEF d, sources
  <2>2. PICK n \in Nat : /\ MulInv(d, e, sources, n, to)
                         /\ \A k \in 1 .. n : SourceAt(e, sources, k) \in Range(sources)
    BY <1>1, <1>2, <2>1, MultipliedIs
  <2>3. QED  BY <1>1, <2>2, MultipliedPaths DEF d
<1>4. CASE e.gen_method \in {"ASSOCIATE_IN", "ASSOCIATE_BY_PATH_IN"}
  <2>1. to = AssociatedAll(d, e, sources)
    BY <1>4 DEF Generated, Is, GenMethods
  <2> HIDE DEF d, sources
  <2>2. AssocInv(d, e, sources, 0, to)
    BY <1>1, <2>1, AssociatedAllIs
  <2>3. QED  BY <1>1, <2>2, AssociatedPaths DEF d
<1>5. CASE e.gen_method \notin GenMethods
  <2>1. to = Made(d)
    BY <1>5 DEF Generated, Is, GenMethods
  <2>2. to.db = d /\ to.made = <<>>
    BY <2>1 DEF Made
  <2>3. KeptPaths(d, d) /\ AllPlaced(d, <<>>, e.e_subsystem)
    BY DEF KeptPaths, Grown, Kin, AllPlaced, Range
  <2> DEFINE K == c \cup {e.tgt}
  <2>4. \A type, s : Kind(c, type, s) => Kind(K, type, s)
    BY DEF Kind
  <2> HIDE DEF K, d
  <2>5. PathsOK(d, K)
    BY <1>1, <2>4 DEF PathsOK
  <2>6. QED  BY <2>2, <2>3, <2>5 DEF K, d
<1>6. QED  BY <1>3, <1>4, <1>5 DEF GenMethods

\* What recipe vertices stand for has its path in their subsystem.
PathInv ==
    Regular => /\ PathsOK(db, color)
               /\ \A u \in DOMAIN recipe.vertices : AllPlaced(db, SourcesOf(u), recipe.vertices[u].subsystem)

LEMMA RegularIs ==
    ASSUME Regular, color \subseteq DOMAIN recipe.vertices, NEW e \in Range(recipe.edges),
           e.tgt \in DOMAIN recipe.vertices, e.tgt \notin color
    PROVE  RegularEdge(e, color) /\ recipe.vertices[e.src].subsystem = e.e_subsystem
<1>1. /\ recipe.vertices[e.src].subsystem = e.e_subsystem
      /\ recipe.vertices[e.tgt].subsystem = e.e_subsystem
  <2>1. {recipe.vertices[e.src].subsystem, recipe.vertices[e.tgt].subsystem} = {e.e_subsystem}
    BY DEF Regular
  <2>2. QED  BY <2>1
<1>2. \A w \in color : ~(/\ recipe.vertices[w].type = recipe.vertices[e.tgt].type
                         /\ recipe.vertices[w].subsystem = e.e_subsystem)
  <2> SUFFICES ASSUME NEW w \in color, recipe.vertices[w].type = recipe.vertices[e.tgt].type,
                      recipe.vertices[w].subsystem = e.e_subsystem
               PROVE  FALSE
    OBVIOUS
  <2>1. <<recipe.vertices[w].type, recipe.vertices[w].subsystem>>
          = <<recipe.vertices[e.tgt].type, recipe.vertices[e.tgt].subsystem>>
    BY <1>1
  <2>2. w = e.tgt
    BY <2>1 DEF Regular
  <2>3. QED  BY <2>2
<1>3. QED  BY <1>1, <1>2 DEF RegularEdge, Kind

LEMMA TakenPaths ==
    ASSUME GenInv, PathInv, NEW e, NEW from, NEW to, Taken(e, from, to)
    PROVE  PathInv'
<1> SUFFICES ASSUME Regular'
             PROVE  /\ PathsOK(db, color)'
                    /\ (\A u \in DOMAIN recipe.vertices : AllPlaced(db, SourcesOf(u), recipe.vertices[u].subsystem))'
  BY DEF PathInv
<1>1. /\ e \in Range(recipe.edges) /\ e.src \in color /\ e.src \in DOMAIN recipe.vertices
      /\ e.tgt \in DOMAIN recipe.vertices /\ e.tgt \notin color /\ RootedAs(e, from)
      /\ Is(to, Generated(e, from)) /\ db' = to.db /\ color' = color \cup {e.tgt} /\ recipe' = recipe
  BY DEF Taken
<1>2. Regular
  <2>1. Regular' <=> Regular
    BY <1>1 DEF Regular, Into
  <2>2. QED  BY <2>1
<1>3. /\ PathsOK(db, color)
      /\ \A u \in DOMAIN recipe.vertices : AllPlaced(db, SourcesOf(u), recipe.vertices[u].subsystem)
  BY <1>2 DEF PathInv
<1>4. RegularEdge(e, color) /\ recipe.vertices[e.src].subsystem = e.e_subsystem
      /\ recipe.vertices[e.tgt].subsystem = e.e_subsystem
  <2>1. color \subseteq DOMAIN recipe.vertices
    BY DEF GenInv
  <2>2. QED  BY <1>1, <1>2, <2>1, RegularIs DEF RegularEdge
<1>5. /\ PathsOK(from.db, color) /\ KeptPaths(db, from.db)
      /\ AllPlaced(from.db, from.made, e.e_subsystem)
  BY <1>1, <1>3, <1>4, RootedPaths
<1>6. IsRecipe(recipe) /\ DbOK(from.db) /\ from.made \in Seq(Vs(from.db)) /\ \A u : SourcesOf(u) \in Seq(Vs(db))
  <2>1. IsRecipe(recipe) /\ DbOK(db) /\ TypedDb(db) /\ \A u : SourcesOf(u) \in Seq(Vs(db))
    BY DEF GenInv
  <2>2. QED  BY <1>1, <2>1, RootedKeeps
<1>7. /\ PathsOK(to.db, color \cup {e.tgt}) /\ KeptPaths(from.db, to.db)
      /\ AllPlaced(to.db, to.made, e.e_subsystem)
  BY <1>1, <1>4, <1>5, <1>6, GeneratedPaths
<1>8. PathsOK(db, color)'
  <2> DEFINE c == color'
             d == db'
  <2>1. PathsOK(d, c)
    BY <1>1, <1>7
  <2>2. recipe' = recipe
    BY <1>1
  <2>3. QED  BY <2>1, <2>2 DEF PathsOK, Kind, HasPath, Placed, AtRoot, Below, Mirrored, EdgeIn, Edge, Extended, Vs, IsSequence
<1>9. ASSUME NEW u \in DOMAIN recipe.vertices
      PROVE  AllPlaced(db', SourcesOf(u)', recipe.vertices[u].subsystem)
  <2>1. SourcesOf(u)' = IF u = e.tgt THEN to.made ELSE IF u = e.src THEN from.made ELSE SourcesOf(u)
    BY SourcesThen
  <2>2. CASE u = e.tgt
    BY <2>1, <2>2, <1>1, <1>4, <1>7
  <2>3. CASE u # e.tgt /\ u = e.src
    <3>1. Range(from.made) \subseteq Vs(from.db)
      BY <1>6, SequenceOf
    <3>2. QED  BY <2>1, <2>3, <3>1, <1>1, <1>4, <1>5, <1>7 DEF AllPlaced, KeptPaths
  <2>4. CASE u # e.tgt /\ u # e.src
    <3>1. Range(SourcesOf(u)) \subseteq Vs(db) /\ Vs(db) \subseteq Vs(from.db)
      <4>1. SourcesOf(u) \in Seq(Vs(db))
        BY <1>6
      <4>2. QED  BY <4>1, <1>5, SequenceOf DEF KeptPaths, Grown
    <3>2. AllPlaced(db, SourcesOf(u), recipe.vertices[u].subsystem)
      BY <1>3
    <3>3. QED  BY <2>1, <2>4, <3>1, <3>2, <1>1, <1>5, <1>7 DEF AllPlaced, KeptPaths
  <2>5. QED  BY <2>2, <2>3, <2>4
<1>10. (\A u \in DOMAIN recipe.vertices : AllPlaced(db, SourcesOf(u), recipe.vertices[u].subsystem))'
  BY <1>1, <1>9 DEF AllPlaced, HasPath
<1>11. QED  BY <1>8, <1>10

\* A step that touches neither the recipe nor the graph.
LEMMA PathsSame ==
    ASSUME GenInv, PathInv, UNCHANGED <<recipe, m_gen_src_vtx, db>>, color \subseteq color'
    PROVE  PathInv'
<1> SUFFICES ASSUME Regular'
             PROVE  /\ PathsOK(db, color)'
                    /\ (\A u \in DOMAIN recipe.vertices : AllPlaced(db, SourcesOf(u), recipe.vertices[u].subsystem))'
  BY DEF PathInv
<1>1. Regular
  <2>1. Regular' <=> Regular
    BY DEF Regular, Into
  <2>2. QED  BY <2>1
<1>2. PathsOK(db, color)
  BY <1>1 DEF PathInv
<1>3. PathsOK(db, color)'
  <2> DEFINE c == color'
  <2>1. PathsOK(db, c)
    <3>1. \A type, s : Kind(color, type, s) => Kind(c, type, s)
      BY DEF Kind
    <3> HIDE DEF c
    <3>2. QED  BY <1>2, <3>1 DEF PathsOK
  <2>2. QED  BY <2>1 DEF PathsOK, Kind, HasPath, Placed, AtRoot, Below, Mirrored, EdgeIn, Edge, Extended, Vs, IsSequence
<1>4. \A u \in DOMAIN recipe.vertices : AllPlaced(db, SourcesOf(u), recipe.vertices[u].subsystem)
  BY <1>1 DEF PathInv
<1>5. QED  BY <1>3, <1>4 DEF AllPlaced, HasPath, SourcesOf

LEMMA NoPathsYet ==
    ASSUME db' = EmptyDb, m_gen_src_vtx' = NoMap
    PROVE  PathInv'
<1>1. DOMAIN NoMap = {}
  BY DEF NoMap
<1>2. Vs(db') = {} /\ DOMAIN db'.roots = {} /\ DOMAIN db'.edges = {}
  BY <1>1 DEF EmptyDb, Vs
<1>3. PathsOK(db, color)'
  BY <1>2 DEF PathsOK, Mirrored, Edge, EdgeIn, Vs
<1>4. \A u : SourcesOf(u)' = <<>>
  BY <1>1 DEF SourcesOf
<1>5. Range(<<>>) = {}
  BY DEF Range
<1>6. (\A u \in DOMAIN recipe.vertices : AllPlaced(db, SourcesOf(u), recipe.vertices[u].subsystem))'
  BY <1>4, <1>5 DEF AllPlaced
<1>7. QED  BY <1>3, <1>6 DEF PathInv

LEMMA PathsInit ==
    ASSUME Init
    PROVE  PathInv
<1>1. db = EmptyDb /\ m_gen_src_vtx = NoMap
  BY DEF Init, InitGen
<1>2. DOMAIN NoMap = {}
  BY DEF NoMap
<1>3. Vs(db) = {} /\ DOMAIN db.roots = {} /\ DOMAIN db.edges = {}
  BY <1>1, <1>2 DEF EmptyDb, Vs
<1>4. PathsOK(db, color)
  BY <1>3 DEF PathsOK, Mirrored, Edge, EdgeIn
<1>5. \A u : SourcesOf(u) = <<>>
  BY <1>1, <1>2 DEF SourcesOf
<1>6. Range(<<>>) = {}
  BY DEF Range
<1>7. QED  BY <1>4, <1>5, <1>6 DEF PathInv, AllPlaced

LEMMA PathsNext ==
    ASSUME StartInv, PathInv, [Next]_vars
    PROVE  PathInv'
<1> USE DEF StartInv
<1>1. CASE ReadOptions
  <2>1. db' = EmptyDb /\ m_gen_src_vtx' = NoMap
    BY <1>1 DEF ReadOptions, InitGen
  <2>2. QED  BY <2>1, NoPathsYet
<1>2. CASE Generate
  <2>1. CASE StartVertex
    <3>1. UNCHANGED <<recipe, m_gen_src_vtx, db>> /\ color \subseteq color'
      BY <2>1 DEF StartVertex
    <3>2. QED  BY <3>1, PathsSame
  <2>2. CASE TreeEdge
    <3>1. PICK e, from, to : Taken(e, from, to)
      BY <2>2, TreeEdgeIs
    <3>2. QED  BY <3>1, TakenPaths
  <2>3. CASE OtherEdge \/ FinishVertex
    <3>1. UNCHANGED <<recipe, m_gen_src_vtx, db>> /\ color \subseteq color'
      BY <2>3 DEF OtherEdge, FinishVertex
    <3>2. QED  BY <3>1, PathsSame
  <2>4. QED  BY <1>2, <2>1, <2>2, <2>3 DEF Generate, SearchStep
<1>3. CASE UNCHANGED gen
  <2>1. UNCHANGED <<recipe, m_gen_src_vtx, db>> /\ color \subseteq color'
    BY <1>3 DEF gen
  <2>2. QED  BY <2>1, PathsSame
<1>4. QED
  BY <1>1, <1>2, <1>3 DEF Next, GiveUp, SetSubsystemsUse, Initialize, Command, EndOfInput, Close, vars

LEMMA PathsAlways == Spec => [](StartInv /\ PathInv)
<1>1. Init => StartInv /\ PathInv
  BY StartInit, PathsInit
<1>2. StartInv /\ PathInv /\ [Next]_vars => (StartInv /\ PathInv)'
  BY StartNext, PathsNext
<1>3. QED  BY <1>1, <1>2, PTL DEF Spec

LEMMA ExtendedEnds ==
    ASSUME NEW s, IsSequence(s), NEW x, NEW t, Extended(t, s, x)
    PROVE  Last(t) = x /\ Front(t) = s
<1> DEFINE S == Range(s) \cup {x}
<1>1. /\ IsSequence(t) /\ Len(t) = Len(s) + 1 /\ t[Len(s) + 1] = x /\ \A i \in 1 .. Len(s) : t[i] = s[i]
      /\ Range(t) = S
  BY Appended
<1>2. s \in Seq(S) /\ t \in Seq(S) /\ Len(s) \in Nat
  BY <1>1, SequenceIs, SequenceIn DEF IsSequence
<1> HIDE DEF S
<1>3. Len(SubSeq(t, 1, Len(s))) = Len(s) /\ SubSeq(t, 1, Len(s)) \in Seq(S)
      /\ \A i \in 1 .. Len(s) : SubSeq(t, 1, Len(s))[i] = t[i]
  BY <1>1, <1>2
<1>4. SubSeq(t, 1, Len(s)) = s
  BY <1>1, <1>2, <1>3, SeqEqual
<1>5. QED  BY <1>1, <1>2, <1>4 DEF Last, Front

LEMMA PathsAreRight ==
    ASSUME StartInv, PathInv
    PROVE  PathsFollowEdges
<1> SUFFICES ASSUME Regular
             PROVE  /\ \A e \in DOMAIN db.edges :
                          /\ <<e[2], e[1]>> \in DOMAIN db.edges
                          /\ DOMAIN db.edges[<<e[2], e[1]>>] = DOMAIN db.edges[e]
                    /\ \A v \in DOMAIN db.vertices : \A s \in DOMAIN db.vertices[v].paths :
                          LET path == PathIn(db, v, s) IN
                          /\ Last(path) = db.vertices[v].name
                          /\ \/ path = <<db.vertices[v].name>> /\ s \in DOMAIN db.roots /\ db.roots[s] = v
                             \/ \E u \in DOMAIN db.vertices :
                                  /\ <<u, v>> \in DOMAIN db.edges /\ s \in DOMAIN db.edges[<<u, v>>]
                                  /\ PathIn(db, u, s) = Front(path)
  BY DEF PathsFollowEdges
<1>1. DbOK(db) /\ PathsOK(db, color)
  BY DEF StartInv, GenInv, PathInv
<1>2. ASSUME NEW e \in DOMAIN db.edges
      PROVE  /\ <<e[2], e[1]>> \in DOMAIN db.edges
             /\ DOMAIN db.edges[<<e[2], e[1]>>] = DOMAIN db.edges[e]
  <2>1. e = <<e[1], e[2]>>
    BY <1>1 DEF DbOK
  <2>2. PICK x, y : e = <<x, y>> /\ x = e[1] /\ y = e[2]
    BY <2>1
  <2>3. Edge(db, x, y)
    BY <2>2 DEF Edge
  <2>4. Edge(db, y, x)
    BY <1>1, <2>3 DEF PathsOK, Mirrored
  <2>5. \A t : EdgeIn(db, x, y, t) <=> EdgeIn(db, y, x, t)
    BY <1>1 DEF PathsOK, Mirrored
  <2>6. \A t : t \in DOMAIN db.edges[<<x, y>>] <=> t \in DOMAIN db.edges[<<y, x>>]
    BY <2>3, <2>4, <2>5 DEF EdgeIn
  <2>7. DOMAIN db.edges[<<y, x>>] = DOMAIN db.edges[<<x, y>>]
    BY <2>6
  <2>8. QED  BY <2>2, <2>4, <2>7 DEF Edge
<1>3. ASSUME NEW v \in Vs(db), NEW s \in DOMAIN db.vertices[v].paths
      PROVE  LET path == PathIn(db, v, s) IN
             /\ Last(path) = db.vertices[v].name
             /\ \/ path = <<db.vertices[v].name>> /\ s \in DOMAIN db.roots /\ db.roots[s] = v
                \/ \E u \in Vs(db) : EdgeIn(db, u, v, s) /\ PathIn(db, u, s) = Front(path)
  <2> DEFINE path == db.vertices[v].paths[s]
             name == db.vertices[v].name
  <2>1. PathIn(db, v, s) = path
    BY DEF PathIn
  <2>2. IsSequence(path) /\ Placed(db, v, s)
    BY <1>1 DEF PathsOK, HasPath
  <2>3. CASE AtRoot(db, v, s)
    <3>1. path = <<name>> /\ s \in DOMAIN db.roots /\ db.roots[s] = v
      BY <2>3 DEF AtRoot
    <3>2. Last(<<name>>) = name
      BY DEF Last
    <3> HIDE DEF path
    <3>3. QED  BY <2>1, <3>1, <3>2
  <2>4. CASE \E u \in Vs(db) : Below(db, u, v, s)
    <3>1. PICK u \in Vs(db) : Below(db, u, v, s)
      BY <2>4
    <3> DEFINE above == db.vertices[u].paths[s]
    <3>2. EdgeIn(db, u, v, s) /\ HasPath(db, u, s) /\ Extended(path, above, name)
      BY <3>1 DEF Below
    <3>3. IsSequence(above) /\ PathIn(db, u, s) = above
      BY <1>1, <3>2 DEF PathsOK, PathIn, HasPath
    <3> HIDE DEF path, above, name
    <3>4. Last(path) = name /\ Front(path) = above
      BY <3>2, <3>3, ExtendedEnds
    <3>5. QED  BY <2>1, <3>2, <3>3, <3>4 DEF name
  <2>5. QED  BY <2>2, <2>3, <2>4 DEF Placed
<1>4. QED  BY <1>2, <1>3 DEF Vs, EdgeIn, Edge

\* In a regular recipe, with any number of vertices and any mix of ways to
\* generate, every edge has its edge back in the same subsystems, and every
\* path is the path of a vertex with an edge to this one, and its own name.
\* What the proof rests on: an association writes the paths of a type in a
\* subsystem once, before anything below has been given a path.
THEOREM PathsAreTrue == Spec => []PathsFollowEdges
<1>1. StartInv /\ PathInv => PathsFollowEdges
  BY PathsAreRight
<1>2. QED  BY <1>1, PathsAlways, PTL
=============================================================================
