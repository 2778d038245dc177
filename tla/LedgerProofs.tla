----------------------------- MODULE LedgerProofs -----------------------------
(*****************************************************************************)
(* What a session promises to those who submit jobs, for every graph and     *)
(* every set of jobspecs: tags lead to bookings, and bookings come and go as *)
(* module Ledger says, none beyond what a resource has. The invariant SInv   *)
(* holds the plans within what their vertices have. Therefore what a match   *)
(* marks is free (module SessionProofs), every step of an update succeeds, a *)
(* job is tagged on the whole way from the root to each of its bookings, and *)
(* a cancel that follows the tags finds all of them. The second part is      *)
(* about the subtree plans, the last about exclusive access.                 *)
(*****************************************************************************)
EXTENDS SessionProofs

Holds(r, job) == job \in DOMAIN r.allocations \cup DOMAIN r.reservations
SpanOf(r, job) == r.plans.spans[PlanSpan(r, job)]

-----------------------------------------------------------------------------
(* The graph. *)

LEMMA PathsNest ==
    \A v \in Vertices : Root \in Path[v] /\ \A w \in Path[v] : w \in Vertices /\ Path[w] \subseteq Path[v]
<1> DEFINE Good(v) == Root \in Path[v] /\ \A w \in Path[v] : w \in Vertices /\ Path[w] \subseteq Path[v]
           N == {n \in Nat : \A v \in Vertices : Cardinality(Path[v]) <= n => Good(v)}
<1>1. \A v \in Vertices : Path[v] \subseteq Vertices /\ v \in Path[v]
  BY OnOwnPath, GraphAssumption
<1>2. \A v \in Vertices : IsFiniteSet(Path[v]) /\ Cardinality(Path[v]) \in Nat
  BY <1>1, GraphAssumption, FS_Subset, FS_CardinalityType
<1>3. 0 \in N
  <2>1. \A v \in Vertices : Cardinality(Path[v]) # 0
    BY <1>1, <1>2, FS_EmptySet
  <2>2. \A v \in Vertices : ~ (Cardinality(Path[v]) <= 0)
    BY <1>2, <2>1
  <2>3. QED  BY <2>2
<1>4. ASSUME NEW n \in Nat, n \in N
      PROVE  n + 1 \in N
  <2> SUFFICES ASSUME NEW v \in Vertices, Cardinality(Path[v]) <= n + 1
               PROVE  Good(v)
    OBVIOUS
  <2>1. CASE v = Root
    BY <2>1, GraphAssumption
  <2>2. CASE v # Root
    <3>1. PICK u \in Vertices : v \in Range(Kids[u])
      BY <2>2, GraphAssumption
    <3>2. v \notin Path[u] /\ Path[v] = Path[u] \cup {v}
      BY <3>1, GraphAssumption
    <3>3. Cardinality(Path[v]) = Cardinality(Path[u]) + 1
      BY <1>2, <3>2, FS_AddElement
    <3>4. Good(u)
      BY <1>2, <1>4, <3>3
    <3>5. QED  BY <3>2, <3>4
  <2>3. QED  BY <2>1, <2>2
<1> HIDE DEF N, Good
<1>5. Nat \subseteq N
  BY <1>3, <1>4, SetInduction
<1>6. ASSUME NEW v \in Vertices PROVE Good(v)
  <2>1. Cardinality(Path[v]) \in N /\ Cardinality(Path[v]) <= Cardinality(Path[v])
    BY <1>2, <1>5
  <2>2. QED  BY <2>1 DEF N
<1>7. QED  BY <1>6 DEF Good

-----------------------------------------------------------------------------
(* One vertex. *)

\* The sum of bookings, when a span is added and when one is removed.
LEMMA BookedAdded ==
    ASSUME NEW p, PlannerShape(p), NEW size \in Nat, PlanWithin(p, size),
           NEW at \in Nat, NEW duration \in Nat \ {0}, NEW count \in Nat,
           CanAdd(p, at, duration, count)
    PROVE  /\ PlanWithin(Added(p, at, duration, count), size)
           /\ \A t \in Nat : Booked(Added(p, at, duration, count), t) =
                  Booked(p, t) + (IF t \in at .. at + duration - 1 THEN count ELSE 0)
<1> DEFINE id == AddedId(p, at, duration, count)
           q  == Added(p, at, duration, count)
           free(t) == size - Booked(p, t)
           W == at .. at + duration - 1
           S == {free(t) : t \in W}
<1>1. /\ id \notin DOMAIN p.spans /\ PlannerShape(q) /\ q.total = size
      /\ DOMAIN q.spans = DOMAIN p.spans \cup {id}
      /\ q.spans[id].start = at /\ q.spans[id].last = at + duration
      /\ q.spans[id].planned = count
      /\ \A i \in DOMAIN p.spans : q.spans[i] = p.spans[i]
  BY AddedPlanner DEF PlanWithin
<1>2. /\ \A i \in DOMAIN p.spans : p.spans[i].planned \in 1 .. size
      /\ p.total = size /\ \A t \in Nat : Booked(p, t) <= size
  BY DEF PlanWithin
<1>3. \A t \in Nat : Booked(p, t) \in Nat
  BY <1>2, BookedType
<1>4. count > 0 /\ count <= Min(S)
  BY <1>2 DEF CanAdd, AvailDuring, AvailResourcesDuring
<1>5. \A t \in W : free(t) \in Nat
  <2>1. \A t \in W : t \in Nat
    OBVIOUS
  <2>2. QED  BY <1>2, <1>3, <2>1
<1>6. S \in SUBSET Nat /\ S # {}
  <2>1. at \in W
    OBVIOUS
  <2> HIDE DEF W, free
  <2>2. QED  BY <1>5, <2>1
<1>7. Min(S) \in Nat /\ \A x \in S : Min(S) <= x
  BY <1>6, LeastElement
<1>8. \A t \in W : count <= free(t)
  <2>1. \A t \in W : free(t) \in S
    OBVIOUS
  <2> HIDE DEF S, W, free
  <2>2. QED  BY <1>4, <1>5, <1>7, <2>1
<1>9. count \in 1 .. size
  <2>1. at \in W /\ at \in Nat
    OBVIOUS
  <2>2. count <= free(at) /\ Booked(p, at) \in Nat
    BY <1>3, <1>8, <2>1
  <2>3. QED  BY <1>4, <2>2
<1> HIDE DEF q, id, W, S
<1>10. ASSUME NEW t \in Nat
       PROVE  /\ Booked(q, t) <= size
              /\ Booked(q, t) = Booked(p, t) + (IF t \in W THEN count ELSE 0)
  <2> DEFINE P == SpansAt(p, t)
  <2>1. IsFiniteSet(P) /\ P \subseteq DOMAIN p.spans /\ id \notin P
    BY <1>1, SpansFinite
  <2>2. \A i \in P : Planned(q)[i] = Planned(p)[i] /\ Planned(q)[i] \in Int
    BY <1>1, <1>2, <2>1 DEF Planned
  <2>3. Booked(p, t) = Sum(Planned(q), P)
    BY <2>1, <2>2, SumSame, BookedIsSum
  <2>4. CASE t \in W
    <3>1. SpansAt(q, t) = P \cup {id}
      BY <1>1, <2>4 DEF SpansAt, W
    <3>2. Planned(q)[id] = count
      BY <1>1 DEF Planned
    <3>3. \A i \in P \cup {id} : Planned(q)[i] \in Int
      BY <2>2, <3>2
    <3> HIDE DEF P
    <3>4. Booked(q, t) = Booked(p, t) + count
      BY <2>1, <2>3, <3>1, <3>2, <3>3, SumAdd, BookedIsSum
    <3>5. count <= size - Booked(p, t)
      BY <1>8, <2>4
    <3>6. QED  BY <1>3, <2>4, <3>4, <3>5
  <2>5. CASE t \notin W
    <3>1. SpansAt(q, t) = P
      BY <1>1, <2>5 DEF SpansAt, W
    <3>2. Booked(q, t) = Booked(p, t)
      BY <2>3, <3>1, BookedIsSum
    <3>3. QED  BY <1>2, <1>3, <2>5, <3>2
  <2>6. QED  BY <2>4, <2>5
<1>11. \A i \in DOMAIN q.spans : q.spans[i].planned \in 1 .. size
  BY <1>1, <1>2, <1>9
<1>12. QED  BY <1>1, <1>10, <1>11 DEF PlanWithin, q, W

LEMMA BookedRemoved ==
    ASSUME NEW p, PlannerShape(p), NEW size \in Nat, PlanWithin(p, size), NEW id
    PROVE  /\ PlanWithin(Removed(p, id), size)
           /\ \A t \in Nat : Booked(p, t) =
                  Booked(Removed(p, id), t)
                  + (IF id \in SpansAt(p, t) THEN p.spans[id].planned ELSE 0)
<1> DEFINE q == Removed(p, id)
<1>1. /\ q.total = size /\ DOMAIN q.spans = DOMAIN p.spans \ {id}
      /\ \A i \in DOMAIN q.spans : q.spans[i] = p.spans[i]
  BY RemovedPlanner DEF PlanWithin
<1>2. /\ \A i \in DOMAIN p.spans : p.spans[i].planned \in 1 .. size
      /\ \A t \in Nat : Booked(p, t) <= size
  BY DEF PlanWithin
<1> HIDE DEF q
<1>3. ASSUME NEW t \in Nat
      PROVE  /\ Booked(q, t) <= size
             /\ Booked(p, t) = Booked(q, t) + (IF id \in SpansAt(p, t) THEN p.spans[id].planned ELSE 0)
  <2> DEFINE P == SpansAt(p, t)
             R == SpansAt(q, t)
  <2>1. IsFiniteSet(P) /\ P \subseteq DOMAIN p.spans /\ R = P \ {id}
    BY <1>1, SpansFinite DEF SpansAt
  <2>2. \A i \in R : Planned(q)[i] = Planned(p)[i]
    BY <1>1, <2>1 DEF Planned, SpansAt
  <2>3. \A i \in P : Planned(p)[i] \in Nat /\ Planned(p)[i] = p.spans[i].planned
    BY <1>2, <2>1 DEF Planned
  <2>4. Booked(q, t) = Sum(Planned(q), R) /\ Booked(p, t) = Sum(Planned(p), P)
    BY BookedIsSum
  <2>5. IsFiniteSet(R)
    BY <2>1, FS_Subset
  <2> HIDE DEF P, R
  <2>6. Sum(Planned(q), R) = Sum(Planned(p), R)
    BY <2>2, <2>5, SumSame
  <2>7. Sum(Planned(p), R) \in Nat
    BY <2>1, <2>3, <2>5, SumGrows
  <2>8. Booked(p, t) <= size
    BY <1>2
  <2>9. CASE id \in P
    <3>1. Sum(Planned(p), P) = Planned(p)[id] + Sum(Planned(p), P \ {id})
      BY <2>1, <2>3, <2>9, SumRemove
    <3>2. Planned(p)[id] \in Nat /\ Planned(p)[id] = p.spans[id].planned
      BY <2>3, <2>9
    <3>3. QED  BY <2>1, <2>4, <2>6, <2>7, <2>8, <2>9, <3>1, <3>2 DEF P
  <2>10. CASE id \notin P
    <3>1. R = P
      BY <2>1, <2>10
    <3>2. QED  BY <2>4, <2>6, <2>7, <2>8, <2>10, <3>1 DEF P
  <2>11. QED  BY <2>9, <2>10
<1>4. QED  BY <1>1, <1>2, <1>3 DEF PlanWithin, q

\* Where a span is from: the planner's, which an update and a removal for some
\* other job leave alone.
LEMMA HeldSpans ==
    ASSUME NEW r, NEW n, VertexOK(r, n)
    PROVE  /\ \A job : Holds(r, job) => PlanSpan(r, job) \in DOMAIN r.plans.spans /\ job \in r.tags
           /\ \A i, k : Holds(r, i) /\ Holds(r, k) /\ PlanSpan(r, i) = PlanSpan(r, k) => i = k
           /\ \A id \in DOMAIN r.plans.spans : \E job : Holds(r, job) /\ PlanSpan(r, job) = id
<1>1. /\ PlanTable(r) \in Bijection(DOMAIN PlanTable(r), DOMAIN r.plans.spans)
      /\ DOMAIN PlanTable(r) \subseteq r.tags
  BY TablesAgreeMeans DEF VertexOK
<1>2. \A job : Holds(r, job) <=> job \in DOMAIN PlanTable(r)
  BY DEF Holds, PlanTable
<1>3. \A job \in DOMAIN PlanTable(r) : PlanTable(r)[job] = PlanSpan(r, job)
  BY DEF PlanTable
<1>4. QED  BY <1>1, <1>2, <1>3 DEF Bijection, Injection, Surjection, IsInjective

\* upd_sched at a vertex that is selected itself.
LEMMA VertexBooks ==
    ASSUME NEW v \in Vertices, NEW n \in Nat \ {0}, NEW m, NEW below,
           m.at \in Nat, m.duration \in Nat \ {0}, NEW size \in Nat,
           VertexOK(vtx[v], n), PlanWithin(vtx[v].plans, size),
           v \in Picked(m), PlanAccepts(v, m), m.marks[v].needs \in Nat
    PROVE  LET r == vtx[v]
               q == UpdSched(v, n, m, below)
           IN  /\ \A job : Holds(q, job) <=> Holds(r, job) \/ job = n
               /\ \A job : Holds(r, job) => SpanOf(q, job) = SpanOf(r, job)
               /\ SpanOf(q, n).start = m.at /\ SpanOf(q, n).last = m.at + m.duration
               /\ SpanOf(q, n).planned = m.marks[v].needs
               /\ DOMAIN q.allocations =
                      DOMAIN r.allocations \cup (IF m.allocate THEN {n} ELSE {})
               /\ DOMAIN q.reservations =
                      DOMAIN r.reservations \cup (IF m.allocate THEN {} ELSE {n})
               /\ PlanWithin(q.plans, size) /\ q.tags = r.tags \cup {n}
<1> DEFINE r == vtx[v]
           q == UpdSched(v, n, m, below)
           needs == m.marks[v].needs
           id == AddedId(r.plans, m.at, m.duration, needs)
<1>1. v \in Involved(m)
  BY OnOwnPath DEF Involved
<1>2. /\ DOMAIN r = Fields /\ PlannerShape(r.plans) /\ r.tags \subseteq 1 .. n - 1
      /\ DOMAIN r.allocations \cap DOMAIN r.reservations = {}
  BY DEF VertexOK, VertexShape, VertexTablesAgree
<1>3. /\ q.plans = Added(r.plans, m.at, m.duration, needs) /\ q.tags = r.tags \cup {n}
      /\ q.allocations = IF m.allocate THEN Put(r.allocations, n, id) ELSE r.allocations
      /\ q.reservations = IF m.allocate THEN r.reservations ELSE Put(r.reservations, n, id)
  BY <1>1, <1>2, UpdSchedFields
<1>4. CanAdd(r.plans, m.at, m.duration, needs)
  BY DEF PlanAccepts
<1> HIDE DEF q
<1>5. /\ id \notin DOMAIN r.plans.spans
      /\ DOMAIN q.plans.spans = DOMAIN r.plans.spans \cup {id}
      /\ q.plans.spans[id].start = m.at /\ q.plans.spans[id].last = m.at + m.duration
      /\ q.plans.spans[id].planned = needs
      /\ \A i \in DOMAIN r.plans.spans : q.plans.spans[i] = r.plans.spans[i]
  BY <1>2, <1>3, <1>4, AddedPlanner
<1>6. \A job : Holds(r, job) => PlanSpan(r, job) \in DOMAIN r.plans.spans /\ job \in r.tags
  BY HeldSpans
<1>7. ~ Holds(r, n)
  BY <1>2, <1>6
<1> HIDE DEF r, id
<1>8. /\ DOMAIN q.allocations = DOMAIN r.allocations \cup (IF m.allocate THEN {n} ELSE {})
      /\ DOMAIN q.reservations = DOMAIN r.reservations \cup (IF m.allocate THEN {} ELSE {n})
      /\ PlanSpan(q, n) = id
  BY <1>3, <1>7 DEF Put, PlanSpan, Holds
<1>9. \A job : Holds(r, job) => PlanSpan(q, job) = PlanSpan(r, job)
  BY <1>2, <1>3, <1>7 DEF Put, PlanSpan, Holds
<1>10. PlanWithin(q.plans, size)
  BY <1>2, <1>3, <1>4, BookedAdded DEF r
<1>11. \A job : Holds(q, job) <=> Holds(r, job) \/ job = n
  BY <1>8 DEF Holds
<1>12. \A job : Holds(r, job) => SpanOf(q, job) = SpanOf(r, job)
  BY <1>5, <1>6, <1>9 DEF SpanOf
<1>13. SpanOf(q, n) = q.plans.spans[id]
  BY <1>8 DEF SpanOf
<1>14. QED  BY <1>3, <1>5, <1>8, <1>10, <1>11, <1>12, <1>13 DEF q, r

\* upd_sched at the other vertices.
LEMMA VertexPasses ==
    ASSUME NEW v, NEW n, NEW m, NEW below, DOMAIN vtx[v] = Fields, v \notin Picked(m)
    PROVE  LET r == vtx[v]
               q == UpdSched(v, n, m, below)
           IN  /\ q.plans = r.plans /\ q.allocations = r.allocations
               /\ q.reservations = r.reservations
               /\ v \in Involved(m) => q.tags = r.tags \cup {n}
               /\ v \notin Involved(m) => q.tags = r.tags
<1>1. PlanAccepts(v, m)
  BY DEF PlanAccepts
<1>2. CASE v \in Involved(m)
  BY <1>1, <1>2, UpdSchedFields
<1>3. CASE v \notin Involved(m)
  BY <1>3 DEF UpdSched
<1>4. QED  BY <1>2, <1>3

\* rem_dfv at a vertex.
LEMMA VertexFrees ==
    ASSUME NEW r, NEW n, VertexOK(r, n), NEW job \in r.tags,
           NEW size \in Nat, PlanWithin(r.plans, size)
    PROVE  LET q == RemVertex(r, job)
           IN  /\ \A i : Holds(q, i) <=> Holds(r, i) /\ i # job
               /\ \A i : Holds(q, i) => SpanOf(q, i) = SpanOf(r, i)
               /\ DOMAIN q.allocations = DOMAIN r.allocations \ {job}
               /\ DOMAIN q.reservations = DOMAIN r.reservations \ {job}
               /\ PlanWithin(q.plans, size) /\ q.tags = r.tags \ {job}
<1> DEFINE q == RemVertex(r, job)
<1>1. /\ DOMAIN r.allocations \cap DOMAIN r.reservations = {} /\ PlannerShape(r.plans)
  BY DEF VertexOK, VertexShape, VertexTablesAgree
<1>2. /\ q.tags = r.tags \ {job}
      /\ q.plans = Removed(r.plans, PlanSpan(r, job))
      /\ q.allocations = Without(r.allocations, job)
      /\ q.reservations = IF job \in DOMAIN r.allocations THEN r.reservations
                          ELSE Without(r.reservations, job)
  BY RemVertexFields
<1> HIDE DEF q
<1>3. /\ DOMAIN q.allocations = DOMAIN r.allocations \ {job}
      /\ DOMAIN q.reservations = DOMAIN r.reservations \ {job}
      /\ \A i : Holds(q, i) => PlanSpan(q, i) = PlanSpan(r, i)
  BY <1>1, <1>2 DEF Without, Restrict, PlanSpan, Holds
<1>4. \A i : Holds(q, i) <=> Holds(r, i) /\ i # job
  BY <1>3 DEF Holds
<1>5. /\ DOMAIN q.plans.spans = DOMAIN r.plans.spans \ {PlanSpan(r, job)}
      /\ \A i \in DOMAIN q.plans.spans : q.plans.spans[i] = r.plans.spans[i]
  BY <1>1, <1>2, RemovedPlanner
<1>6. ASSUME NEW i, Holds(q, i) PROVE PlanSpan(q, i) \in DOMAIN q.plans.spans
  <2>1. Holds(r, i) /\ i # job
    BY <1>4, <1>6
  <2>2. PlanSpan(r, i) \in DOMAIN r.plans.spans
    BY <2>1, HeldSpans
  <2>3. PlanSpan(r, i) # PlanSpan(r, job)
    <3>1. CASE Holds(r, job)
      BY <2>1, <3>1, HeldSpans
    <3>2. CASE ~ Holds(r, job)
      <4>1. PlanSpan(r, job) = NoSpan
        BY <3>2 DEF Holds, PlanSpan
      <4>2. QED  BY <1>1, <2>2, <4>1 DEF PlannerShape, NoSpan
    <3>3. QED  BY <3>1, <3>2
  <2>4. QED  BY <1>3, <1>5, <1>6, <2>2, <2>3
<1>7. \A i : Holds(q, i) => SpanOf(q, i) = SpanOf(r, i)
  BY <1>3, <1>5, <1>6 DEF SpanOf
<1>8. PlanWithin(q.plans, size)
  BY <1>1, <1>2, BookedRemoved
<1>9. QED  BY <1>2, <1>3, <1>4, <1>7, <1>8 DEF q

-----------------------------------------------------------------------------
(* The steps of the session, vertex by vertex. *)

\* The inductive invariant: the tables of the session and of the graph agree.
SInv ==
    /\ IInv /\ JobTables /\ TagsLeadToBookings
    /\ \A u \in Vertices : /\ PlanWithin(vtx[u].plans, Size[u])
                           /\ DOMAIN vtx[u].allocations \subseteq allocations
                           /\ DOMAIN vtx[u].reservations \subseteq reservations
    /\ \A job \in Active : \E v \in Vertices : Holds(vtx[v], job)

\* A match books "needs" at the vertices in "picked" for the next job.
Grants(v, picked, at, duration, needs) ==
    /\ \A job : Holds(vtx'[v], job) <=> Holds(vtx[v], job) \/ (job = jobid_counter /\ v \in picked)
    /\ \A job : Holds(vtx[v], job) => SpanOf(vtx'[v], job) = SpanOf(vtx[v], job)
    /\ v \in picked => /\ SpanOf(vtx'[v], jobid_counter).start = at
                       /\ SpanOf(vtx'[v], jobid_counter).last = at + duration
                       /\ SpanOf(vtx'[v], jobid_counter).planned = needs[v]
                       /\ needs[v] \in 1 .. Size[v]
    /\ DOMAIN vtx'[v].allocations = DOMAIN vtx[v].allocations
                                    \cup (IF v \in picked /\ at = 0 THEN {jobid_counter} ELSE {})
    /\ DOMAIN vtx'[v].reservations = DOMAIN vtx[v].reservations
                                    \cup (IF v \in picked /\ at # 0 THEN {jobid_counter} ELSE {})
    /\ PlanWithin(vtx'[v].plans, Size[v])
    /\ vtx'[v].tags = vtx[v].tags
                      \cup (IF \E x \in picked : v \in Path[x] THEN {jobid_counter} ELSE {})

\* A cancel takes job "id" out.
Frees(v, id) ==
    /\ \A i : Holds(vtx'[v], i) <=> Holds(vtx[v], i) /\ i # id
    /\ \A i : Holds(vtx'[v], i) => SpanOf(vtx'[v], i) = SpanOf(vtx[v], i)
    /\ DOMAIN vtx'[v].allocations = DOMAIN vtx[v].allocations \ {id}
    /\ DOMAIN vtx'[v].reservations = DOMAIN vtx[v].reservations \ {id}
    /\ PlanWithin(vtx'[v].plans, Size[v])
    /\ vtx'[v].tags = vtx[v].tags \ {id}

LEMMA SInvFits == SInv => MatchesFit
BY MarksCanBeBooked DEF SInv

\* What a match hands to update(): a selection that can be booked everywhere.
Books(m, j) ==
    /\ m.at \in Nat /\ m.duration = j.duration /\ j.duration \in Nat \ {0}
    /\ m.allocate = (m.at = 0)
    /\ Picked(m) # {} /\ Picked(m) \subseteq Vertices
    /\ \A v \in Picked(m) : m.marks[v].needs \in 1 .. Size[v] /\ PlanAccepts(v, m)
    /\ UpdDfv(jobid_counter, m) /\ RecordJob(j, m.at)

LEMMA MatchBooks ==
    ASSUME SInv, NEW j \in Jobspecs,
           NEW op \in {"allocate", "allocate_orelse_reserve"}, CmdMatch(j, op)
    PROVE  \E m : /\ Books(m, j)
                  /\ \E at \in ScheduleTimes(j, op) \ {NoTime} :
                         m = Selection(j, at, SelectAt(j, at).marks)
<1>1. PICK at \in ScheduleTimes(j, op) \ {NoTime} : \E select \in {SelectAt(j, at)} :
        /\ ~select.overrun
        /\ UpdateSucceeds(Selection(j, at, select.marks))
        /\ UpdDfv(jobid_counter, Selection(j, at, select.marks))
        /\ RecordJob(j, at)
  BY DEF CmdMatch
<1> DEFINE m == Selection(j, at, SelectAt(j, at).marks)
<1>2. /\ ~ SelectAt(j, at).overrun /\ Picked(m) # {}
      /\ UpdDfv(jobid_counter, m) /\ RecordJob(j, at)
  BY <1>1 DEF UpdateSucceeds
<1>3. at \in Nat /\ j.duration \in Nat \ {0}
  BY MatchTimes DEF SInv
<1>4. m.at = at /\ m.duration = j.duration /\ m.allocate = (at = 0)
  BY DEF Selection
<1>5. at \in ScheduleTimes(j, "allocate_orelse_reserve") \ {NoTime}
  BY DEF ScheduleTimes
<1>6. \A v \in Picked(m) : m.marks[v].needs \in 1 .. Size[v] /\ PlanAccepts(v, m)
  BY <1>2, <1>5, SInvFits DEF MatchesFit
<1>7. Picked(m) \subseteq Vertices
  BY DEF Picked, Reached
<1>8. m = Selection(j, at, SelectAt(j, at).marks)
  OBVIOUS
<1> HIDE DEF m
<1>9. Books(m, j)
  BY <1>2, <1>3, <1>4, <1>6, <1>7 DEF Books
<1>10. QED  BY <1>8, <1>9

LEMMA BooksGrants ==
    ASSUME SInv, NEW j, NEW m, Books(m, j)
    PROVE  \A v \in Vertices :
               Grants(v, Picked(m), m.at, j.duration, [x \in Vertices |-> m.marks[x].needs])
<1> DEFINE n == jobid_counter
           needs == [v \in Vertices |-> m.marks[v].needs]
<1>1. /\ m.at \in Nat /\ m.duration = j.duration /\ j.duration \in Nat \ {0}
      /\ m.allocate = (m.at = 0)
      /\ \A v \in Picked(m) : m.marks[v].needs \in 1 .. Size[v] /\ PlanAccepts(v, m)
  BY DEF Books
<1>2. PICK dfu : vtx' = [v \in Vertices |-> UpdSched(v, n, m, dfu[v])]
  BY DEF Books, UpdDfv
<1>3. ASSUME NEW v \in Vertices
      PROVE  Grants(v, Picked(m), m.at, j.duration, needs)
  <2>1. /\ VertexOK(vtx[v], n) /\ PlanWithin(vtx[v].plans, Size[v]) /\ n \in Nat \ {0}
        /\ Size[v] \in Nat /\ DOMAIN vtx[v] = Fields
    BY SizeAssumption DEF SInv, IInv, VertexOK, VertexShape
  <2>2. vtx'[v] = UpdSched(v, n, m, dfu[v])
    BY <1>2
  <2>3. CASE v \in Picked(m)
    <3>1. m.marks[v].needs \in Nat /\ PlanAccepts(v, m) /\ needs[v] = m.marks[v].needs
          /\ needs[v] \in 1 .. Size[v]
      BY <1>1, <2>3, <2>1
    <3>2. \E x \in Picked(m) : v \in Path[x]
      BY <2>3, OnOwnPath
    <3> HIDE DEF needs, n
    <3>3. /\ \A job : Holds(vtx'[v], job) <=> Holds(vtx[v], job) \/ job = n
          /\ \A job : Holds(vtx[v], job) => SpanOf(vtx'[v], job) = SpanOf(vtx[v], job)
          /\ SpanOf(vtx'[v], n).start = m.at /\ SpanOf(vtx'[v], n).last = m.at + m.duration
          /\ SpanOf(vtx'[v], n).planned = m.marks[v].needs
          /\ DOMAIN vtx'[v].allocations =
                 DOMAIN vtx[v].allocations \cup (IF m.allocate THEN {n} ELSE {})
          /\ DOMAIN vtx'[v].reservations =
                 DOMAIN vtx[v].reservations \cup (IF m.allocate THEN {} ELSE {n})
          /\ PlanWithin(vtx'[v].plans, Size[v]) /\ vtx'[v].tags = vtx[v].tags \cup {n}
      BY <1>1, <2>1, <2>2, <2>3, <3>1, VertexBooks
    <3>4. QED  BY <1>1, <2>3, <3>1, <3>2, <3>3 DEF Grants, n
  <2>4. CASE v \notin Picked(m)
    <3> HIDE DEF needs, n
    <3>1. /\ vtx'[v].plans = vtx[v].plans /\ vtx'[v].allocations = vtx[v].allocations
          /\ vtx'[v].reservations = vtx[v].reservations
          /\ v \in Involved(m) => vtx'[v].tags = vtx[v].tags \cup {n}
          /\ v \notin Involved(m) => vtx'[v].tags = vtx[v].tags
      BY <2>1, <2>2, <2>4, VertexPasses
    <3>2. v \in Involved(m) <=> \E x \in Picked(m) : v \in Path[x]
      BY DEF Involved
    <3>3. QED  BY <2>1, <2>4, <3>1, <3>2 DEF Grants, Holds, SpanOf, PlanSpan, n
  <2>5. QED  BY <2>3, <2>4
<1>4. QED  BY <1>3

LEMMA MatchStep ==
    ASSUME SInv, NEW j \in Jobspecs,
           NEW op \in {"allocate", "allocate_orelse_reserve"}, CmdMatch(j, op)
    PROVE  \E at \in Nat, picked \in SUBSET Vertices : \E needs :
               /\ picked # {} /\ RecordJob(j, at)
               /\ \A v \in Vertices : Grants(v, picked, at, j.duration, needs)
<1>1. PICK m : Books(m, j)
  BY MatchBooks
<1>2. /\ m.at \in Nat /\ Picked(m) \in SUBSET Vertices /\ Picked(m) # {}
      /\ RecordJob(j, m.at)
  BY <1>1 DEF Books
<1>3. \E needs : \A v \in Vertices : Grants(v, Picked(m), m.at, j.duration, needs)
  BY <1>1, BooksGrants
<1>4. QED  BY <1>2, <1>3

LEMMA CancelRemoves ==
    ASSUME SInv, NEW id \in Active, CmdCancel(id)
    PROVE  /\ Forget(id) /\ UNCHANGED jobid_counter
           /\ \A v \in Vertices : vtx'[v] = IF id \in vtx[v].tags THEN RemVertex(vtx[v], id)
                                           ELSE vtx[v]
<1>1. Forget(id) /\ UNCHANGED jobid_counter
  BY CmdCancelIInv DEF CmdCancel, SInv
<1>2. vtx' = [v \in Vertices |-> IF v \in RemReached(id) THEN RemVertex(vtx[v], id) ELSE vtx[v]]
  BY DEF CmdCancel, RemDfv
<1>3. ASSUME NEW v \in Vertices
      PROVE  /\ VertexOK(vtx[v], jobid_counter) /\ PlanWithin(vtx[v].plans, Size[v])
             /\ Size[v] \in Nat
  BY SizeAssumption DEF SInv, IInv
<1>4. ASSUME NEW v \in Vertices
      PROVE  v \in RemReached(id) <=> id \in vtx[v].tags
  <2>1. v \in RemReached(id) => id \in vtx[v].tags
    BY OnOwnPath DEF RemReached
  <2>2. ASSUME id \in vtx[v].tags, NEW w \in Path[v]
        PROVE  id \in vtx[w].tags /\ RemOk(vtx[w], id)
    <3>1. PICK x \in Vertices : v \in Path[x] /\ HasBooking(x, id)
      BY <2>2 DEF SInv, TagsLeadToBookings
    <3>2. w \in Vertices /\ w \in Path[x]
      BY <3>1, PathsNest
    <3>3. id \in vtx[w].tags
      BY <3>1, <3>2 DEF SInv, TagsLeadToBookings
    <3>4. QED  BY <1>3, <3>2, <3>3, RemovalCannotFail
  <2>3. QED  BY <2>1, <2>2 DEF RemReached
<1>5. QED  BY <1>1, <1>2, <1>4

LEMMA CancelStep ==
    ASSUME SInv, NEW id \in Active, CmdCancel(id)
    PROVE  Forget(id) /\ \A v \in Vertices : Frees(v, id)
<1>1. /\ Forget(id)
      /\ \A v \in Vertices : vtx'[v] = IF id \in vtx[v].tags THEN RemVertex(vtx[v], id)
                                      ELSE vtx[v]
  BY CancelRemoves
<1>2. ASSUME NEW v \in Vertices
      PROVE  /\ VertexOK(vtx[v], jobid_counter) /\ PlanWithin(vtx[v].plans, Size[v])
             /\ Size[v] \in Nat
  BY SizeAssumption DEF SInv, IInv
<1>3. ASSUME NEW v \in Vertices
      PROVE  Frees(v, id)
  <2>1. CASE id \in vtx[v].tags
    <3>1. vtx'[v] = RemVertex(vtx[v], id)
      BY <1>1, <2>1
    <3>2. /\ \A i : Holds(vtx'[v], i) <=> Holds(vtx[v], i) /\ i # id
          /\ \A i : Holds(vtx'[v], i) => SpanOf(vtx'[v], i) = SpanOf(vtx[v], i)
          /\ DOMAIN vtx'[v].allocations = DOMAIN vtx[v].allocations \ {id}
          /\ DOMAIN vtx'[v].reservations = DOMAIN vtx[v].reservations \ {id}
          /\ PlanWithin(vtx'[v].plans, Size[v]) /\ vtx'[v].tags = vtx[v].tags \ {id}
      BY <1>2, <2>1, <3>1, VertexFrees
    <3>3. QED  BY <3>2 DEF Frees
  <2>2. CASE id \notin vtx[v].tags
    <3>1. vtx'[v] = vtx[v]
      BY <1>1, <2>2
    <3>2. ~ Holds(vtx[v], id)
      BY <1>2, <2>2, HeldSpans
    <3>3. QED  BY <1>2, <2>2, <3>1, <3>2 DEF Frees, Holds
  <2>3. QED  BY <2>1, <2>2
<1>4. QED  BY <1>1, <1>3

LEMMA FreshJob ==
    ASSUME SInv
    PROVE  /\ jobid_counter \in Nat \ {0} /\ jobid_counter \notin DOMAIN jobs
           /\ jobid_counter \notin Active
           /\ \A v \in Vertices : ~ Holds(vtx[v], jobid_counter)
<1>1. jobid_counter \in Nat \ {0} /\ \A v \in Vertices : VertexOK(vtx[v], jobid_counter)
  BY DEF SInv, IInv
<1>2. \A v \in Vertices : jobid_counter \notin vtx[v].tags
  BY <1>1 DEF VertexOK, VertexShape
<1>3. \A v \in Vertices : ~ Holds(vtx[v], jobid_counter)
  BY <1>1, <1>2, HeldSpans
<1>4. QED  BY <1>1, <1>3 DEF SInv, JobTables, Active

LEMMA InitSInv == Init => SInv
<1> SUFFICES ASSUME Init PROVE SInv
  OBVIOUS
<1>1. /\ vtx = [u \in Vertices |-> Unused(u)] /\ jobs = [id \in {} |-> 0]
      /\ allocations = {} /\ reservations = {} /\ jobid_counter = 1
  BY DEF Init, InitVertices
<1>2. IInv /\ JobTables
  BY <1>1, InitIInvSession DEF JobTables
<1>3. ASSUME NEW u \in Vertices
      PROVE  /\ vtx[u].plans = NewPlanner(Size[u]) /\ vtx[u].tags = {}
             /\ vtx[u].allocations = NoEntry /\ vtx[u].reservations = NoEntry
  BY <1>1 DEF Unused
<1>4. DOMAIN NoEntry = {}
  BY DEF NoEntry
<1>5. ASSUME NEW size \in Nat
      PROVE  PlanWithin(NewPlanner(size), size)
  <2> DEFINE p == NewPlanner(size)
  <2>1. p.total = size /\ DOMAIN p.spans = {}
    BY DEF NewPlanner
  <2>2. \A t : SpansAt(p, t) = {}
    BY <2>1 DEF SpansAt
  <2>3. \A t : Booked(p, t) = 0
    BY <2>2, SumEmpty, BookedIsSum
  <2>4. QED  BY <2>1, <2>3 DEF PlanWithin
<1>6. TagsLeadToBookings
  BY <1>1, <1>3 DEF TagsLeadToBookings, Active
<1>7. \A u \in Vertices : PlanWithin(vtx[u].plans, Size[u])
  BY <1>3, <1>5, SizeAssumption
<1>8. QED  BY <1>1, <1>2, <1>3, <1>4, <1>6, <1>7 DEF SInv, Active

LEMMA MatchSInv ==
    ASSUME SInv, IInv', NEW at \in Nat, NEW j \in Jobspecs, NEW picked \in SUBSET Vertices, NEW needs,
           picked # {}, RecordJob(j, at), jobid_counter' = jobid_counter + 1,
           \A v \in Vertices : Grants(v, picked, at, j.duration, needs)
    PROVE  SInv'
<1> DEFINE n == jobid_counter
<1>1. /\ n \in Nat \ {0} /\ n \notin Active
      /\ \A v \in Vertices : ~ Holds(vtx[v], n)
  BY FreshJob
<1>2. JobTables'
  BY RecordJobTables, <1>1 DEF SInv
<1>3. Active' = Active \cup {n}
  BY DEF RecordJob, Active
<1>4. \A v \in Vertices : \A job : Holds(vtx'[v], job) <=> Holds(vtx[v], job) \/ (job = n /\ v \in picked)
  BY DEF Grants
<1>5. ASSUME NEW u \in Vertices
      PROVE  vtx'[u].tags = {job \in Active' : \E v \in Vertices : u \in Path[v] /\ Holds(vtx'[v], job)}
  <2>1. vtx[u].tags = {job \in Active : \E v \in Vertices : u \in Path[v] /\ Holds(vtx[v], job)}
    BY DEF SInv, TagsLeadToBookings, HasBooking, Holds
  <2>2. vtx'[u].tags = vtx[u].tags \cup (IF \E x \in picked : u \in Path[x] THEN {n} ELSE {})
    BY DEF Grants
  <2> HIDE DEF n
  <2>3. QED  BY <1>1, <1>3, <1>4, <2>1, <2>2
<1>6. TagsLeadToBookings'
  BY <1>5 DEF TagsLeadToBookings, HasBooking, Holds
<1>7. ASSUME NEW u \in Vertices
      PROVE  /\ PlanWithin(vtx'[u].plans, Size[u])
             /\ DOMAIN vtx'[u].allocations \subseteq allocations'
             /\ DOMAIN vtx'[u].reservations \subseteq reservations'
  BY DEF Grants, SInv, RecordJob
<1>8. \A job \in Active' : \E v \in Vertices : Holds(vtx'[v], job)
  BY <1>3, <1>4 DEF SInv
<1>9. \A u \in Vertices : PlanWithin(vtx[u].plans, Size[u])'
  BY <1>7
<1>10. (\A job \in Active : \E v \in Vertices : Holds(vtx[v], job))'
  BY <1>8 DEF Holds
<1>11. QED  BY <1>2, <1>6, <1>7, <1>9, <1>10 DEF SInv

LEMMA CancelSInv ==
    ASSUME SInv, IInv', NEW id \in Active, Forget(id), UNCHANGED jobid_counter,
           \A v \in Vertices : Frees(v, id)
    PROVE  SInv'
<1>1. JobTables' /\ Active' = Active \ {id}
  BY ForgetTables DEF SInv, Active
<1>2. allocations' = allocations \ {id} /\ reservations' = reservations \ {id}
  BY DEF Forget, SInv, JobTables
<1>3. \A v \in Vertices : \A i : Holds(vtx'[v], i) <=> Holds(vtx[v], i) /\ i # id
  BY DEF Frees
<1>4. ASSUME NEW u \in Vertices
      PROVE  vtx'[u].tags = {job \in Active' : \E v \in Vertices : u \in Path[v] /\ Holds(vtx'[v], job)}
  <2>1. vtx[u].tags = {job \in Active : \E v \in Vertices : u \in Path[v] /\ Holds(vtx[v], job)}
    BY DEF SInv, TagsLeadToBookings, HasBooking, Holds
  <2>2. vtx'[u].tags = vtx[u].tags \ {id}
    BY DEF Frees
  <2>3. QED  BY <1>1, <1>3, <2>1, <2>2
<1>5. TagsLeadToBookings'
  BY <1>4 DEF TagsLeadToBookings, HasBooking, Holds
<1>6. ASSUME NEW u \in Vertices
      PROVE  /\ PlanWithin(vtx'[u].plans, Size[u])
             /\ DOMAIN vtx'[u].allocations \subseteq allocations'
             /\ DOMAIN vtx'[u].reservations \subseteq reservations'
  BY <1>2 DEF Frees, SInv
<1>7. \A job \in Active' : \E v \in Vertices : Holds(vtx'[v], job)
  BY <1>1, <1>3 DEF SInv
<1>8. \A u \in Vertices : PlanWithin(vtx[u].plans, Size[u])'
  BY <1>6
<1>9. (\A job \in Active : \E v \in Vertices : Holds(vtx[v], job))'
  BY <1>7 DEF Holds
<1>10. QED  BY <1>1, <1>5, <1>6, <1>8, <1>9 DEF SInv

LEMMA NextSInv ==
    ASSUME MaxJobs <= XCheckerNJobs, SInv, [Next]_vars
    PROVE  SInv'
<1>1. IInv' /\ JobTables'
  BY NextIInvSession, NextJobTables DEF SInv
<1>2. ASSUME NEW j \in Jobspecs, NEW op \in {"allocate", "allocate_orelse_reserve"},
             CmdMatch(j, op)
      PROVE  SInv'
  <2>1. jobid_counter' = jobid_counter + 1
    BY <1>2 DEF CmdMatch
  <2>2. QED  BY <1>1, <1>2, <2>1, MatchStep, MatchSInv
<1>3. ASSUME NEW id \in DOMAIN jobs, CmdCancel(id)
      PROVE  SInv'
  <2>1. id \in Active /\ UNCHANGED jobid_counter
    BY <1>3 DEF CmdCancel, Active
  <2>2. QED  BY <1>1, <1>3, <2>1, CancelStep, CancelSInv
<1>4. ASSUME UNCHANGED <<vtx, session>>
      PROVE  SInv'
  BY <1>1, <1>4 DEF SInv, TagsLeadToBookings, HasBooking, Active, Holds, session
<1>5. ASSUME NEW j \in Jobspecs, NEW op \in {"allocate", "allocate_orelse_reserve"},
             CmdMatchFails(j, op) \/ CmdMatchAstray(j, op)
      PROVE  SInv'
  BY <1>4, <1>5 DEF CmdMatchFails, CmdMatchAstray
<1>6. CASE UNCHANGED vars
  BY <1>4, <1>6 DEF vars
<1>7. QED  BY <1>2, <1>3, <1>5, <1>6 DEF Next

LEMMA SInvariance == ASSUME MaxJobs <= XCheckerNJobs PROVE Spec => []SInv
<1>1. SInv /\ [Next]_vars => SInv'
  BY NextSInv
<1>2. QED  BY <1>1, InitSInv, PTL DEF Spec

\* Whatever the policy and the jobs that are there, what select() marks for a
\* vertex is part of what is free there: update() never fails at any of them.
THEOREM MatchesMarkWhatFits == ASSUME MaxJobs <= XCheckerNJobs PROVE Spec => []MatchesFit
<1>1. SInv => MatchesFit
  BY SInvFits
<1>2. QED  BY <1>1, SInvariance, PTL

\* The tags of the graph are those of the bookings at or below a vertex, and a
\* cancel that follows them finds all.
THEOREM TagsAreOfBookings == ASSUME MaxJobs <= XCheckerNJobs PROVE Spec => []TagsLeadToBookings
<1>1. SInv => TagsLeadToBookings
  BY DEF SInv
<1>2. QED  BY <1>1, SInvariance, PTL

\* The commands' tables and the graph know the same jobs in the same state.
THEOREM SessionKnowsItsJobs == ASSUME MaxJobs <= XCheckerNJobs PROVE Spec => []SessionAgrees
<1>1. SInv => SessionAgrees
  <2> SUFFICES ASSUME SInv PROVE SessionAgrees
    OBVIOUS
  <2>1. vtx[Root].tags = Active
    <3>1. vtx[Root].tags = {job \in Active : \E v \in Vertices : Root \in Path[v] /\ Holds(vtx[v], job)}
      BY GraphAssumption DEF SInv, TagsLeadToBookings, HasBooking, Holds
    <3>2. \A job \in Active : \E v \in Vertices : Root \in Path[v] /\ Holds(vtx[v], job)
      BY PathsNest DEF SInv
    <3>3. QED  BY <3>1, <3>2
  <2>2. QED  BY <2>1 DEF SInv, SessionAgrees, JobTables
<1>2. QED  BY <1>1, SInvariance, PTL

-----------------------------------------------------------------------------
(* The promise of module Ledger. *)

Entry(r, u, job) ==
    [resource |-> u, start |-> SpanOf(r, job).start, last |-> SpanOf(r, job).last,
     amount |-> SpanOf(r, job).planned]

\* Bookings of module ResourceQuery, of any state of the vertices.
BookingsIn(V, job) == {Entry(V[u], u, job) : u \in {v \in Vertices : Holds(V[v], job)}}

LEMMA BookingsMeans ==
    ASSUME NEW V, NEW job
    PROVE  /\ \A b \in BookingsIn(V, job) :
                /\ b.resource \in Vertices /\ Holds(V[b.resource], job)
                /\ b = Entry(V[b.resource], b.resource, job)
           /\ \A u \in Vertices : Holds(V[u], job) => Entry(V[u], u, job) \in BookingsIn(V, job)
BY DEF BookingsIn, Entry

\* What the ledger adds up of one job, and of all.
LEMMA AmountsAreSum ==
    ASSUME NEW B
    PROVE  LedgerOfSession!MapThenSumSet(LAMBDA b : b.amount, B) = Sum([b \in B |-> b.amount], B)
<1> DEFINE f == [b \in B |-> b.amount]
           Q(h) == h = [s \in SUBSET B |->
                          IF s = {} THEN 0
                          ELSE (CHOOSE x \in s : TRUE).amount + h[s \ {CHOOSE x \in s : TRUE}]]
<1>1. LedgerOfSession!MapThenSumSet(LAMBDA b : b.amount, B) = (CHOOSE h : Q(h))[B]
  BY DEF LedgerOfSession!MapThenSumSet, LedgerOfSession!MapThenFoldSet
<1>2. Sum(f, B) = (CHOOSE h : IsSum(h, f, B))[B]
  BY DEF Sum, SumFunctionOnSet, FoldFunctionOnSet, MapThenFoldSet, IsSum
<1>3. \A s \in SUBSET B : s # {} => f[CHOOSE x \in s : TRUE] = (CHOOSE x \in s : TRUE).amount
  OBVIOUS
<1> HIDE DEF f
<1>4. ASSUME NEW h PROVE Q(h) <=> IsSum(h, f, B)
  <2> DEFINE e(s) == IF s = {} THEN 0
                     ELSE (CHOOSE x \in s : TRUE).amount + h[s \ {CHOOSE x \in s : TRUE}]
             g(s) == IF s = {} THEN 0
                     ELSE f[CHOOSE x \in s : TRUE] + h[s \ {CHOOSE x \in s : TRUE}]
  <2>1. \A s \in SUBSET B : e(s) = g(s)
    BY <1>3
  <2>2. /\ Q(h) <=> h = [s \in SUBSET B |-> e(s)]
        /\ IsSum(h, f, B) <=> h = [s \in SUBSET B |-> g(s)]
    BY DEF IsSum
  <2> HIDE DEF e, g
  <2>3. [s \in SUBSET B |-> e(s)] = [s \in SUBSET B |-> g(s)]
    BY <2>1
  <2>4. QED  BY <2>2, <2>3
<1>5. (CHOOSE h : Q(h)) = (CHOOSE h : IsSum(h, f, B))
  <2> HIDE DEF Q
  <2>1. QED  BY <1>4
<1>6. QED  BY <1>1, <1>2, <1>5 DEF f

OfResource(table, job, u, t) ==
    {b \in table[job] : b.resource = u /\ b.start <= t /\ t < b.last}

OfJobs(table, u, t) ==
    [job \in DOMAIN table |->
        LedgerOfSession!MapThenSumSet(LAMBDA b : b.amount, OfResource(table, job, u, t))]

LEMMA UsedIsSum ==
    ASSUME NEW table, NEW u, NEW t
    PROVE  LedgerOfSession!Used(table, u, t) = Sum(OfJobs(table, u, t), DOMAIN table)
<1> DEFINE D == DOMAIN table
           f == OfJobs(table, u, t)
           a(job) == LedgerOfSession!MapThenSumSet(LAMBDA b : b.amount, OfResource(table, job, u, t))
           Q(h) == h = [s \in SUBSET D |->
                          IF s = {} THEN 0
                          ELSE a(CHOOSE x \in s : TRUE) + h[s \ {CHOOSE x \in s : TRUE}]]
<1>1. LedgerOfSession!Used(table, u, t) = (CHOOSE h : Q(h))[D]
  BY DEF LedgerOfSession!Used, LedgerOfSession!MapThenSumSet, LedgerOfSession!MapThenFoldSet, OfResource
<1> HIDE DEF a
<1>2. Sum(f, D) = (CHOOSE h : IsSum(h, f, D))[D]
  BY DEF Sum, SumFunctionOnSet, FoldFunctionOnSet, MapThenFoldSet, IsSum
<1>3. \A job \in D : f[job] = a(job)
  BY DEF OfJobs, a
<1> HIDE DEF f
<1>4. ASSUME NEW h PROVE Q(h) <=> IsSum(h, f, D)
  <2> DEFINE e(s) == IF s = {} THEN 0
                     ELSE a(CHOOSE x \in s : TRUE) + h[s \ {CHOOSE x \in s : TRUE}]
             g(s) == IF s = {} THEN 0
                     ELSE f[CHOOSE x \in s : TRUE] + h[s \ {CHOOSE x \in s : TRUE}]
  <2>1. \A s \in SUBSET D : e(s) = g(s)
    BY <1>3
  <2>2. /\ Q(h) <=> h = [s \in SUBSET D |-> e(s)]
        /\ IsSum(h, f, D) <=> h = [s \in SUBSET D |-> g(s)]
    BY DEF IsSum
  <2> HIDE DEF e, g
  <2>3. [s \in SUBSET D |-> e(s)] = [s \in SUBSET D |-> g(s)]
    BY <2>1
  <2>4. QED  BY <2>2, <2>3
<1>5. (CHOOSE h : Q(h)) = (CHOOSE h : IsSum(h, f, D))
  <2> HIDE DEF Q
  <2>1. QED  BY <1>4
<1>6. QED  BY <1>1, <1>2, <1>5 DEF f

\* What the ledger counts of a vertex is what the vertex's planner has booked.
LEMMA UsedIsBooked ==
    ASSUME NEW V, NEW n, NEW u \in Vertices, NEW size \in Nat,
           VertexOK(V[u], n), PlanWithin(V[u].plans, size),
           NEW table, IsFiniteSet(DOMAIN table),
           \A job : Holds(V[u], job) => job \in DOMAIN table,
           \A job \in DOMAIN table : table[job] = BookingsIn(V, job),
           NEW t
    PROVE  LedgerOfSession!Used(table, u, t) = Booked(V[u].plans, t)
<1> DEFINE r == V[u]
           D == DOMAIN table
           f == OfJobs(table, u, t)
           H == {job \in D : Holds(r, job) /\ SpanOf(r, job).start <= t /\ t < SpanOf(r, job).last}
           g == [job \in H |-> PlanSpan(r, job)]
<1>1. \A job \in D : f[job] = Sum([b \in OfResource(table, job, u, t) |-> b.amount],
                                  OfResource(table, job, u, t))
  BY AmountsAreSum DEF OfJobs
<1>2. ASSUME NEW job \in D \ H
      PROVE  f[job] = 0
  <2>1. OfResource(table, job, u, t) = {}
    <3> SUFFICES ASSUME NEW b \in OfResource(table, job, u, t) PROVE FALSE
      OBVIOUS
    <3>1. b \in BookingsIn(V, job) /\ b.resource = u /\ b.start <= t /\ t < b.last
      BY DEF OfResource
    <3>2. Holds(r, job) /\ b = Entry(r, u, job)
      BY <3>1, BookingsMeans
    <3>3. b.start = SpanOf(r, job).start /\ b.last = SpanOf(r, job).last
      BY <3>2 DEF Entry
    <3>4. QED  BY <3>1, <3>2, <3>3
  <2>2. QED  BY <1>1, <2>1, SumEmpty
<1>3. ASSUME NEW job \in H
      PROVE  f[job] = SpanOf(r, job).planned /\ f[job] \in Int
  <2> DEFINE b0 == Entry(r, u, job)
  <2>1. /\ b0.resource = u /\ b0.start = SpanOf(r, job).start /\ b0.last = SpanOf(r, job).last
        /\ b0.amount = SpanOf(r, job).planned
    BY DEF Entry
  <2>2. b0 \in BookingsIn(V, job)
    BY BookingsMeans
  <2> HIDE DEF b0
  <2>3. OfResource(table, job, u, t) = {b0}
    <3>1. b0 \in OfResource(table, job, u, t)
      BY <2>1, <2>2 DEF OfResource
    <3>2. ASSUME NEW b \in OfResource(table, job, u, t) PROVE b = b0
      <4>1. b \in BookingsIn(V, job) /\ b.resource = u
        BY DEF OfResource
      <4>2. QED  BY <4>1, BookingsMeans DEF b0
    <3>3. QED  BY <3>1, <3>2
  <2>4. SpanOf(r, job).planned \in Int
    <3>1. PlanSpan(r, job) \in DOMAIN r.plans.spans
      BY HeldSpans
    <3>2. QED  BY <3>1 DEF PlanWithin, SpanOf
  <2> DEFINE a == [b \in {b0} |-> b.amount]
  <2>5. a[b0] = SpanOf(r, job).planned /\ \A b \in {} \cup {b0} : a[b] \in Int
    BY <2>1, <2>4
  <2> HIDE DEF a
  <2>6. Sum(a, {} \cup {b0}) = Sum(a, {}) + a[b0]
    BY <2>5, FS_EmptySet, SumAdd
  <2>7. Sum(a, {}) = 0 /\ {} \cup {b0} = {b0}
    BY SumEmpty
  <2>8. f[job] = Sum(a, {b0})
    BY <1>1, <2>3 DEF a
  <2>9. QED  BY <2>4, <2>5, <2>6, <2>7, <2>8
<1>4. LedgerOfSession!Used(table, u, t) = Sum(f, D)
  BY UsedIsSum
<1> HIDE DEF f
<1>5. Sum(f, D) = Sum(f, H)
  <2>1. \A job \in D : f[job] \in Int
    BY <1>2, <1>3
  <2>2. H \in SUBSET D /\ \A job \in D \ H : f[job] = 0
    BY <1>2
  <2> HIDE DEF H
  <2>3. QED  BY <2>1, <2>2, SumSupport
<1>6. /\ \A job \in H : /\ g[job] \in DOMAIN r.plans.spans
                        /\ Planned(r.plans)[g[job]] = SpanOf(r, job).planned
      /\ \A i, k \in H : g[i] = g[k] => i = k
  BY HeldSpans DEF Planned, SpanOf
<1>7. {g[job] : job \in H} = SpansAt(r.plans, t)
  <2>1. ASSUME NEW job \in H PROVE g[job] \in SpansAt(r.plans, t)
    BY <1>6 DEF SpansAt, SpanOf
  <2>2. ASSUME NEW id \in SpansAt(r.plans, t) PROVE \E job \in H : g[job] = id
    <3>1. id \in DOMAIN r.plans.spans
      BY DEF SpansAt
    <3>2. PICK job : Holds(r, job) /\ PlanSpan(r, job) = id
      BY <3>1, HeldSpans
    <3>3. job \in H
      BY <3>2 DEF SpansAt, SpanOf
    <3>4. QED  BY <3>2, <3>3
  <2> HIDE DEF g, H
  <2>3. QED  BY <2>1, <2>2
<1>8. Sum(f, H) = Sum(Planned(r.plans), {g[job] : job \in H})
  <2>1. \A job \in H : f[job] \in Int /\ f[job] = Planned(r.plans)[g[job]]
    BY <1>3, <1>6
  <2>2. IsFiniteSet(H)
    BY FS_Subset
  <2>3. \A i, k \in H : g[i] = g[k] => i = k
    BY <1>6
  <2> HIDE DEF H, g
  <2>4. QED  BY <2>1, <2>2, <2>3, SumReindex
<1>9. QED  BY <1>4, <1>5, <1>7, <1>8, BookedIsSum

\* The ledger's table, of any jobs and vertices.
HeldIn(J, V) ==
    [job \in {id \in DOMAIN J : BookingsIn(V, id) # {}} |-> BookingsIn(V, job)]

LEMMA HeldMeans ==
    ASSUME NEW J, NEW V, NEW A, A \subseteq DOMAIN J,
           \A job \in A : \E v \in Vertices : Holds(V[v], job),
           \A v \in Vertices : \A job : Holds(V[v], job) => job \in A
    PROVE  /\ DOMAIN HeldIn(J, V) = A
           /\ \A job \in A : HeldIn(J, V)[job] = BookingsIn(V, job) /\ BookingsIn(V, job) # {}
<1>1. \A job : BookingsIn(V, job) # {} <=> \E v \in Vertices : Holds(V[v], job)
  BY DEF BookingsIn
<1>2. {id \in DOMAIN J : BookingsIn(V, id) # {}} = A
  BY <1>1
<1>3. QED  BY <1>1, <1>2 DEF HeldIn

LEMMA HeldIsHeldIn ==
    [job \in {id \in DOMAIN jobs : Bookings(id) # {}} |-> Bookings(job)] = HeldIn(jobs, vtx)
<1>1. \A job : Bookings(job) = BookingsIn(vtx, job)
  BY DEF Bookings, BookingsIn, HasBooking, BookedFor, Holds, SpanOf, Entry
<1>2. QED  BY <1>1 DEF HeldIn

\* Bookings that are left alone are the same bookings.
LEMMA SameBookings ==
    ASSUME NEW V, NEW W, NEW job,
           \A v \in Vertices : Holds(W[v], job) <=> Holds(V[v], job),
           \A v \in Vertices : Holds(V[v], job) => SpanOf(W[v], job) = SpanOf(V[v], job)
    PROVE  BookingsIn(W, job) = BookingsIn(V, job)
<1>1. {v \in Vertices : Holds(W[v], job)} = {v \in Vertices : Holds(V[v], job)}
  OBVIOUS
<1>2. \A v \in {x \in Vertices : Holds(V[x], job)} : Entry(W[v], v, job) = Entry(V[v], v, job)
  BY DEF Entry
<1>3. QED  BY <1>1, <1>2 DEF BookingsIn

\* The invariant, of any state of the session.
LEMMA ActiveHold ==
    ASSUME SInv
    PROVE  /\ Active \subseteq DOMAIN jobs /\ IsFiniteSet(Active)
           /\ \A job \in Active : \E v \in Vertices : Holds(vtx[v], job)
           /\ \A v \in Vertices : \A job : Holds(vtx[v], job) => job \in Active
<1>1. Active \subseteq DOMAIN jobs /\ Active \in SUBSET (1 .. jobid_counter - 1)
  BY DEF SInv, JobTables, Active
<1>2. jobid_counter - 1 \in Int
  BY DEF SInv, IInv
<1>3. IsFiniteSet(1 .. jobid_counter - 1)
  BY <1>2, FS_Interval
<1>4. IsFiniteSet(Active)
  BY <1>1, <1>3, FS_Subset
<1>5. \A v \in Vertices : \A job : Holds(vtx[v], job) => job \in Active
  BY DEF SInv, Holds, Active
<1>6. QED  BY <1>1, <1>4, <1>5 DEF SInv

LEMMA InitLedger == Init => LedgerOfSession!Init
<1> SUFFICES ASSUME Init PROVE LedgerOfSession!Init
  OBVIOUS
<1>1. jobs = [id \in {} |-> 0] /\ jobid_counter = 1
  BY DEF Init
<1>2. DOMAIN jobs = {}
  BY <1>1
<1>3. HeldIn(jobs, vtx) = [job \in {} |-> {}]
  BY <1>2 DEF HeldIn
<1>4. QED  BY <1>1, <1>3, HeldIsHeldIn DEF LedgerOfSession!Init

\* Planners that book within what the vertices have keep the ledger's promise.
LEMMA CapacityKept ==
    ASSUME NEW V, NEW n, NEW A, IsFiniteSet(A), NEW table, DOMAIN table = A,
           \A v \in Vertices : VertexOK(V[v], n) /\ PlanWithin(V[v].plans, Size[v]),
           \A job \in A : table[job] = BookingsIn(V, job),
           \A v \in Vertices : \A job : Holds(V[v], job) => job \in A
    PROVE  LedgerOfSession!WithinCapacity(table)
<1> SUFFICES ASSUME NEW job \in A, NEW b \in table[job]
             PROVE  LedgerOfSession!Used(table, b.resource, b.start) <= Size[b.resource]
  BY DEF LedgerOfSession!WithinCapacity
<1>1. /\ b.resource \in Vertices /\ Holds(V[b.resource], job)
      /\ b = Entry(V[b.resource], b.resource, job)
  BY BookingsMeans
<1>2. PICK u \in Vertices : u = b.resource
  BY <1>1
<1>3. VertexOK(V[u], n) /\ PlanWithin(V[u].plans, Size[u]) /\ Size[u] \in Nat
  BY SizeAssumption
<1>4. b.start \in Nat
  <2>1. b.start = SpanOf(V[u], job).start
    BY <1>1, <1>2 DEF Entry
  <2>2. PlanSpan(V[u], job) \in DOMAIN V[u].plans.spans
    BY <1>1, <1>2, <1>3, HeldSpans
  <2>3. PlannerShape(V[u].plans)
    BY <1>3 DEF VertexOK, VertexShape
  <2>4. QED  BY <2>1, <2>2, <2>3 DEF SpanOf, PlannerShape
<1>5. IsFiniteSet(DOMAIN table) /\ \A i : Holds(V[u], i) => i \in DOMAIN table
  OBVIOUS
<1>6. \A t : LedgerOfSession!Used(table, u, t) = Booked(V[u].plans, t)
  BY <1>3, <1>5, UsedIsBooked
<1>7. \A t \in Nat : Booked(V[u].plans, t) <= Size[u]
  BY <1>3 DEF PlanWithin
<1>8. QED  BY <1>2, <1>4, <1>6, <1>7

\* A match is a grant to the next job.
LEMMA MatchGrants ==
    ASSUME SInv, SInv', NEW at \in Nat, NEW j \in Jobspecs, NEW picked \in SUBSET Vertices, NEW needs,
           picked # {}, RecordJob(j, at), jobid_counter' = jobid_counter + 1,
           \A v \in Vertices : Grants(v, picked, at, j.duration, needs)
    PROVE  LedgerOfSession!Grant
<1> DEFINE n == jobid_counter
           H == HeldIn(jobs, vtx)
           G == HeldIn(jobs', vtx')
<1>1. /\ n \in Nat \ {0} /\ n \notin Active
      /\ \A v \in Vertices : ~ Holds(vtx[v], n)
  BY FreshJob
<1>2. Active' = Active \cup {n}
  BY DEF RecordJob, Active
<1>3. \A v \in Vertices : \A job : Holds(vtx'[v], job) <=> Holds(vtx[v], job) \/ (job = n /\ v \in picked)
  BY DEF Grants
<1>4. /\ Active \subseteq DOMAIN jobs /\ IsFiniteSet(Active)
      /\ \A job \in Active : \E v \in Vertices : Holds(vtx[v], job)
      /\ \A v \in Vertices : \A job : Holds(vtx[v], job) => job \in Active
  BY ActiveHold
<1>5. DOMAIN jobs' = DOMAIN jobs \cup {n}
  BY RecordJobTables, <1>1 DEF SInv
<1>6. /\ Active \cup {n} \subseteq DOMAIN jobs' /\ IsFiniteSet(Active \cup {n})
      /\ \A job \in Active \cup {n} : \E v \in Vertices : Holds(vtx'[v], job)
      /\ \A v \in Vertices : \A job : Holds(vtx'[v], job) => job \in Active \cup {n}
  <2>1. IsFiniteSet(Active \cup {n})
    BY <1>4, FS_AddElement
  <2> HIDE DEF n
  <2>2. QED  BY <1>3, <1>4, <1>5, <2>1
<1>7. /\ DOMAIN H = Active /\ \A job \in Active : H[job] = BookingsIn(vtx, job)
  BY <1>4, HeldMeans
<1> HIDE DEF n
<1>8. /\ DOMAIN G = Active \cup {n}
      /\ \A job \in Active \cup {n} : G[job] = BookingsIn(vtx', job) /\ BookingsIn(vtx', job) # {}
  <2> DEFINE A == Active \cup {n}
  <2>1. /\ A \subseteq DOMAIN jobs'
        /\ \A job \in A : \E v \in Vertices : Holds(vtx'[v], job)
        /\ \A v \in Vertices : \A job : Holds(vtx'[v], job) => job \in A
    BY <1>6
  <2> HIDE DEF A
  <2>2. DOMAIN G = A /\ \A job \in A : G[job] = BookingsIn(vtx', job) /\ BookingsIn(vtx', job) # {}
    BY <2>1, HeldMeans
  <2>3. QED  BY <2>2 DEF A
<1>9. ASSUME NEW job \in Active
      PROVE  G[job] = H[job]
  <2>1. \A v \in Vertices : Holds(vtx'[v], job) <=> Holds(vtx[v], job)
    BY <1>1, <1>3
  <2>2. \A v \in Vertices : Holds(vtx[v], job) => SpanOf(vtx'[v], job) = SpanOf(vtx[v], job)
    BY DEF Grants
  <2>3. BookingsIn(vtx', job) = BookingsIn(vtx, job)
    BY <2>1, <2>2, SameBookings
  <2>4. QED  BY <1>7, <1>8, <2>3
<1>10. ASSUME NEW b \in G[n]
       PROVE  /\ b.amount > 0 /\ b.start = at /\ b.last = at + j.duration
              /\ b = Entry(vtx'[b.resource], b.resource, n)
  <2> DEFINE u == b.resource
  <2>1. b \in BookingsIn(vtx', n)
    BY <1>8
  <2>2. u \in Vertices /\ Holds(vtx'[u], n) /\ b = Entry(vtx'[u], u, n)
    BY <2>1, BookingsMeans
  <2>3. u \in picked
    BY <1>1, <1>3, <2>2
  <2>4. /\ SpanOf(vtx'[u], n).start = at /\ SpanOf(vtx'[u], n).last = at + j.duration
        /\ SpanOf(vtx'[u], n).planned = needs[u] /\ needs[u] \in 1 .. Size[u] /\ Size[u] \in Nat
    BY <2>2, <2>3, SizeAssumption DEF Grants, n
  <2>5. /\ b.start = SpanOf(vtx'[u], n).start /\ b.last = SpanOf(vtx'[u], n).last
        /\ b.amount = SpanOf(vtx'[u], n).planned
    BY <2>2 DEF Entry
  <2>6. QED  BY <2>2, <2>4, <2>5
<1>11. LedgerOfSession!WithinCapacity(G)
  <2>1. \A v \in Vertices : VertexOK(vtx'[v], jobid_counter')
    <3>1. (\A v \in Vertices : VertexOK(vtx[v], jobid_counter))'
      BY DEF SInv, IInv
    <3>2. QED  BY <3>1
  <2>2. \A v \in Vertices : PlanWithin(vtx'[v].plans, Size[v])
    BY DEF Grants
  <2> DEFINE A == Active \cup {n}
             V == vtx'
             next == jobid_counter'
  <2>3. /\ \A v \in Vertices : VertexOK(V[v], next) /\ PlanWithin(V[v].plans, Size[v])
        /\ IsFiniteSet(A) /\ DOMAIN G = A
        /\ \A job \in A : G[job] = BookingsIn(V, job)
        /\ \A v \in Vertices : \A job : Holds(V[v], job) => job \in A
    BY <1>6, <1>8, <2>1, <2>2
  <2> HIDE DEF A, V, next, G
  <2>4. QED  BY <2>3, CapacityKept
<1>12. j.duration \in Nat \ {0}
  BY JobspecAssumption
<1>13. /\ DOMAIN G = DOMAIN H \cup {n} /\ G[n] # {}
       /\ \A b, c \in G[n] : /\ b.amount > 0 /\ b.start < b.last
                             /\ b.start = c.start /\ b.last = c.last
                             /\ b.resource = c.resource => b = c
       /\ \A job \in DOMAIN H : G[job] = H[job]
  <2>1. at < at + j.duration
    BY <1>12
  <2> HIDE DEF G, H
  <2>2. \A b \in G[n] : b.start < b.last
    BY <1>10, <2>1
  <2>3. \A b, c \in G[n] : /\ b.start = c.start /\ b.last = c.last
                           /\ b.resource = c.resource => b = c
    BY <1>10
  <2>4. QED  BY <1>7, <1>8, <1>9, <1>10, <2>2, <2>3
<1>14. H = [job \in {id \in DOMAIN jobs : Bookings(id) # {}} |-> Bookings(job)]
  BY HeldIsHeldIn
<1>15. G = [job \in {id \in DOMAIN jobs : Bookings(id) # {}} |-> Bookings(job)]'
  <2>1. \A job : Bookings(job)' = BookingsIn(vtx', job)
    BY DEF Bookings, BookingsIn, HasBooking, BookedFor, Holds, SpanOf, Entry
  <2>2. QED  BY <2>1 DEF HeldIn
<1> HIDE DEF G, H
<1>16. QED  BY <1>11, <1>13, <1>14, <1>15 DEF LedgerOfSession!Grant, n

\* A cancel releases the job.
LEMMA CancelReleases ==
    ASSUME SInv, SInv', NEW id \in Active, Forget(id), UNCHANGED jobid_counter,
           \A v \in Vertices : Frees(v, id)
    PROVE  LedgerOfSession!Next
<1> DEFINE H == HeldIn(jobs, vtx)
           G == HeldIn(jobs', vtx')
           A == Active \ {id}
<1>1. /\ Active \subseteq DOMAIN jobs
      /\ \A job \in Active : \E v \in Vertices : Holds(vtx[v], job)
      /\ \A v \in Vertices : \A job : Holds(vtx[v], job) => job \in Active
  BY ActiveHold
<1>2. DOMAIN jobs' = DOMAIN jobs
  BY ForgetTables DEF SInv, Active
<1>3. \A v \in Vertices : \A i : Holds(vtx'[v], i) <=> Holds(vtx[v], i) /\ i # id
  BY DEF Frees
<1>4. /\ A \subseteq DOMAIN jobs'
      /\ \A job \in A : \E v \in Vertices : Holds(vtx'[v], job)
      /\ \A v \in Vertices : \A job : Holds(vtx'[v], job) => job \in A
  BY <1>1, <1>2, <1>3
<1>5. DOMAIN H = Active /\ \A job \in Active : H[job] = BookingsIn(vtx, job)
  BY <1>1, HeldMeans
<1> HIDE DEF A
<1>6. DOMAIN G = A /\ \A job \in A : G[job] = BookingsIn(vtx', job)
  BY <1>4, HeldMeans
<1>7. ASSUME NEW job \in A
      PROVE  BookingsIn(vtx', job) = BookingsIn(vtx, job)
  <2>1. \A v \in Vertices : Holds(vtx'[v], job) <=> Holds(vtx[v], job)
    BY <1>3 DEF A
  <2>2. \A v \in Vertices : Holds(vtx[v], job) => SpanOf(vtx'[v], job) = SpanOf(vtx[v], job)
    BY <2>1 DEF Frees
  <2>3. QED  BY <2>1, <2>2, SameBookings
<1>8. G = [job \in A |-> BookingsIn(vtx', job)]
  <2>1. G = [job \in DOMAIN G |-> G[job]]
    BY DEF HeldIn
  <2> HIDE DEF G
  <2>2. QED  BY <1>6, <2>1
<1>9. G = LedgerOfSession!Restrict(H, DOMAIN H \ {id})
  <2>1. A = DOMAIN H \ {id}
    BY <1>5 DEF A
  <2>2. LedgerOfSession!Restrict(H, A) = [job \in A |-> H[job]]
    BY DEF LedgerOfSession!Restrict
  <2>3. \A job \in A : H[job] = BookingsIn(vtx', job)
    BY <1>5, <1>7 DEF A
  <2> HIDE DEF G, H
  <2>4. QED  BY <1>8, <2>1, <2>2, <2>3
<1>10. H = [job \in {i \in DOMAIN jobs : Bookings(i) # {}} |-> Bookings(job)]
  BY HeldIsHeldIn
<1>11. G = [job \in {i \in DOMAIN jobs : Bookings(i) # {}} |-> Bookings(job)]'
  <2>1. \A job : Bookings(job)' = BookingsIn(vtx', job)
    BY DEF Bookings, BookingsIn, HasBooking, BookedFor, Holds, SpanOf, Entry
  <2>2. QED  BY <2>1 DEF HeldIn
<1> HIDE DEF G, H
<1>12. QED  BY <1>5, <1>9, <1>10, <1>11 DEF LedgerOfSession!Next, LedgerOfSession!Release

\* Every step of the session is one of the ledger's, or none.
LEMMA NextLedger ==
    ASSUME SInv, SInv', [Next]_vars
    PROVE  [LedgerOfSession!Next]_LedgerOfSession!ledger
<1>1. ASSUME NEW j \in Jobspecs, NEW op \in {"allocate", "allocate_orelse_reserve"},
             CmdMatch(j, op)
      PROVE  LedgerOfSession!Next
  <2>1. jobid_counter' = jobid_counter + 1
    BY <1>1 DEF CmdMatch
  <2>2. QED  BY <1>1, <2>1, MatchStep, MatchGrants DEF LedgerOfSession!Next
<1>2. ASSUME NEW id \in DOMAIN jobs, CmdCancel(id)
      PROVE  LedgerOfSession!Next
  <2>1. id \in Active /\ UNCHANGED jobid_counter
    BY <1>2 DEF CmdCancel, Active
  <2>2. QED  BY <1>2, <2>1, CancelStep, CancelReleases
<1>3. ASSUME UNCHANGED <<vtx, session>>
      PROVE  UNCHANGED [job \in {id \in DOMAIN jobs : Bookings(id) # {}} |-> Bookings(job)]
  <2>1. \A job : Bookings(job)' = Bookings(job)
    BY <1>3 DEF Bookings, HasBooking, BookedFor, PlanSpan
  <2>2. QED  BY <1>3, <2>1 DEF session
<1>4. ASSUME NEW j \in Jobspecs, NEW op \in {"allocate", "allocate_orelse_reserve"},
             CmdMatchFails(j, op) \/ CmdMatchAstray(j, op)
      PROVE  [LedgerOfSession!Next]_LedgerOfSession!ledger
  <2>1. UNCHANGED <<vtx, session>> /\ jobid_counter' \in {jobid_counter, jobid_counter + 1}
    BY <1>4 DEF CmdMatchFails, CmdMatchAstray
  <2>2. QED  BY <1>3, <2>1 DEF LedgerOfSession!Next, LedgerOfSession!Refuse, LedgerOfSession!ledger
<1>5. CASE UNCHANGED vars
  BY <1>3, <1>5 DEF vars, LedgerOfSession!ledger
<1>6. QED  BY <1>1, <1>2, <1>4, <1>5 DEF Next

\* A session implements module Ledger: a job gets its bookings all at once,
\* never beyond what a resource has, keeps exactly these whatever other jobs
\* do, and loses all of them when cancelled.
THEOREM SessionKeepsItsPromise == ASSUME MaxJobs <= XCheckerNJobs PROVE Spec => ImplementsLedger
<1>1. SInv /\ SInv' /\ [Next]_vars => [LedgerOfSession!Next]_LedgerOfSession!ledger
  BY NextLedger
<1>2. QED  BY <1>1, InitLedger, SInvariance, PTL DEF Spec, ImplementsLedger, LedgerOfSession!Spec

-----------------------------------------------------------------------------
(*****************************************************************************)
(* The subtree plans of a session: each accounts for every job with exactly  *)
(* what the job has booked below. What a vertex has to add comes up the tree *)
(* as a sum of sums; it fits because at every instant a subtree plan books   *)
(* what the plans below it book, each of them within its vertex, and because *)
(* what a match marks is free. So no step of an update fails at any vertex.  *)
(*****************************************************************************)

-----------------------------------------------------------------------------
(* The tree. *)

LEMMA PathsFinite ==
    \A v \in Vertices : /\ Path[v] \subseteq Vertices /\ v \in Path[v]
                        /\ IsFiniteSet(Path[v]) /\ Cardinality(Path[v]) \in Nat
<1>1. \A v \in Vertices : Path[v] \subseteq Vertices /\ v \in Path[v]
  BY OnOwnPath, GraphAssumption
<1>2. \A v \in Vertices : IsFiniteSet(Path[v]) /\ Cardinality(Path[v]) \in Nat
  BY <1>1, GraphAssumption, FS_Subset, FS_CardinalityType
<1>3. QED  BY <1>1, <1>2

\* Induction down the tree.
LEMMA DownTheTree ==
    ASSUME NEW C, Root \in C,
           \A u \in Vertices : \A v \in Range(Kids[u]) : u \in C => v \in C
    PROVE  Vertices \subseteq C
<1> DEFINE N == {n \in Nat : \A v \in Vertices : Cardinality(Path[v]) <= n => v \in C}
<1>1. 0 \in N
  <2>1. \A v \in Vertices : Cardinality(Path[v]) # 0
    BY PathsFinite, FS_EmptySet
  <2>2. \A v \in Vertices : ~ (Cardinality(Path[v]) <= 0)
    BY <2>1, PathsFinite
  <2>3. QED  BY <2>2
<1>2. ASSUME NEW n \in Nat, n \in N
      PROVE  n + 1 \in N
  <2> SUFFICES ASSUME NEW v \in Vertices, Cardinality(Path[v]) <= n + 1
               PROVE  v \in C
    OBVIOUS
  <2>1. CASE v = Root
    BY <2>1
  <2>2. CASE v # Root
    <3>1. PICK u \in Vertices : v \in Range(Kids[u])
      BY <2>2, GraphAssumption
    <3>2. Cardinality(Path[v]) = Cardinality(Path[u]) + 1 /\ Cardinality(Path[u]) \in Nat
      BY <3>1, KidsFurtherDown, PathsFinite
    <3>3. Cardinality(Path[u]) <= n
      BY <3>2
    <3>4. QED  BY <1>2, <3>1, <3>3
  <2>3. QED  BY <2>1, <2>2
<1> HIDE DEF N
<1>3. Nat \subseteq N
  BY <1>1, <1>2, SetInduction
<1>4. ASSUME NEW v \in Vertices PROVE v \in C
  <2>1. Cardinality(Path[v]) \in N /\ Cardinality(Path[v]) <= Cardinality(Path[v])
    BY <1>3, PathsFinite
  <2>2. QED  BY <2>1 DEF N
<1>5. QED  BY <1>4

\* On a path no two vertices are equally far down.
LEMMA DepthsDiffer ==
    \A x \in Vertices : \A v, w \in Path[x] :
        Cardinality(Path[v]) = Cardinality(Path[w]) => v = w
<1> DEFINE C == {x \in Vertices : \A v, w \in Path[x] :
                     Cardinality(Path[v]) = Cardinality(Path[w]) => v = w}
<1>1. Root \in C
  BY GraphAssumption
<1>2. ASSUME NEW u \in Vertices, NEW x \in Range(Kids[u]), u \in C
      PROVE  x \in C
  <2>1. x \in Vertices /\ Path[x] = Path[u] \cup {x}
    BY KidsAreVertices, GraphAssumption
  <2>2. ASSUME NEW w \in Path[u]
        PROVE  Cardinality(Path[w]) < Cardinality(Path[x])
    <3>1. w \in Vertices /\ Path[w] \subseteq Path[u]
      BY PathsNest
    <3>2. Cardinality(Path[w]) <= Cardinality(Path[u])
      BY <3>1, PathsFinite, FS_Subset
    <3>3. Cardinality(Path[x]) = Cardinality(Path[u]) + 1
      BY KidsFurtherDown
    <3>4. Cardinality(Path[w]) \in Nat /\ Cardinality(Path[u]) \in Nat
      BY <3>1, PathsFinite
    <3>5. QED  BY <3>2, <3>3, <3>4
  <2>3. Cardinality(Path[x]) \in Nat
    BY <2>1, PathsFinite
  <2>4. \A w \in Path[u] : Cardinality(Path[w]) # Cardinality(Path[x])
    <3>1. \A w \in Path[u] : Cardinality(Path[w]) \in Nat
      BY PathsFinite
    <3>2. QED  BY <2>2, <2>3, <3>1
  <2>5. QED  BY <1>2, <2>1, <2>4
<1> HIDE DEF C
<1>3. Vertices \subseteq C
  BY <1>1, <1>2, DownTheTree
<1>4. QED  BY <1>3 DEF C

Subtree(v) == {x \in Vertices : v \in Path[x]}

\* What is below a vertex are the subtrees of its kids, one apart from another.
LEMMA BelowIsSubtrees ==
    ASSUME NEW u \in Vertices
    PROVE  /\ Below(u) = UNION {Subtree(v) : v \in Range(Kids[u])}
           /\ \A v, w \in Range(Kids[u]) : v # w => Subtree(v) \cap Subtree(w) = {}
           /\ \A v \in Range(Kids[u]) : v \in Vertices
           /\ IsFiniteSet(Range(Kids[u]))
<1>1. \A v \in Range(Kids[u]) : v \in Vertices
  BY KidsAreVertices
<1>2. IsFiniteSet(Range(Kids[u]))
  BY <1>1, GraphAssumption, FS_Subset
<1>3. \A v, w \in Range(Kids[u]) : v # w => Subtree(v) \cap Subtree(w) = {}
  BY <1>1, DepthsDiffer, KidsFurtherDown DEF Subtree
<1>4. ASSUME NEW v \in Range(Kids[u]), NEW x \in Subtree(v)
      PROVE  x \in Below(u)
  <2>1. x \in Vertices /\ v \in Path[x] /\ v \in Vertices
    BY <1>1 DEF Subtree
  <2>2. Path[v] \subseteq Path[x] /\ Path[v] = Path[u] \cup {v} /\ v \notin Path[u]
    BY <2>1, PathsNest, GraphAssumption
  <2>3. u \in Path[x] /\ x # u
    BY <2>1, <2>2, OnOwnPath
  <2>4. QED  BY <2>1, <2>3 DEF Below
<1>5. ASSUME NEW x \in Below(u)
      PROVE  \E v \in Range(Kids[u]) : x \in Subtree(v)
  <2> DEFINE C == {y \in Vertices : u \in Path[y] /\ y # u =>
                       \E v \in Range(Kids[u]) : v \in Path[y]}
  <2>1. Root \in C
    BY GraphAssumption
  <2>2. ASSUME NEW p \in Vertices, NEW y \in Range(Kids[p]), p \in C
        PROVE  y \in C
    <3>1. y \in Vertices /\ Path[y] = Path[p] \cup {y}
      BY KidsAreVertices, GraphAssumption
    <3>2. CASE p = u
      BY <3>1, <3>2
    <3>3. CASE p # u
      BY <2>2, <3>1, <3>3
    <3>4. QED  BY <3>2, <3>3
  <2> HIDE DEF C
  <2>3. Vertices \subseteq C
    BY <2>1, <2>2, DownTheTree
  <2>4. x \in Vertices /\ u \in Path[x] /\ x # u
    BY DEF Below
  <2>5. QED  BY <2>3, <2>4 DEF C, Subtree
<1>6. QED  BY <1>1, <1>2, <1>3, <1>4, <1>5

-----------------------------------------------------------------------------
(* What comes up the tree. *)

TrackedBelow(u) == {v \in Below(u) : Type[v] \in Tracked}

LEMMA BelowFinite ==
    \A u \in Vertices : /\ Below(u) \subseteq Vertices /\ TrackedBelow(u) \subseteq Below(u)
                        /\ IsFiniteSet(Below(u)) /\ IsFiniteSet(TrackedBelow(u))
<1>1. \A u \in Vertices : Below(u) \subseteq Vertices /\ TrackedBelow(u) \subseteq Below(u)
  BY DEF Below, TrackedBelow
<1>2. \A u \in Vertices : IsFiniteSet(Below(u))
  BY <1>1, GraphAssumption, FS_Subset
<1>3. QED  BY <1>1, <1>2, FS_Subset

LEMMA AggregateIsSum ==
    ASSUME NEW u \in Vertices
    PROVE  Aggregate(u) = Sum(Size, TrackedBelow(u)) /\ Aggregate(u) \in Nat
<1> DEFINE S == TrackedBelow(u)
           Q(h) == h = [s \in SUBSET S |->
                          IF s = {} THEN 0
                          ELSE Size[CHOOSE x \in s : TRUE] + h[s \ {CHOOSE x \in s : TRUE}]]
<1>1. Aggregate(u) = (CHOOSE h : Q(h))[S]
  BY DEF Aggregate, TrackedBelow, MapThenSumSet, MapThenFoldSet
<1>2. Sum(Size, S) = (CHOOSE h : IsSum(h, Size, S))[S]
  BY DEF Sum, SumFunctionOnSet, FoldFunctionOnSet, MapThenFoldSet, IsSum
<1>3. \A h : Q(h) <=> IsSum(h, Size, S)
  BY DEF IsSum
<1>4. (CHOOSE h : Q(h)) = (CHOOSE h : IsSum(h, Size, S))
  <2> HIDE DEF Q
  <2>1. QED  BY <1>3
<1>5. Sum(Size, S) \in Nat
  <2>1. IsFiniteSet(S) /\ \A v \in S : Size[v] \in Nat
    BY BelowFinite, SizeAssumption
  <2> HIDE DEF S
  <2>2. QED  BY <2>1, SumGrows
<1>6. QED  BY <1>1, <1>2, <1>4, <1>5

\* What each vertex books for a selection, of the tracked types, and what is
\* booked below each.
OwnAmounts(m) ==
    [v \in Vertices |-> IF v \in Picked(m) /\ Type[v] \in Tracked THEN m.marks[v].needs ELSE 0]
Want(m) == [u \in Vertices |-> Sum(OwnAmounts(m), Below(u))]

\* A selection that every vertex can book.
Fits(m) ==
    /\ Picked(m) \subseteq Vertices
    /\ \A v \in Picked(m) : m.marks[v].needs \in 1 .. Size[v]

LEMMA WantMeans ==
    ASSUME NEW m, Fits(m), NEW u \in Vertices
    PROVE  /\ \A v \in Vertices : OwnAmounts(m)[v] \in Nat
           /\ Want(m)[u] = Sum(OwnAmounts(m), TrackedBelow(u))
           /\ Want(m)[u] \in Nat
           /\ Want(m)[u] > 0 <=> \E v \in TrackedBelow(u) : v \in Picked(m)
<1> DEFINE own == OwnAmounts(m)
           B == Below(u)
           T == TrackedBelow(u)
<1>1. /\ \A v \in Vertices : own[v] \in Nat
      /\ \A v \in Vertices : own[v] # 0 <=> v \in Picked(m) /\ Type[v] \in Tracked
  BY SizeAssumption DEF OwnAmounts, Fits
<1>2. B \subseteq Vertices /\ T \subseteq B /\ IsFiniteSet(B) /\ IsFiniteSet(T)
  BY BelowFinite
<1>3. \A v \in B \ T : own[v] = 0
  BY <1>1, <1>2 DEF TrackedBelow
<1>4. \A v \in T : own[v] # 0 <=> v \in Picked(m)
  BY <1>1, <1>2 DEF TrackedBelow
<1>5. Want(m)[u] = Sum(own, B)
  BY DEF Want
<1> HIDE DEF own, B, T
<1>6. Sum(own, B) = Sum(own, T)
  <2>1. (\A v \in B : own[v] \in Int) /\ T \in SUBSET B
    BY <1>1, <1>2
  <2>2. QED  BY <1>2, <1>3, <2>1, SumSupport
<1>7. Sum(own, T) \in Nat
  BY <1>1, <1>2, SumGrows
<1>8. ASSUME NEW v \in T, v \in Picked(m) PROVE Sum(own, T) > 0
  <2>1. Sum(own, T) = own[v] + Sum(own, T \ {v})
    BY <1>1, <1>2, SumRemove
  <2>2. Sum(own, T \ {v}) \in Nat
    BY <1>1, <1>2, SumGrows
  <2>3. own[v] \in Nat /\ own[v] # 0
    BY <1>1, <1>2, <1>4, <1>8
  <2>4. QED  BY <2>1, <2>2, <2>3
<1>9. ASSUME \A v \in T : v \notin Picked(m) PROVE Sum(own, T) = 0
  <2>1. (\A v \in T : own[v] \in Int /\ own[v] = 0) /\ {} \in SUBSET T
    BY <1>1, <1>2, <1>4, <1>9
  <2>2. Sum(own, T) = Sum(own, {})
    BY <1>2, <2>1, SumSupport
  <2>3. QED  BY <2>2, SumEmpty
<1>10. Sum(own, T) > 0 <=> \E v \in T : v \in Picked(m)
  BY <1>8, <1>9
<1>11. QED  BY <1>1, <1>5, <1>6, <1>7, <1>10 DEF own, T

LEMMA KidsHandUp ==
    ASSUME NEW K, NEW m, NEW f
    PROVE  MapThenSumSet(LAMBDA v : ToParent(v, m, f[v]), K) = Sum([v \in K |-> ToParent(v, m, f[v])], K)
<1> DEFINE g == [v \in K |-> ToParent(v, m, f[v])]
           amount(v) == ToParent(v, m, f[v])
           Q(h) == h = [s \in SUBSET K |->
                          IF s = {} THEN 0
                          ELSE amount(CHOOSE x \in s : TRUE) + h[s \ {CHOOSE x \in s : TRUE}]]
<1>1. MapThenSumSet(LAMBDA v : ToParent(v, m, f[v]), K) = (CHOOSE h : Q(h))[K]
  BY DEF MapThenSumSet, MapThenFoldSet
<1>2. Sum(g, K) = (CHOOSE h : IsSum(h, g, K))[K]
  BY DEF Sum, SumFunctionOnSet, FoldFunctionOnSet, MapThenFoldSet, IsSum
<1>3. \A s \in SUBSET K : s # {} => g[CHOOSE x \in s : TRUE] = amount(CHOOSE x \in s : TRUE)
  <2> HIDE DEF amount
  <2>1. \A v \in K : g[v] = amount(v)
    BY DEF amount
  <2> HIDE DEF g
  <2>2. QED  BY <2>1
<1> HIDE DEF g, amount
<1>4. ASSUME NEW h PROVE Q(h) <=> IsSum(h, g, K)
  <2> DEFINE e(s) == IF s = {} THEN 0
                     ELSE amount(CHOOSE x \in s : TRUE) + h[s \ {CHOOSE x \in s : TRUE}]
             d(s) == IF s = {} THEN 0
                     ELSE g[CHOOSE x \in s : TRUE] + h[s \ {CHOOSE x \in s : TRUE}]
  <2>1. \A s \in SUBSET K : e(s) = d(s)
    BY <1>3
  <2>2. /\ Q(h) <=> h = [s \in SUBSET K |-> e(s)]
        /\ IsSum(h, g, K) <=> h = [s \in SUBSET K |-> d(s)]
    BY DEF IsSum
  <2> HIDE DEF e, d
  <2>3. [s \in SUBSET K |-> e(s)] = [s \in SUBSET K |-> d(s)]
    BY <2>1
  <2>4. QED  BY <2>2, <2>3
<1>5. (CHOOSE h : Q(h)) = (CHOOSE h : IsSum(h, g, K))
  <2> HIDE DEF Q
  <2>1. QED  BY <1>4
<1>6. QED  BY <1>1, <1>2, <1>5 DEF g

\* As long as nothing fails on the way, each vertex is handed what is booked
\* below it.
LEMMA HandedUpIsWant ==
    ASSUME NEW m, Fits(m),
           \A v \in Vertices : PlanAccepts(v, m) /\ SubplanAccepts(v, m, Want(m)[v])
    PROVE  HandedUp(m) = Want(m)
<1> DEFINE own == OwnAmounts(m)
           want == Want(m)
           K(u) == Range(Kids[u]) \cap Involved(m)
           g(f, u) == [v \in K(u) |-> ToParent(v, m, f[v])]
           body(f, u) == MapThenSumSet(LAMBDA v : ToParent(v, m, f[v]), K(u))
           Q(f) == f = [u \in Vertices |-> body(f, u)]
<1>1. HandedUp(m) = CHOOSE f : Q(f)
  BY DEF HandedUp
<1>2. \A f, u : body(f, u) = Sum(g(f, u), K(u))
  BY KidsHandUp
<1>3. \A u \in Vertices : /\ IsFiniteSet(K(u)) /\ K(u) \subseteq Range(Kids[u])
                          /\ K(u) \subseteq Vertices
  <2>1. \A u \in Vertices : K(u) \subseteq Range(Kids[u]) /\ K(u) \subseteq Vertices
    BY BelowIsSubtrees
  <2> HIDE DEF K
  <2>2. QED  BY <2>1, GraphAssumption, FS_Subset
<1>4. \A v \in Vertices : own[v] \in Nat
  BY WantMeans
<1>5. ASSUME NEW v \in Vertices
      PROVE  /\ IsFiniteSet(Subtree(v)) /\ Subtree(v) \subseteq Vertices
             /\ ToParent(v, m, want[v]) = Sum(own, Subtree(v))
  <2> DEFINE B == Below(v)
  <2>1. Subtree(v) = B \cup {v} /\ v \notin B
    BY OnOwnPath DEF Subtree, Below
  <2>2. IsFiniteSet(B) /\ B \subseteq Vertices
    BY BelowFinite
  <2>3. want[v] = Sum(own, B)
    BY DEF Want
  <2>4. ToParent(v, m, want[v]) = own[v] + want[v]
    BY DEF ToParent, OwnAmounts
  <2> HIDE DEF B, own, want
  <2>5. \A x \in B \cup {v} : own[x] \in Int
    BY <1>4, <2>2
  <2>6. Sum(own, B \cup {v}) = Sum(own, B) + own[v]
    BY <2>1, <2>2, <2>5, SumAdd
  <2>7. Sum(own, B) \in Int /\ own[v] \in Int
    BY <1>4, <2>2, <2>5, SumType
  <2>8. IsFiniteSet(Subtree(v))
    BY <2>1, <2>2, FS_AddElement
  <2>9. QED  BY <2>1, <2>2, <2>3, <2>4, <2>6, <2>7, <2>8
<1>6. ASSUME NEW u \in Vertices
      PROVE  body(want, u) = want[u]
  <2> DEFINE part == [v \in K(u) |-> Subtree(v)]
             e == g(want, u)
             all == UNION {part[v] : v \in K(u)}
             B == Below(u)
  <2>1. /\ B = UNION {Subtree(v) : v \in Range(Kids[u])}
        /\ \A v, w \in Range(Kids[u]) : v # w => Subtree(v) \cap Subtree(w) = {}
    BY BelowIsSubtrees
  <2>2. \A v \in K(u) : v \in Vertices /\ v \in Range(Kids[u])
    BY <1>3
  <2>3. \A v \in K(u) : part[v] = Subtree(v) /\ e[v] = ToParent(v, m, want[v])
    OBVIOUS
  <2>4. all \in SUBSET B
    <3> HIDE DEF K, part
    <3>1. QED  BY <2>1, <2>2, <2>3
  <2>5. \A x \in B \ all : own[x] = 0
    <3> SUFFICES ASSUME NEW x \in B, x \notin all, own[x] # 0
                 PROVE  FALSE
      OBVIOUS
    <3>1. PICK v \in Range(Kids[u]) : x \in Subtree(v)
      BY <2>1
    <3>2. x \in Vertices /\ v \in Path[x] /\ v \in Vertices
      BY <3>1, BelowIsSubtrees DEF Subtree
    <3>3. x \in Picked(m)
      BY <3>2 DEF OwnAmounts
    <3>4. v \in K(u)
      BY <3>1, <3>2, <3>3 DEF Involved
    <3> HIDE DEF K, part
    <3>5. QED  BY <2>3, <3>1, <3>4
  <2> HIDE DEF own, want, K, part, e, g, B, body
  <2>6. \A v \in K(u) : /\ IsFiniteSet(part[v]) /\ \A x \in part[v] : own[x] \in Int
                        /\ e[v] = Sum(own, part[v])
    BY <1>4, <1>5, <2>2, <2>3
  <2>7. \A v, w \in K(u) : v # w => part[v] \cap part[w] = {}
    BY <2>1, <2>2, <2>3
  <2>8. Sum(e, K(u)) = Sum(own, all)
    <3> DEFINE k == K(u)
    <3>1. IsFiniteSet(k) /\ \A x : x \in all <=> \E v \in k : x \in part[v]
      BY <1>3
    <3>2. /\ \A v \in k : /\ IsFiniteSet(part[v]) /\ \A x \in part[v] : own[x] \in Int
                          /\ e[v] = Sum(own, part[v])
          /\ \A v, w \in k : v # w => part[v] \cap part[w] = {}
      BY <2>6, <2>7
    <3> HIDE DEF k, all
    <3>3. AddsUp(e, k, own, all, part)
      BY <3>1, <3>2 DEF AddsUp
    <3>4. Sum(e, k) = Sum(own, all)
      BY <3>3, SumOfParts
    <3>5. QED  BY <3>4 DEF k
  <2>9. IsFiniteSet(B) /\ \A x \in B : own[x] \in Int
    BY <1>4, BelowFinite DEF B
  <2>10. Sum(own, B) = Sum(own, all)
    <3> HIDE DEF all
    <3>1. QED  BY <2>4, <2>5, <2>9, SumSupport
  <2>11. body(want, u) = Sum(e, K(u))
    BY <1>2 DEF e
  <2>12. want[u] = Sum(own, B)
    BY DEF want, Want, own, B
  <2>13. QED  BY <2>8, <2>10, <2>11, <2>12
<1>7. want = [u \in Vertices |-> want[u]]
  BY DEF Want
<1>8. ASSUME NEW f, NEW h, NEW u \in Vertices, \A v \in Range(Kids[u]) : f[v] = h[v]
      PROVE  body(f, u) = body(h, u)
  <2>1. \A v \in K(u) : f[v] = h[v]
    BY <1>3, <1>8
  <2>2. \A v \in K(u) : g(f, u)[v] = g(h, u)[v]
    BY <2>1
  <2> HIDE DEF K, g, body
  <2>3. Sum(g(f, u), K(u)) = Sum(g(h, u), K(u))
    BY <1>3, <2>2, SumSame
  <2>4. QED  BY <1>2, <2>3
<1> HIDE DEF body, K, g, own, want
<1>9. Q(want)
  BY <1>6, <1>7
<1>10. ASSUME NEW p, Q(p)
       PROVE  p = want
  <2> DEFINE rank == [u \in Vertices |-> Cardinality(Vertices) - Cardinality(Path[u])]
             N == {n \in Nat : \A u \in Vertices : rank[u] < n => p[u] = want[u]}
  <2>1. \A u \in Vertices : rank[u] \in Nat
    BY KidsFurtherDown
  <2>2. p = [u \in Vertices |-> p[u]] /\ \A u \in Vertices : p[u] = body(p, u)
    <3>1. \A u \in Vertices : p[u] = body(p, u)
      BY <1>10
    <3>2. [u \in Vertices |-> p[u]] = [u \in Vertices |-> body(p, u)]
      BY <3>1
    <3>3. QED  BY <1>10, <3>1, <3>2
  <2>3. ASSUME NEW u \in Vertices, \A v \in Vertices : rank[v] < rank[u] => p[v] = want[v]
        PROVE  p[u] = want[u]
    <3>1. ASSUME NEW v \in Range(Kids[u]) PROVE v \in Vertices /\ rank[v] < rank[u]
      <4>1. v \in Vertices /\ Cardinality(Path[v]) = Cardinality(Path[u]) + 1
        BY KidsAreVertices, KidsFurtherDown
      <4>2. Cardinality(Vertices) \in Nat /\ Cardinality(Path[u]) \in Nat
        BY PathsFinite, GraphAssumption, FS_CardinalityType
      <4>3. QED  BY <4>1, <4>2
    <3> HIDE DEF rank
    <3>2. body(p, u) = body(want, u)
      BY <1>8, <2>3, <3>1
    <3>3. QED  BY <1>6, <2>2, <3>2
  <2> HIDE DEF rank
  <2>4. 0 \in N
    BY <2>1
  <2>5. ASSUME NEW n \in Nat, n \in N PROVE n + 1 \in N
    <3> SUFFICES ASSUME NEW u \in Vertices, rank[u] < n + 1 PROVE p[u] = want[u]
      OBVIOUS
    <3>1. \A v \in Vertices : rank[v] < rank[u] => rank[v] < n
      BY <2>1
    <3>2. QED  BY <2>3, <2>5, <3>1
  <2> HIDE DEF N
  <2>6. \A n \in Nat : n \in N
    BY <2>4, <2>5, SetInduction
  <2>7. ASSUME NEW u \in Vertices PROVE p[u] = want[u]
    <3>1. rank[u] + 1 \in N /\ rank[u] < rank[u] + 1
      BY <2>1, <2>6
    <3>2. QED  BY <3>1 DEF N
  <2>8. QED  BY <1>7, <2>2, <2>7
<1> HIDE DEF Q
<1>11. (CHOOSE f : Q(f)) = want
  BY <1>9, <1>10
<1>12. QED  BY <1>1, <1>11 DEF want

-----------------------------------------------------------------------------
(* The invariant of the subtree plans. *)

Amounts(V, t) == [v \in Vertices |-> Booked(V[v].plans, t)]
PlannedFor(V, job) == [v \in Vertices |-> SpanOf(V[v], job).planned]
HoldBelow(V, u, job) == {v \in TrackedBelow(u) : Holds(V[v], job)}
SubSpan(r, job) == r.subplan.spans[r.job2span[job]]

\* SubplansExact for one vertex and one job, of any state of the vertices.
Accounts(V, u, job) ==
    /\ job \in DOMAIN V[u].job2span <=> HoldBelow(V, u, job) # {}
    /\ HoldBelow(V, u, job) # {} =>
        /\ SubSpan(V[u], job).planned = Sum(PlannedFor(V, job), HoldBelow(V, u, job))
        /\ \A v \in HoldBelow(V, u, job) : /\ SpanOf(V[v], job).start = SubSpan(V[u], job).start
                                           /\ SpanOf(V[v], job).last = SubSpan(V[u], job).last

\* A subtree plan books at every instant what the plans below it book.
SubplanInv(V) ==
    \A u \in Vertices :
        /\ PlanWithin(V[u].subplan, Aggregate(u))
        /\ \A t \in Nat : Booked(V[u].subplan, t) = Sum(Amounts(V, t), TrackedBelow(u))
        /\ \A job \in V[u].tags : Accounts(V, u, job)

SubInv == SInv /\ SubplanInv(vtx)

LEMMA VertexFacts ==
    ASSUME SInv, NEW v \in Vertices
    PROVE  /\ jobid_counter \in Nat \ {0} /\ VertexOK(vtx[v], jobid_counter)
           /\ DOMAIN vtx[v] = Fields
           /\ PlannerShape(vtx[v].plans) /\ PlannerShape(vtx[v].subplan)
           /\ PlanWithin(vtx[v].plans, Size[v]) /\ Size[v] \in Nat \ {0}
           /\ \A t \in Nat : Booked(vtx[v].plans, t) \in Nat
<1>1. /\ jobid_counter \in Nat \ {0} /\ VertexOK(vtx[v], jobid_counter)
      /\ DOMAIN vtx[v] = Fields
      /\ PlannerShape(vtx[v].plans) /\ PlannerShape(vtx[v].subplan)
      /\ PlanWithin(vtx[v].plans, Size[v]) /\ Size[v] \in Nat \ {0}
  BY SizeAssumption DEF SInv, IInv, VertexOK, VertexShape
<1>2. \A id \in DOMAIN vtx[v].plans.spans : vtx[v].plans.spans[id].planned \in Nat
  BY <1>1 DEF PlanWithin
<1>3. QED  BY <1>1, <1>2, BookedType

\* The subtree spans of a vertex's jobs are there, each its own.
LEMMA LiveSubspans ==
    ASSUME NEW r, NEW n, VertexOK(r, n)
    PROVE  /\ \A job \in r.tags : job \in DOMAIN r.job2span =>
                  r.job2span[job] \in DOMAIN r.subplan.spans
           /\ \A i, k \in r.tags : i \in DOMAIN r.job2span /\ k \in DOMAIN r.job2span
                  /\ r.job2span[i] = r.job2span[k] => i = k
<1> DEFINE live == DOMAIN r.job2span \cap r.tags
<1>1. SubplanTable(r) \in Bijection(DOMAIN SubplanTable(r), DOMAIN r.subplan.spans)
  BY TablesAgreeMeans DEF VertexOK
<1>2. DOMAIN SubplanTable(r) = live /\ \A job \in live : SubplanTable(r)[job] = r.job2span[job]
  BY DEF SubplanTable, Restrict
<1>3. QED  BY <1>1, <1>2 DEF Bijection, Injection, IsInjective

\* What no step touches stays accounted for.
LEMMA StaysAccounted ==
    ASSUME NEW V, NEW W, NEW u \in Vertices, NEW job, Accounts(V, u, job),
           \A v \in Vertices : Holds(W[v], job) <=> Holds(V[v], job),
           \A v \in Vertices : Holds(V[v], job) => SpanOf(W[v], job) = SpanOf(V[v], job),
           job \in DOMAIN W[u].job2span <=> job \in DOMAIN V[u].job2span,
           job \in DOMAIN V[u].job2span => SubSpan(W[u], job) = SubSpan(V[u], job)
    PROVE  Accounts(W, u, job)
<1> DEFINE H == HoldBelow(V, u, job)
<1>1. HoldBelow(W, u, job) = H /\ H \subseteq Vertices /\ \A v \in H : Holds(V[v], job)
  BY BelowFinite DEF HoldBelow
<1>2. IsFiniteSet(H)
  BY BelowFinite, FS_Subset DEF HoldBelow
<1>3. \A v \in H : SpanOf(W[v], job) = SpanOf(V[v], job)
  BY <1>1
<1>4. \A v \in H : PlannedFor(W, job)[v] = PlannedFor(V, job)[v]
  BY <1>1, <1>3 DEF PlannedFor
<1> HIDE DEF H
<1>5. Sum(PlannedFor(W, job), H) = Sum(PlannedFor(V, job), H)
  BY <1>2, <1>4, SumSame
<1>6. /\ job \in DOMAIN V[u].job2span <=> H # {}
      /\ H # {} => /\ SubSpan(V[u], job).planned = Sum(PlannedFor(V, job), H)
                   /\ \A v \in H : /\ SpanOf(V[v], job).start = SubSpan(V[u], job).start
                                   /\ SpanOf(V[v], job).last = SubSpan(V[u], job).last
  BY DEF Accounts, H
<1>7. QED  BY <1>1, <1>3, <1>5, <1>6 DEF Accounts

-----------------------------------------------------------------------------
(* A match. *)

LEMMA BooksAmounts ==
    ASSUME SInv, NEW j, NEW m, Books(m, j), NEW v \in Vertices, NEW t \in Nat
    PROVE  /\ Booked(vtx'[v].plans, t) =
                  Booked(vtx[v].plans, t)
                  + (IF v \in Picked(m) /\ t \in m.at .. m.at + m.duration - 1
                     THEN m.marks[v].needs ELSE 0)
           /\ Booked(vtx[v].plans, t) \in Nat /\ Booked(vtx'[v].plans, t) <= Size[v]
<1>1. /\ m.at \in Nat /\ m.duration = j.duration /\ m.duration \in Nat \ {0}
      /\ \A x \in Picked(m) : m.marks[x].needs \in 1 .. Size[x] /\ PlanAccepts(x, m)
  BY DEF Books
<1>2. PICK dfu : vtx' = [x \in Vertices |-> UpdSched(x, jobid_counter, m, dfu[x])]
  BY DEF Books, UpdDfv
<1>3. vtx'[v] = UpdSched(v, jobid_counter, m, dfu[v])
  BY <1>2
<1>4. /\ DOMAIN vtx[v] = Fields /\ PlannerShape(vtx[v].plans)
      /\ PlanWithin(vtx[v].plans, Size[v]) /\ Size[v] \in Nat
      /\ Booked(vtx[v].plans, t) \in Nat
  BY VertexFacts
<1>5. PlanWithin(vtx'[v].plans, Size[v])
  BY BooksGrants DEF Grants
<1>6. CASE v \in Picked(m)
  <2>1. v \in Involved(m) /\ PlanAccepts(v, m) /\ m.marks[v].needs \in Nat
    BY <1>1, <1>4, <1>6, OnOwnPath DEF Involved
  <2>2. vtx'[v].plans = Added(vtx[v].plans, m.at, m.duration, m.marks[v].needs)
    BY <1>3, <1>4, <1>6, <2>1, UpdSchedFields
  <2>3. CanAdd(vtx[v].plans, m.at, m.duration, m.marks[v].needs)
    BY <1>6, <2>1 DEF PlanAccepts
  <2> DEFINE p == vtx[v].plans
             at == m.at
             duration == m.duration
             needs == m.marks[v].needs
  <2>4. /\ PlannerShape(p) /\ PlanWithin(p, Size[v]) /\ Size[v] \in Nat
        /\ at \in Nat /\ duration \in Nat \ {0} /\ needs \in Nat /\ CanAdd(p, at, duration, needs)
    BY <1>1, <1>4, <2>1, <2>3
  <2> HIDE DEF p, at, duration, needs
  <2>5. Booked(Added(p, at, duration, needs), t) =
            Booked(p, t) + (IF t \in at .. at + duration - 1 THEN needs ELSE 0)
    BY <2>4, BookedAdded
  <2>6. QED  BY <1>4, <1>5, <1>6, <2>2, <2>5 DEF p, at, duration, needs, PlanWithin
<1>7. CASE v \notin Picked(m)
  <2>1. vtx'[v].plans = vtx[v].plans
    BY <1>3, <1>4, <1>7, VertexPasses
  <2>2. QED  BY <1>4, <1>5, <1>7, <2>1 DEF PlanWithin
<1>8. QED  BY <1>6, <1>7

\* What a match adds below a vertex, at the times it books and at others.
LEMMA AmountsGrow ==
    ASSUME SInv, NEW j, NEW m, Books(m, j), NEW u \in Vertices, NEW t \in Nat
    PROVE  /\ Sum(Amounts(vtx', t), TrackedBelow(u)) =
                  Sum(Amounts(vtx, t), TrackedBelow(u))
                  + (IF t \in m.at .. m.at + m.duration - 1 THEN Want(m)[u] ELSE 0)
           /\ Sum(Amounts(vtx, t), TrackedBelow(u)) \in Nat
           /\ Sum(Amounts(vtx', t), TrackedBelow(u)) <= Aggregate(u)
<1> DEFINE T == TrackedBelow(u)
           old == Amounts(vtx, t)
           new == Amounts(vtx', t)
           own == OwnAmounts(m)
           W == m.at .. m.at + m.duration - 1
<1>1. Fits(m)
  BY DEF Books, Fits
<1>2. IsFiniteSet(T) /\ \A v \in T : v \in Vertices /\ Type[v] \in Tracked
  BY BelowFinite DEF TrackedBelow
<1>3. \A v \in Vertices : old[v] = Booked(vtx[v].plans, t) /\ new[v] = Booked(vtx'[v].plans, t)
  BY DEF Amounts
<1>4. /\ \A v \in Vertices : own[v] \in Nat
      /\ Want(m)[u] = Sum(own, T) /\ Want(m)[u] \in Nat
  BY <1>1, WantMeans
<1>5. \A v \in Vertices : /\ old[v] \in Nat /\ new[v] <= Size[v] /\ Size[v] \in Nat
                          /\ t \notin W => new[v] = old[v]
  BY <1>3, BooksAmounts, SizeAssumption
<1>6. ASSUME t \in W, NEW v \in T
      PROVE  new[v] = old[v] + own[v]
  <2>1. v \in Vertices /\ Type[v] \in Tracked
    BY <1>2
  <2>2. own[v] = IF v \in Picked(m) THEN m.marks[v].needs ELSE 0
    BY <2>1 DEF OwnAmounts
  <2>3. Booked(vtx'[v].plans, t) =
            Booked(vtx[v].plans, t) + (IF v \in Picked(m) THEN m.marks[v].needs ELSE 0)
    BY <1>6, <2>1, BooksAmounts
  <2>4. QED  BY <1>3, <2>1, <2>2, <2>3
<1>7. Aggregate(u) = Sum(Size, T)
  BY AggregateIsSum
<1> HIDE DEF T, old, new, own, W
<1>8. \A v \in T : /\ old[v] \in Nat /\ own[v] \in Nat /\ Size[v] \in Nat /\ new[v] <= Size[v]
                   /\ new[v] = old[v] \/ new[v] = old[v] + own[v]
  BY <1>2, <1>4, <1>5, <1>6
<1>9. \A v \in T : new[v] \in Int /\ Size[v] \in Int /\ new[v] <= Size[v]
  BY <1>8
<1>10. Sum(new, T) <= Sum(Size, T)
  BY <1>2, <1>9, SumAtMost
<1>11. Sum(old, T) \in Nat
  BY <1>2, <1>8, SumGrows
<1>12. CASE t \in W
  <2>1. \A v \in T : old[v] \in Int /\ own[v] \in Int /\ new[v] = old[v] + own[v]
    BY <1>6, <1>8, <1>12
  <2>2. Sum(new, T) = Sum(old, T) + Sum(own, T)
    BY <1>2, <2>1, SumPlus
  <2>3. QED  BY <1>4, <1>7, <1>10, <1>11, <1>12, <2>2 DEF T, old, new, W
<1>13. CASE t \notin W
  <2>1. \A v \in T : new[v] = old[v]
    BY <1>2, <1>5, <1>13
  <2>2. Sum(new, T) = Sum(old, T)
    BY <1>2, <2>1, SumSame
  <2>3. QED  BY <1>7, <1>10, <1>11, <1>13, <2>2 DEF T, old, new, W
<1>14. QED  BY <1>12, <1>13

\* What is to be booked below a vertex fits its subtree plan.
LEMMA SubplansTake ==
    ASSUME SubInv, NEW j, NEW m, Books(m, j), NEW u \in Vertices
    PROVE  /\ SubplanUsed(u, Want(m)[u]) <=> Want(m)[u] > 0
           /\ Want(m)[u] > 0 => CanAdd(vtx[u].subplan, m.at, m.duration, Want(m)[u])
           /\ Want(m)[u] \in Nat
<1> DEFINE p == vtx[u].subplan
           at == m.at
           duration == m.duration
           want == Want(m)[u]
           W == at .. at + duration - 1
<1>1. /\ SInv /\ PlannerShape(p) /\ PlanWithin(p, Aggregate(u)) /\ Aggregate(u) \in Nat
      /\ \A t \in Nat : Booked(p, t) = Sum(Amounts(vtx, t), TrackedBelow(u))
  BY VertexFacts, AggregateIsSum DEF SubInv, SubplanInv
<1>2. at \in Nat /\ duration \in Nat \ {0} /\ Fits(m)
  BY DEF Books, Fits
<1>3. want \in Nat
  BY <1>2, WantMeans
<1>4. \A t \in W : Booked(p, t) \in Nat /\ Booked(p, t) + want <= Aggregate(u)
  <2> SUFFICES ASSUME NEW t \in W
               PROVE  Booked(p, t) \in Nat /\ Booked(p, t) + want <= Aggregate(u)
    OBVIOUS
  <2>1. t \in Nat
    BY <1>2
  <2>2. /\ Sum(Amounts(vtx', t), TrackedBelow(u)) = Sum(Amounts(vtx, t), TrackedBelow(u)) + want
        /\ Sum(Amounts(vtx, t), TrackedBelow(u)) \in Nat
        /\ Sum(Amounts(vtx', t), TrackedBelow(u)) <= Aggregate(u)
    BY <1>1, <2>1, AmountsGrow
  <2>3. QED  BY <1>1, <2>1, <2>2
<1>5. p.total = Aggregate(u)
  BY <1>1 DEF PlanWithin
<1>6. at \in W
  BY <1>2
<1>7. want > 0 => HasSubplan(u)
  <2>1. Booked(p, at) \in Nat /\ Booked(p, at) + want <= Aggregate(u)
    BY <1>4, <1>6
  <2> HIDE DEF want
  <2>2. QED  BY <1>1, <1>3, <2>1 DEF HasSubplan
<1>8. want > 0 => CanAdd(p, at, duration, want)
  <2> HIDE DEF p, at, duration, want
  <2>1. ASSUME want > 0 PROVE want \in Nat \ {0} /\ p.total \in Nat
    BY <1>1, <1>3, <1>5, <2>1
  <2>2. \A t \in at .. at + duration - 1 : Booked(p, t) \in Nat /\ Booked(p, t) + want <= p.total
    BY <1>4, <1>5
  <2>3. QED  BY <1>2, <2>1, <2>2, AddsWhatFits
<1>9. QED  BY <1>3, <1>7, <1>8 DEF SubplanUsed

\* So an update fails nowhere, and books in a subtree plan what it books below.
LEMMA SubplansBook ==
    ASSUME SubInv, NEW j, NEW m, Books(m, j), NEW u \in Vertices
    PROVE  LET p == vtx[u].subplan
               want == Want(m)[u]
           IN  /\ vtx'[u].subplan = IF want > 0 THEN Added(p, m.at, m.duration, want) ELSE p
               /\ vtx'[u].job2span =
                      IF want > 0
                      THEN Put(vtx[u].job2span, jobid_counter, AddedId(p, m.at, m.duration, want))
                      ELSE vtx[u].job2span
<1>1. SInv /\ DOMAIN vtx[u] = Fields /\ PlannerShape(vtx[u].subplan)
  BY VertexFacts DEF SubInv
<1>2. /\ Fits(m) /\ m.at \in Nat /\ m.duration \in Nat
      /\ \A v \in Vertices : PlanAccepts(v, m)
  BY DEF Books, Fits, PlanAccepts
<1>3. \A v \in Vertices : SubplanAccepts(v, m, Want(m)[v])
  BY SubplansTake DEF SubplanAccepts
<1>4. HandedUp(m) = Want(m)
  BY <1>2, <1>3, HandedUpIsWant
<1>5. vtx' = [v \in Vertices |-> UpdSched(v, jobid_counter, m, Want(m)[v])]
  <2>1. UpdDfv(jobid_counter, m)
    BY DEF Books
  <2>2. QED  BY <1>4, <2>1 DEF UpdDfv
<1>6. vtx'[u] = UpdSched(u, jobid_counter, m, Want(m)[u])
  BY <1>5
<1> DEFINE want == Want(m)[u]
           p == vtx[u].subplan
<1>7. /\ SubplanUsed(u, want) <=> want > 0
      /\ want > 0 => CanAdd(p, m.at, m.duration, want)
  BY SubplansTake
<1>8. CASE u \in Involved(m)
  <2>1. want > 0 => AddedId(p, m.at, m.duration, want) # NoSpan
    BY <1>1, <1>2, <1>7, AddedPlanner
  <2> HIDE DEF want, p
  <2>2. /\ vtx'[u].subplan = IF SubplanUsed(u, want) THEN Added(p, m.at, m.duration, want) ELSE p
        /\ vtx'[u].job2span =
               IF SubplanUsed(u, want) /\ AddedId(p, m.at, m.duration, want) # NoSpan
               THEN Put(vtx[u].job2span, jobid_counter, AddedId(p, m.at, m.duration, want))
               ELSE vtx[u].job2span
    BY <1>1, <1>2, <1>6, <1>8, UpdSchedFields DEF want, p
  <2>3. QED  BY <1>7, <2>1, <2>2 DEF want, p
<1>9. CASE u \notin Involved(m)
  <2>1. vtx'[u] = vtx[u]
    BY <1>6, <1>9 DEF UpdSched
  <2>2. ~ (want > 0)
    <3>1. want > 0 => \E v \in TrackedBelow(u) : v \in Picked(m)
      BY <1>2, WantMeans
    <3>2. \A v \in TrackedBelow(u) : v \in Vertices /\ u \in Path[v]
      BY BelowFinite DEF TrackedBelow, Below
    <3>3. QED  BY <1>9, <3>1, <3>2 DEF Involved
  <2>3. QED  BY <2>1, <2>2
<1>10. QED  BY <1>8, <1>9

LEMMA MatchAccounts ==
    ASSUME SubInv, NEW j, NEW m, Books(m, j), NEW u \in Vertices, NEW job \in vtx'[u].tags
    PROVE  Accounts(vtx', u, job)
<1> DEFINE n == jobid_counter
           r == vtx[u]
           q == vtx'[u]
           p == r.subplan
           want == Want(m)[u]
           id == AddedId(p, m.at, m.duration, want)
           needs == [x \in Vertices |-> m.marks[x].needs]
<1>1. /\ SInv /\ VertexOK(r, n) /\ PlannerShape(p)
      /\ m.at \in Nat /\ m.duration \in Nat /\ m.duration = j.duration /\ Fits(m)
  BY VertexFacts DEF SubInv, Books, Fits
<1>2. /\ q.subplan = IF want > 0 THEN Added(p, m.at, m.duration, want) ELSE p
      /\ q.job2span = IF want > 0 THEN Put(r.job2span, n, id) ELSE r.job2span
  BY SubplansBook
<1>3. want > 0 => CanAdd(p, m.at, m.duration, want)
  BY SubplansTake
<1>4. \A v \in Vertices : Grants(v, Picked(m), m.at, j.duration, needs)
  BY <1>1, BooksGrants
<1>5. /\ n \notin r.tags /\ n \notin DOMAIN r.job2span
      /\ \A v \in Vertices : ~ Holds(vtx[v], n)
  BY <1>1, FreshJob DEF VertexOK, VertexShape
<1>6. want > 0 => /\ id \notin DOMAIN p.spans
                  /\ q.subplan.spans[id].start = m.at
                  /\ q.subplan.spans[id].last = m.at + m.duration
                  /\ q.subplan.spans[id].planned = want
                  /\ \A i \in DOMAIN p.spans : q.subplan.spans[i] = p.spans[i]
  <2> HIDE DEF p, q, want
  <2>1. QED  BY <1>1, <1>2, <1>3, AddedPlanner DEF id
<1> HIDE DEF id
<1>7. CASE job # n
  <2>1. job \in r.tags
    BY <1>4, <1>7 DEF Grants
  <2>2. Accounts(vtx, u, job)
    BY <2>1 DEF SubInv, SubplanInv
  <2>3. \A v \in Vertices : Holds(vtx'[v], job) <=> Holds(vtx[v], job)
    BY <1>4, <1>7 DEF Grants
  <2>4. \A v \in Vertices : Holds(vtx[v], job) => SpanOf(vtx'[v], job) = SpanOf(vtx[v], job)
    BY <1>4 DEF Grants
  <2>5. /\ job \in DOMAIN q.job2span <=> job \in DOMAIN r.job2span
        /\ job \in DOMAIN r.job2span => q.job2span[job] = r.job2span[job]
    <3> HIDE DEF want, q, n
    <3>1. QED  BY <1>2, <1>7 DEF Put
  <2>6. job \in DOMAIN r.job2span => r.job2span[job] \in DOMAIN p.spans
    BY <1>1, <2>1, LiveSubspans
  <2>7. job \in DOMAIN r.job2span => SubSpan(q, job) = SubSpan(r, job)
    <3> HIDE DEF want, q, n
    <3>1. QED  BY <1>2, <1>6, <2>5, <2>6 DEF SubSpan
  <2> DEFINE V == vtx
             Z == vtx'
  <2>8. /\ Accounts(V, u, job)
        /\ \A v \in Vertices : Holds(Z[v], job) <=> Holds(V[v], job)
        /\ \A v \in Vertices : Holds(V[v], job) => SpanOf(Z[v], job) = SpanOf(V[v], job)
        /\ job \in DOMAIN Z[u].job2span <=> job \in DOMAIN V[u].job2span
        /\ job \in DOMAIN V[u].job2span => SubSpan(Z[u], job) = SubSpan(V[u], job)
    BY <2>2, <2>3, <2>4, <2>5, <2>7
  <2> HIDE DEF V, Z
  <2>9. Accounts(Z, u, job)
    BY <2>8, StaysAccounted
  <2>10. QED  BY <2>9 DEF Z
<1>8. CASE job = n
  <2> DEFINE T == TrackedBelow(u)
             H == HoldBelow(vtx', u, n)
             own == OwnAmounts(m)
             planned == PlannedFor(vtx', n)
  <2>1. \A v \in T : v \in Vertices /\ Type[v] \in Tracked
    BY BelowFinite DEF TrackedBelow
  <2>2. \A v \in T : v \in H <=> v \in Picked(m)
    BY <1>4, <1>5, <2>1 DEF HoldBelow, Grants
  <2>3. H \in SUBSET T
    BY DEF HoldBelow
  <2>4. /\ \A v \in Vertices : own[v] \in Nat
        /\ want = Sum(own, T)
        /\ want > 0 <=> \E v \in T : v \in Picked(m)
    BY <1>1, WantMeans
  <2>5. ASSUME NEW v \in H
        PROVE  /\ SpanOf(vtx'[v], n).start = m.at /\ SpanOf(vtx'[v], n).last = m.at + m.duration
               /\ planned[v] = own[v]
    <3>1. v \in Vertices /\ v \in Picked(m) /\ Type[v] \in Tracked
      BY <2>1, <2>2, <2>3
    <3>2. /\ SpanOf(vtx'[v], n).start = m.at /\ SpanOf(vtx'[v], n).last = m.at + m.duration
          /\ SpanOf(vtx'[v], n).planned = m.marks[v].needs
      BY <1>1, <1>4, <3>1 DEF Grants
    <3>3. planned[v] = SpanOf(vtx'[v], n).planned /\ own[v] = m.marks[v].needs
      BY <3>1 DEF PlannedFor, OwnAmounts
    <3>4. QED  BY <3>2, <3>3
  <2>6. \A v \in T \ H : own[v] = 0
    BY <2>1, <2>2 DEF OwnAmounts
  <2>7. H # {} <=> want > 0
    BY <2>2, <2>3, <2>4
  <2>8. want = Sum(planned, H)
    <3>1. IsFiniteSet(T) /\ IsFiniteSet(H)
      BY <2>3, BelowFinite, FS_Subset
    <3>2. \A v \in T : own[v] \in Int
      BY <2>1, <2>4
    <3> HIDE DEF T, H, own, planned, want
    <3>3. Sum(own, T) = Sum(own, H)
      BY <2>3, <2>6, <3>1, <3>2, SumSupport
    <3>4. Sum(planned, H) = Sum(own, H)
      BY <2>5, <3>1, SumSame
    <3>5. QED  BY <2>4, <3>3, <3>4
  <2>9. n \in DOMAIN q.job2span <=> H # {}
    <3> HIDE DEF want, q, H, n
    <3>1. QED  BY <1>2, <1>5, <2>7 DEF Put
  <2>10. H # {} => /\ SubSpan(q, n).start = m.at
                   /\ SubSpan(q, n).last = m.at + m.duration /\ SubSpan(q, n).planned = want
    <3> HIDE DEF want, q, H, n
    <3>1. want > 0 => q.job2span[n] = id
      BY <1>2 DEF Put
    <3>2. QED  BY <1>6, <2>7, <3>1 DEF SubSpan
  <2> HIDE DEF T, own, want
  <2>11. QED  BY <1>8, <2>5, <2>8, <2>9, <2>10 DEF Accounts
<1>9. QED  BY <1>7, <1>8

LEMMA MatchSubplanInv ==
    ASSUME SubInv, NEW j, NEW m, Books(m, j)
    PROVE  SubplanInv(vtx')
<1>1. ASSUME NEW u \in Vertices
      PROVE  /\ PlanWithin(vtx'[u].subplan, Aggregate(u))
             /\ \A t \in Nat : Booked(vtx'[u].subplan, t) = Sum(Amounts(vtx', t), TrackedBelow(u))
  <2> DEFINE p == vtx[u].subplan
             want == Want(m)[u]
             at == m.at
             duration == m.duration
             size == Aggregate(u)
  <2>1. /\ SInv /\ PlannerShape(p) /\ PlanWithin(p, size) /\ size \in Nat
        /\ \A t \in Nat : Booked(p, t) = Sum(Amounts(vtx, t), TrackedBelow(u))
        /\ at \in Nat /\ duration \in Nat \ {0}
    BY VertexFacts, AggregateIsSum DEF SubInv, SubplanInv, Books
  <2>2. vtx'[u].subplan = IF want > 0 THEN Added(p, at, duration, want) ELSE p
    BY SubplansBook
  <2>3. (want > 0 => CanAdd(p, at, duration, want)) /\ want \in Nat
    BY SubplansTake
  <2>4. ASSUME NEW t \in Nat
        PROVE  /\ Sum(Amounts(vtx', t), TrackedBelow(u)) =
                      Booked(p, t) + (IF t \in at .. at + duration - 1 THEN want ELSE 0)
               /\ Booked(p, t) \in Nat
    BY <2>1, AmountsGrow
  <2> HIDE DEF p, want, at, duration, size
  <2>5. CASE want > 0
    <3>1. /\ PlanWithin(Added(p, at, duration, want), size)
          /\ \A t \in Nat : Booked(Added(p, at, duration, want), t) =
                 Booked(p, t) + (IF t \in at .. at + duration - 1 THEN want ELSE 0)
      BY <2>1, <2>3, <2>5, BookedAdded
    <3>2. QED  BY <2>2, <2>4, <2>5, <3>1 DEF size
  <2>6. CASE ~ (want > 0)
    <3>1. want = 0
      BY <2>3, <2>6
    <3>2. \A t \in Nat : Sum(Amounts(vtx', t), TrackedBelow(u)) = Booked(p, t)
      BY <2>4, <3>1
    <3>3. QED  BY <2>1, <2>2, <2>6, <3>2 DEF size
  <2>7. QED  BY <2>5, <2>6
<1>2. QED  BY <1>1, MatchAccounts DEF SubplanInv

-----------------------------------------------------------------------------
(* A cancel. *)

\* What a vertex books for a job at an instant.
BookedBy(V, job, t) ==
    [v \in Vertices |-> IF Holds(V[v], job) /\ SpanOf(V[v], job).start <= t /\ t < SpanOf(V[v], job).last
                        THEN SpanOf(V[v], job).planned ELSE 0]

LEMMA BookedByType ==
    ASSUME SInv, NEW job, NEW t
    PROVE  \A v \in Vertices : BookedBy(vtx, job, t)[v] \in Nat
<1> SUFFICES ASSUME NEW v \in Vertices PROVE BookedBy(vtx, job, t)[v] \in Nat
  OBVIOUS
<1>1. VertexOK(vtx[v], jobid_counter) /\ PlanWithin(vtx[v].plans, Size[v]) /\ Size[v] \in Nat
  BY VertexFacts
<1>2. Holds(vtx[v], job) => SpanOf(vtx[v], job).planned \in Nat
  BY <1>1, HeldSpans DEF SpanOf, PlanWithin
<1>3. QED  BY <1>2 DEF BookedBy

LEMMA CancelAmounts ==
    ASSUME SInv, NEW id \in Active, CmdCancel(id), NEW v \in Vertices, NEW t \in Nat
    PROVE  /\ Booked(vtx[v].plans, t) = Booked(vtx'[v].plans, t) + BookedBy(vtx, id, t)[v]
           /\ Booked(vtx'[v].plans, t) \in Nat
<1> DEFINE r == vtx[v]
           p == r.plans
           span == PlanSpan(r, id)
<1>1. /\ VertexOK(r, jobid_counter) /\ PlannerShape(p) /\ PlanWithin(p, Size[v])
      /\ Size[v] \in Nat /\ Booked(p, t) \in Nat
  BY VertexFacts
<1>2. vtx'[v] = IF id \in r.tags THEN RemVertex(r, id) ELSE r
  BY CancelRemoves
<1>3. BookedBy(vtx, id, t)[v] = IF Holds(r, id) /\ span \in SpansAt(p, t) THEN p.spans[span].planned ELSE 0
  <2>1. Holds(r, id) => span \in DOMAIN p.spans
    BY <1>1, HeldSpans
  <2>2. QED  BY <2>1 DEF BookedBy, SpanOf, SpansAt
<1>4. CASE id \in r.tags
  <2>1. vtx'[v].plans = Removed(p, span)
    BY <1>1, <1>2, <1>4, RemVertexFields
  <2>2. span \in SpansAt(p, t) => Holds(r, id)
    <3>1. ~ Holds(r, id) => span = NoSpan
      BY DEF Holds, PlanSpan
    <3>2. NoSpan \notin DOMAIN p.spans
      BY <1>1 DEF PlannerShape, NoSpan
    <3>3. QED  BY <3>1, <3>2 DEF SpansAt
  <2> HIDE DEF p, r, span
  <2>3. Booked(p, t) = Booked(Removed(p, span), t)
                       + (IF span \in SpansAt(p, t) THEN p.spans[span].planned ELSE 0)
    BY <1>1, BookedRemoved
  <2>4. Booked(Removed(p, span), t) \in Nat
    <3>1. PlannerShape(Removed(p, span)) /\ PlanWithin(Removed(p, span), Size[v])
      BY <1>1, RemovedPlanner, BookedRemoved
    <3>2. \A i \in DOMAIN Removed(p, span).spans : Removed(p, span).spans[i].planned \in Nat
      BY <1>1, <3>1 DEF PlanWithin
    <3>3. QED  BY <3>1, <3>2, BookedType
  <2>5. QED  BY <1>3, <2>1, <2>2, <2>3, <2>4 DEF p, r
<1>5. CASE id \notin r.tags
  <2>1. ~ Holds(r, id)
    BY <1>1, <1>5, HeldSpans
  <2> HIDE DEF p
  <2>2. QED  BY <1>1, <1>2, <1>3, <1>5, <2>1 DEF p
<1>6. QED  BY <1>4, <1>5

\* At every instant the subtree plan books for a job what is booked below.
LEMMA BookedBelow ==
    ASSUME SInv, NEW u \in Vertices, NEW job \in vtx[u].tags, Accounts(vtx, u, job), NEW t \in Nat
    PROVE  LET r == vtx[u]
           IN  Sum(BookedBy(vtx, job, t), TrackedBelow(u)) =
                   IF job \in DOMAIN r.job2span /\ r.job2span[job] \in SpansAt(r.subplan, t)
                   THEN SubSpan(r, job).planned ELSE 0
<1> DEFINE r == vtx[u]
           T == TrackedBelow(u)
           H == HoldBelow(vtx, u, job)
           by == BookedBy(vtx, job, t)
           s == SubSpan(r, job)
           live == s.start <= t /\ t < s.last
<1>1. /\ IsFiniteSet(T) /\ H \in SUBSET T /\ IsFiniteSet(H) /\ \A v \in T : v \in Vertices
  BY BelowFinite, FS_Subset DEF HoldBelow
<1>2. \A v \in T : by[v] \in Int
  BY <1>1, BookedByType
<1>3. \A v \in T \ H : by[v] = 0
  BY <1>1 DEF HoldBelow, BookedBy
<1>4. /\ job \in DOMAIN r.job2span <=> H # {}
      /\ H # {} => /\ s.planned = Sum(PlannedFor(vtx, job), H)
                   /\ \A v \in H : /\ SpanOf(vtx[v], job).start = s.start
                                   /\ SpanOf(vtx[v], job).last = s.last
  BY DEF Accounts
<1>5. job \in DOMAIN r.job2span => (r.job2span[job] \in SpansAt(r.subplan, t) <=> live)
  <2>1. VertexOK(r, jobid_counter)
    BY VertexFacts
  <2>2. job \in DOMAIN r.job2span => r.job2span[job] \in DOMAIN r.subplan.spans
    BY <2>1, LiveSubspans
  <2>3. QED  BY <2>2 DEF SpansAt, SubSpan
<1>6. \A v \in H : by[v] = IF live THEN PlannedFor(vtx, job)[v] ELSE 0
  <2> SUFFICES ASSUME NEW v \in H PROVE by[v] = IF live THEN PlannedFor(vtx, job)[v] ELSE 0
    OBVIOUS
  <2>1. v \in Vertices /\ Holds(vtx[v], job)
    BY <1>1 DEF HoldBelow
  <2>2. SpanOf(vtx[v], job).start = s.start /\ SpanOf(vtx[v], job).last = s.last
    BY <1>4
  <2> HIDE DEF s
  <2>3. QED  BY <2>1, <2>2 DEF BookedBy, PlannedFor
<1> HIDE DEF T, H, by, live
<1>7. Sum(by, T) = Sum(by, H)
  BY <1>1, <1>2, <1>3, SumSupport
<1>8. CASE live
  <2>1. Sum(by, H) = Sum(PlannedFor(vtx, job), H)
    BY <1>1, <1>6, <1>8, SumSame
  <2>2. H = {} => Sum(by, H) = 0
    BY SumEmpty
  <2>3. QED  BY <1>4, <1>5, <1>7, <1>8, <2>1, <2>2 DEF by, T
<1>9. CASE ~ live
  <2>1. (\A v \in H : by[v] \in Int /\ by[v] = 0) /\ {} \in SUBSET H
    BY <1>1, <1>2, <1>6, <1>9
  <2>2. Sum(by, H) = Sum(by, {})
    BY <1>1, <2>1, SumSupport
  <2>3. Sum(by, H) = 0
    BY <2>2, SumEmpty
  <2>4. QED  BY <1>4, <1>5, <1>7, <1>9, <2>3 DEF by, T
<1>10. QED  BY <1>8, <1>9

LEMMA CancelAccounts ==
    ASSUME SubInv, NEW id \in Active, CmdCancel(id), NEW u \in Vertices, NEW job \in vtx'[u].tags
    PROVE  Accounts(vtx', u, job)
<1> DEFINE V == vtx
           Z == vtx'
           r == vtx[u]
           q == vtx'[u]
<1>1. SInv /\ VertexOK(r, jobid_counter)
  BY VertexFacts DEF SubInv
<1>2. \A v \in Vertices : Frees(v, id)
  BY <1>1, CancelStep
<1>3. job \in r.tags /\ job # id
  BY <1>2 DEF Frees
<1>4. Accounts(V, u, job)
  BY <1>3 DEF SubInv, SubplanInv
<1>5. \A v \in Vertices : Holds(Z[v], job) <=> Holds(V[v], job)
  BY <1>2, <1>3 DEF Frees
<1>6. \A v \in Vertices : Holds(V[v], job) => SpanOf(Z[v], job) = SpanOf(V[v], job)
  BY <1>2, <1>3 DEF Frees
<1>7. /\ q.job2span = r.job2span
      /\ job \in DOMAIN r.job2span => SubSpan(q, job) = SubSpan(r, job)
  <2>1. q = IF id \in r.tags THEN RemVertex(r, id) ELSE r
    BY <1>1, CancelRemoves
  <2>2. CASE id \in r.tags
    <3>1. /\ q.job2span = r.job2span
          /\ q.subplan = IF id \in DOMAIN r.job2span THEN Removed(r.subplan, r.job2span[id])
                         ELSE r.subplan
      BY <1>1, <2>1, <2>2, RemVertexFields
    <3>2. /\ job \in DOMAIN r.job2span => r.job2span[job] \in DOMAIN r.subplan.spans
          /\ job \in DOMAIN r.job2span /\ id \in DOMAIN r.job2span => r.job2span[job] # r.job2span[id]
      BY <1>1, <1>3, <2>2, LiveSubspans
    <3>3. PlannerShape(r.subplan)
      BY <1>1, VertexFacts
    <3>4. \A i : /\ DOMAIN Removed(r.subplan, i).spans = DOMAIN r.subplan.spans \ {i}
                 /\ \A k \in DOMAIN Removed(r.subplan, i).spans :
                        Removed(r.subplan, i).spans[k] = r.subplan.spans[k]
      BY <3>3, RemovedPlanner
    <3> HIDE DEF q, r
    <3>5. QED  BY <3>1, <3>2, <3>4 DEF SubSpan
  <2>3. CASE id \notin r.tags
    BY <2>1, <2>3
  <2>4. QED  BY <2>2, <2>3
<1>8. /\ job \in DOMAIN Z[u].job2span <=> job \in DOMAIN V[u].job2span
      /\ job \in DOMAIN V[u].job2span => SubSpan(Z[u], job) = SubSpan(V[u], job)
  BY <1>7
<1> HIDE DEF V, Z
<1>9. Accounts(Z, u, job)
  BY <1>4, <1>5, <1>6, <1>8, StaysAccounted
<1>10. QED  BY <1>9 DEF Z

LEMMA CancelSubplanInv ==
    ASSUME SubInv, NEW id \in Active, CmdCancel(id)
    PROVE  SubplanInv(vtx')
<1>1. ASSUME NEW u \in Vertices
      PROVE  /\ PlanWithin(vtx'[u].subplan, Aggregate(u))
             /\ \A t \in Nat : Booked(vtx'[u].subplan, t) = Sum(Amounts(vtx', t), TrackedBelow(u))
  <2> DEFINE r == vtx[u]
             q == vtx'[u]
             p == r.subplan
             T == TrackedBelow(u)
             size == Aggregate(u)
             Mine == id \in r.tags /\ id \in DOMAIN r.job2span
             span == r.job2span[id]
  <2>1. /\ SInv /\ VertexOK(r, jobid_counter) /\ PlannerShape(p) /\ PlanWithin(p, size)
        /\ size \in Nat
        /\ \A t \in Nat : Booked(p, t) = Sum(Amounts(vtx, t), T)
    BY VertexFacts, AggregateIsSum DEF SubInv, SubplanInv
  <2>2. q.subplan = IF Mine THEN Removed(p, span) ELSE p
    <3>1. q = IF id \in r.tags THEN RemVertex(r, id) ELSE r
      BY <2>1, CancelRemoves
    <3>2. id \in r.tags => q.subplan = IF id \in DOMAIN r.job2span THEN Removed(p, span) ELSE p
      BY <2>1, <3>1, RemVertexFields
    <3>3. QED  BY <3>1, <3>2
  <2>3. IsFiniteSet(T) /\ \A v \in T : v \in Vertices
    BY BelowFinite
  <2>4. ASSUME NEW t \in Nat
        PROVE  /\ Sum(Amounts(vtx, t), T) = Sum(Amounts(vtx', t), T) + Sum(BookedBy(vtx, id, t), T)
               /\ Sum(Amounts(vtx', t), T) \in Nat
    <3> DEFINE old == Amounts(vtx, t)
               new == Amounts(vtx', t)
               by == BookedBy(vtx, id, t)
    <3>1. \A v \in T : /\ new[v] = Booked(vtx'[v].plans, t) /\ old[v] = Booked(vtx[v].plans, t)
                       /\ by[v] \in Nat
      BY <2>1, <2>3, BookedByType DEF Amounts
    <3>2. \A v \in T : old[v] = new[v] + by[v] /\ new[v] \in Nat
      BY <2>1, <2>3, <3>1, CancelAmounts
    <3> HIDE DEF old, new, by, T
    <3>3. \A v \in T : new[v] \in Int /\ by[v] \in Int /\ old[v] = new[v] + by[v]
      BY <3>1, <3>2
    <3>4. Sum(old, T) = Sum(new, T) + Sum(by, T)
      BY <2>3, <3>3, SumPlus
    <3>5. Sum(new, T) \in Nat
      BY <2>3, <3>2, SumGrows
    <3>6. QED  BY <3>4, <3>5 DEF old, new, by, T
  <2>5. ASSUME NEW t \in Nat
        PROVE  Sum(BookedBy(vtx, id, t), T) =
                   IF Mine /\ span \in SpansAt(p, t) THEN p.spans[span].planned ELSE 0
    <3>1. CASE id \in r.tags
      <4>1. Accounts(vtx, u, id)
        BY <3>1 DEF SubInv, SubplanInv
      <4>2. QED  BY <2>1, <3>1, <4>1, BookedBelow DEF SubSpan
    <3>2. CASE id \notin r.tags
      <4> DEFINE by == BookedBy(vtx, id, t)
      <4>1. \A v \in T : ~ Holds(vtx[v], id)
        <5>1. \A v \in T : v \in Vertices /\ u \in Path[v]
          BY <2>3 DEF TrackedBelow, Below
        <5>2. \A v \in Vertices : u \in Path[v] /\ Holds(vtx[v], id) => id \in r.tags
          BY <2>1 DEF SInv, TagsLeadToBookings, HasBooking, Holds
        <5>3. QED  BY <3>2, <5>1, <5>2
      <4>2. \A v \in T : by[v] = 0 /\ by[v] \in Int
        BY <2>3, <4>1 DEF BookedBy
      <4> HIDE DEF by, T
      <4>3. (\A v \in T : by[v] \in Int) /\ {} \in SUBSET T /\ \A v \in T \ {} : by[v] = 0
        BY <4>2
      <4>4. Sum(by, T) = Sum(by, {})
        BY <2>3, <4>3, SumSupport
      <4>5. Sum(by, T) = 0
        BY <4>4, SumEmpty
      <4>6. QED  BY <3>2, <4>5 DEF by
    <3>3. QED  BY <3>1, <3>2
  <2> HIDE DEF p, Mine, span, size, T
  <2>6. CASE Mine
    <3>1. /\ PlanWithin(Removed(p, span), size)
          /\ \A t \in Nat : Booked(p, t) =
                 Booked(Removed(p, span), t)
                 + (IF span \in SpansAt(p, t) THEN p.spans[span].planned ELSE 0)
      BY <2>1, BookedRemoved
    <3>2. \A t \in Nat : Booked(Removed(p, span), t) \in Nat
      <4>1. PlannerShape(Removed(p, span))
        BY <2>1, RemovedPlanner
      <4>2. \A i \in DOMAIN Removed(p, span).spans : Removed(p, span).spans[i].planned \in Nat
        BY <2>1, <3>1 DEF PlanWithin
      <4>3. QED  BY <4>1, <4>2, BookedType
    <3>3. ASSUME NEW t \in Nat
          PROVE  Booked(Removed(p, span), t) = Sum(Amounts(vtx', t), T)
      <4>1. span \in SpansAt(p, t) => p.spans[span].planned \in Nat
        BY <2>1 DEF PlanWithin, SpansAt
      <4>2. Booked(p, t) = Sum(Amounts(vtx', t), T)
                + (IF span \in SpansAt(p, t) THEN p.spans[span].planned ELSE 0)
        BY <2>1, <2>4, <2>5, <2>6
      <4>3. QED  BY <2>4, <3>1, <3>2, <4>1, <4>2
    <3>4. QED  BY <2>2, <2>6, <3>1, <3>3 DEF size, T
  <2>7. CASE ~ Mine
    <3>1. \A t \in Nat : Booked(p, t) = Sum(Amounts(vtx', t), T)
      BY <2>1, <2>4, <2>5, <2>7
    <3>2. QED  BY <2>1, <2>2, <2>7, <3>1 DEF size, T
  <2>8. QED  BY <2>6, <2>7
<1>2. QED  BY <1>1, CancelAccounts DEF SubplanInv

-----------------------------------------------------------------------------
(* The session. *)

LEMMA InitSubInv == Init => SubInv
<1> SUFFICES ASSUME Init PROVE SubplanInv(vtx)
  BY InitSInv DEF SubInv
<1>1. ASSUME NEW size \in Nat
      PROVE  PlanWithin(NewPlanner(size), size) /\ \A t : Booked(NewPlanner(size), t) = 0
  <2> DEFINE p == NewPlanner(size)
  <2>1. p.total = size /\ DOMAIN p.spans = {}
    BY DEF NewPlanner
  <2>2. \A t : SpansAt(p, t) = {}
    BY <2>1 DEF SpansAt
  <2>3. \A t : Booked(p, t) = 0
    BY <2>2, SumEmpty, BookedIsSum
  <2>4. QED  BY <2>1, <2>3 DEF PlanWithin
<1>2. \A u \in Vertices : /\ vtx[u].plans = NewPlanner(Size[u]) /\ vtx[u].tags = {}
                          /\ vtx[u].subplan = NewPlanner(Aggregate(u))
  BY DEF Init, InitVertices, Unused
<1>3. ASSUME NEW u \in Vertices, NEW t \in Nat
      PROVE  Sum(Amounts(vtx, t), TrackedBelow(u)) = 0
  <2> DEFINE T == TrackedBelow(u)
             amounts == Amounts(vtx, t)
  <2>1. IsFiniteSet(T) /\ \A v \in T : v \in Vertices
    BY BelowFinite
  <2>2. \A v \in Vertices : amounts[v] = 0
    BY <1>1, <1>2, SizeAssumption DEF Amounts
  <2> HIDE DEF T, amounts
  <2>3. (\A v \in T : amounts[v] \in Int) /\ {} \in SUBSET T /\ \A v \in T \ {} : amounts[v] = 0
    BY <2>1, <2>2
  <2>4. Sum(amounts, T) = Sum(amounts, {})
    BY <2>1, <2>3, SumSupport
  <2>5. Sum(amounts, T) = 0
    BY <2>4, SumEmpty
  <2>6. QED  BY <2>5 DEF T, amounts
<1>4. QED  BY <1>1, <1>2, <1>3, AggregateIsSum DEF SubplanInv

LEMMA NextSubInv ==
    ASSUME MaxJobs <= XCheckerNJobs, SubInv, [Next]_vars
    PROVE  SubInv'
<1>1. SInv' /\ SInv
  BY NextSInv DEF SubInv
<1>2. ASSUME SubplanInv(vtx') PROVE SubInv'
  <2>1. SubplanInv(vtx)' <=> SubplanInv(vtx')
    BY DEF SubplanInv, PlanWithin, Amounts, Accounts, HoldBelow, SubSpan, PlannedFor, Holds,
           SpanOf, PlanSpan
  <2>2. QED  BY <1>1, <1>2, <2>1 DEF SubInv
<1>3. ASSUME NEW j \in Jobspecs, NEW op \in {"allocate", "allocate_orelse_reserve"},
             CmdMatch(j, op)
      PROVE  SubInv'
  <2>1. PICK m : Books(m, j)
    BY <1>1, <1>3, MatchBooks
  <2>2. QED  BY <1>2, <2>1, MatchSubplanInv
<1>4. ASSUME NEW id \in DOMAIN jobs, CmdCancel(id)
      PROVE  SubInv'
  <2>1. id \in Active
    BY <1>4 DEF CmdCancel, Active
  <2>2. QED  BY <1>2, <1>4, <2>1, CancelSubplanInv
<1>5. ASSUME UNCHANGED vtx
      PROVE  SubInv'
  BY <1>2, <1>5 DEF SubInv
<1>6. ASSUME NEW j \in Jobspecs, NEW op \in {"allocate", "allocate_orelse_reserve"},
             CmdMatchFails(j, op) \/ CmdMatchAstray(j, op)
      PROVE  SubInv'
  BY <1>5, <1>6 DEF CmdMatchFails, CmdMatchAstray
<1>7. CASE UNCHANGED vars
  BY <1>5, <1>7 DEF vars
<1>8. QED  BY <1>3, <1>4, <1>6, <1>7 DEF Next

LEMMA SubInvariance == ASSUME MaxJobs <= XCheckerNJobs PROVE Spec => []SubInv
<1>1. SubInv /\ [Next]_vars => SubInv'
  BY NextSubInv
<1>2. QED  BY <1>1, InitSubInv, PTL DEF Spec

LEMMA PlannedIsSum ==
    ASSUME NEW job, NEW B \in SUBSET Vertices
    PROVE  MapThenSumSet(LAMBDA v : BookedFor(v, job).planned, B) = Sum(PlannedFor(vtx, job), B)
<1> DEFINE f == PlannedFor(vtx, job)
           amount(v) == BookedFor(v, job).planned
           Q(h) == h = [s \in SUBSET B |->
                          IF s = {} THEN 0
                          ELSE amount(CHOOSE x \in s : TRUE) + h[s \ {CHOOSE x \in s : TRUE}]]
<1>1. MapThenSumSet(LAMBDA v : BookedFor(v, job).planned, B) = (CHOOSE h : Q(h))[B]
  BY DEF MapThenSumSet, MapThenFoldSet
<1>2. Sum(f, B) = (CHOOSE h : IsSum(h, f, B))[B]
  BY DEF Sum, SumFunctionOnSet, FoldFunctionOnSet, MapThenFoldSet, IsSum
<1>3. \A s \in SUBSET B : s # {} => f[CHOOSE x \in s : TRUE] = amount(CHOOSE x \in s : TRUE)
  <2>1. \A v \in B : f[v] = amount(v)
    BY DEF PlannedFor, BookedFor, SpanOf
  <2> HIDE DEF f, amount
  <2>2. QED  BY <2>1
<1> HIDE DEF f, amount
<1>4. ASSUME NEW h PROVE Q(h) <=> IsSum(h, f, B)
  <2> DEFINE e(s) == IF s = {} THEN 0
                     ELSE amount(CHOOSE x \in s : TRUE) + h[s \ {CHOOSE x \in s : TRUE}]
             d(s) == IF s = {} THEN 0
                     ELSE f[CHOOSE x \in s : TRUE] + h[s \ {CHOOSE x \in s : TRUE}]
  <2>1. \A s \in SUBSET B : e(s) = d(s)
    BY <1>3
  <2>2. /\ Q(h) <=> h = [s \in SUBSET B |-> e(s)]
        /\ IsSum(h, f, B) <=> h = [s \in SUBSET B |-> d(s)]
    BY DEF IsSum
  <2> HIDE DEF e, d
  <2>3. [s \in SUBSET B |-> e(s)] = [s \in SUBSET B |-> d(s)]
    BY <2>1
  <2>4. QED  BY <2>2, <2>3
<1>5. (CHOOSE h : Q(h)) = (CHOOSE h : IsSum(h, f, B))
  <2> HIDE DEF Q
  <2>1. QED  BY <1>4
<1>6. QED  BY <1>1, <1>2, <1>5 DEF f

LEMMA SubInvExact == SubInv => SubplansExact
<1> SUFFICES ASSUME SubInv, NEW u \in Vertices, NEW job \in vtx[u].tags
             PROVE  \E below \in {{v \in Below(u) : Type[v] \in Tracked /\ HasBooking(v, job)}} :
                        /\ job \in DOMAIN vtx[u].job2span <=> below # {}
                        /\ below # {} =>
                             \E s \in {vtx[u].subplan.spans[vtx[u].job2span[job]]} :
                                /\ s.planned = MapThenSumSet(LAMBDA v : BookedFor(v, job).planned, below)
                                /\ \A v \in below : BookedFor(v, job).start = s.start
                                                    /\ BookedFor(v, job).last = s.last
  BY DEF SubplansExact
<1> DEFINE below == {v \in Below(u) : Type[v] \in Tracked /\ HasBooking(v, job)}
           s == vtx[u].subplan.spans[vtx[u].job2span[job]]
<1>1. below = HoldBelow(vtx, u, job)
  BY DEF HoldBelow, TrackedBelow, Holds, HasBooking
<1>2. below \in SUBSET Vertices
  BY DEF Below
<1>3. Accounts(vtx, u, job)
  BY DEF SubInv, SubplanInv
<1>4. \A v : BookedFor(v, job) = SpanOf(vtx[v], job)
  BY DEF BookedFor, SpanOf
<1> HIDE DEF below
<1>5. MapThenSumSet(LAMBDA v : BookedFor(v, job).planned, below) = Sum(PlannedFor(vtx, job), below)
  BY <1>2, PlannedIsSum
<1>6. /\ job \in DOMAIN vtx[u].job2span <=> below # {}
      /\ below # {} => /\ s.planned = Sum(PlannedFor(vtx, job), below)
                       /\ \A v \in below : BookedFor(v, job).start = s.start
                                           /\ BookedFor(v, job).last = s.last
  BY <1>1, <1>3, <1>4 DEF Accounts, SubSpan
<1> HIDE DEF s
<1>7. QED  BY <1>5, <1>6 DEF below, s

\* The subtree plan of every vertex accounts for each of its jobs with exactly
\* what the job has booked of the tracked types below the vertex, at the same
\* time, for every graph, policy and set of jobspecs: planner_add_span of a
\* subtree plan in upd_sched is never refused, and rem_subtree_plan gives back
\* what went.
THEOREM SubtreePlansAreExact == ASSUME MaxJobs <= XCheckerNJobs PROVE Spec => []SubplansExact
<1>1. SubInv => SubplansExact
  BY SubInvExact
<1>2. QED  BY <1>1, SubInvariance, PTL

-----------------------------------------------------------------------------
(* The types of the session. *)

Counters == jobid_counter \in 1 .. MaxJobs + 1 /\ undefined \in BOOLEAN

LEMMA CountersInvariance == Spec => []Counters
<1>1. Init => Counters
  <2>1. 1 \in 1 .. MaxJobs + 1
    BY JobspecAssumption
  <2>2. FALSE \in BOOLEAN
    OBVIOUS
  <2>3. QED  BY <2>1, <2>2 DEF Init, Counters
<1>2. ASSUME Counters, [Next]_vars
      PROVE  Counters'
  <2>1. ASSUME NEW j \in Jobspecs, NEW op \in {"allocate", "allocate_orelse_reserve"},
               CmdMatch(j, op) \/ CmdMatchFails(j, op) \/ CmdMatchAstray(j, op)
        PROVE  Counters'
    <3>1. jobid_counter <= MaxJobs
      BY <2>1 DEF CmdMatch, CmdMatchFails, CmdMatchAstray, CanMatch
    <3>2. \/ jobid_counter' = jobid_counter + 1 /\ UNCHANGED undefined
          \/ UNCHANGED jobid_counter /\ undefined' = TRUE
      BY <2>1 DEF CmdMatch, CmdMatchFails, CmdMatchAstray
    <3>3. jobid_counter' \in 1 .. MaxJobs + 1
      BY <1>2, <3>1, <3>2, JobspecAssumption DEF Counters
    <3>4. undefined' = undefined \/ undefined' = TRUE
      BY <3>2
    <3>5. undefined' \in BOOLEAN
      BY <1>2, <3>4 DEF Counters
    <3>6. QED  BY <3>3, <3>5 DEF Counters
  <2>2. ASSUME NEW id \in DOMAIN jobs, CmdCancel(id)
        PROVE  Counters'
    BY <1>2, <2>2 DEF CmdCancel, Counters
  <2>3. CASE UNCHANGED vars
    BY <1>2, <2>3 DEF vars, Counters
  <2>4. QED  BY <1>2, <2>1, <2>2, <2>3 DEF Next
<1>3. QED  BY <1>1, <1>2, PTL DEF Spec

LEMMA SpansTyped ==
    ASSUME NEW p, PlannerShape(p), NEW size,
           \A id \in DOMAIN p.spans : p.spans[id].planned \in 1 .. size
    PROVE  Range(p.spans) \subseteq SpanOK(size)
<1>1. \A s : IsSpan(s) /\ s.start \in Nat /\ s.last \in Nat /\ s.planned \in 1 .. size => s \in SpanOK(size)
  BY DEF IsSpan, SpanOK
<1>2. QED  BY <1>1 DEF PlannerShape, Range

\* The types of the session: ids are given out up to the bound, jobs that are
\* in a table or tag a vertex are known, and no span of any planner is for
\* more than its planner has in total.
THEOREM SessionIsTyped == ASSUME MaxJobs <= XCheckerNJobs PROVE Spec => []TypeOK
<1>1. SubInv /\ Counters => TypeOK
  <2> SUFFICES ASSUME SubInv, Counters PROVE TypeOK
    OBVIOUS
  <2>1. /\ DOMAIN jobs \subseteq 1 .. jobid_counter - 1 /\ Active \subseteq DOMAIN jobs
        /\ \A id \in DOMAIN jobs :
            jobs[id].state \in {"ALLOCATED", "RESERVED", "CANCELLED"} /\ jobs[id].at \in Nat
    BY DEF SubInv, SInv, JobTables, Active
  <2>2. ASSUME NEW u \in Vertices
        PROVE  /\ Range(vtx[u].plans.spans) \subseteq SpanOK(Size[u])
               /\ Range(vtx[u].subplan.spans) \subseteq SpanOK(Aggregate(u))
               /\ Range(vtx[u].x_checker.spans) \subseteq SpanOK(1)
               /\ vtx[u].tags \subseteq DOMAIN jobs
    <3>1. VertexOK(vtx[u], jobid_counter) /\ PlanWithin(vtx[u].plans, Size[u])
      BY VertexFacts DEF SubInv
    <3>2. PlannerShape(vtx[u].plans) /\ PlannerShape(vtx[u].subplan) /\ PlannerShape(vtx[u].x_checker)
      BY <3>1 DEF VertexOK, VertexShape
    <3>3. /\ \A id \in DOMAIN vtx[u].plans.spans : vtx[u].plans.spans[id].planned \in 1 .. Size[u]
          /\ \A id \in DOMAIN vtx[u].subplan.spans :
                vtx[u].subplan.spans[id].planned \in 1 .. Aggregate(u)
          /\ \A id \in DOMAIN vtx[u].x_checker.spans : vtx[u].x_checker.spans[id].planned \in 1 .. 1
      BY <3>1 DEF PlanWithin, SubInv, SubplanInv, VertexOK, VertexShape
    <3>4. vtx[u].tags \subseteq DOMAIN jobs
      BY <2>1 DEF SubInv, SInv, TagsLeadToBookings
    <3>5. QED  BY <3>2, <3>3, <3>4, SpansTyped
  <2>3. QED  BY <2>1, <2>2 DEF TypeOK, Counters
<1>2. QED  BY <1>1, SubInvariance, CountersInvariance, PTL

-----------------------------------------------------------------------------
(* What a step of the session never does. *)

\* No planner of a vertex refuses what update() books for the selection.
UpdateAccepted(m) ==
    \A v \in Vertices : PlanAccepts(v, m) /\ SubplanAccepts(v, m, HandedUp(m)[v])

\* A match that books is never booked in part: planner_add_span is refused at
\* no vertex that update() visits, by its plan or its subtree plan, so the error
\* paths of upd_sched, which would leave a job half booked, are never taken.
THEOREM UpdatesNeverFail ==
    ASSUME MaxJobs <= XCheckerNJobs
    PROVE  Spec => [][\A j \in Jobspecs : \A op \in {"allocate", "allocate_orelse_reserve"} :
                        CmdMatch(j, op) =>
                            \E at \in ScheduleTimes(j, op) \ {NoTime} :
                                \E m \in {Selection(j, at, SelectAt(j, at).marks)} :
                                    /\ UpdDfv(jobid_counter, m) /\ RecordJob(j, at)
                                    /\ UpdateAccepted(m)]_vars
<1> DEFINE Accepts ==
        \A j \in Jobspecs : \A op \in {"allocate", "allocate_orelse_reserve"} :
            CmdMatch(j, op) =>
                \E at \in ScheduleTimes(j, op) \ {NoTime} :
                    \E m \in {Selection(j, at, SelectAt(j, at).marks)} :
                        /\ UpdDfv(jobid_counter, m) /\ RecordJob(j, at)
                        /\ UpdateAccepted(m)
<1>1. SubInv => Accepts
  <2> SUFFICES ASSUME SubInv, NEW j \in Jobspecs,
                      NEW op \in {"allocate", "allocate_orelse_reserve"}, CmdMatch(j, op)
               PROVE  \E at \in ScheduleTimes(j, op) \ {NoTime} :
                          \E m \in {Selection(j, at, SelectAt(j, at).marks)} :
                              /\ UpdDfv(jobid_counter, m) /\ RecordJob(j, at)
                              /\ UpdateAccepted(m)
    OBVIOUS
  <2>1. PICK m : /\ Books(m, j)
                 /\ \E at \in ScheduleTimes(j, op) \ {NoTime} :
                        m = Selection(j, at, SelectAt(j, at).marks)
    BY MatchBooks DEF SubInv
  <2>2. PICK at \in ScheduleTimes(j, op) \ {NoTime} : m = Selection(j, at, SelectAt(j, at).marks)
    BY <2>1
  <2>3. m.at = at
    BY <2>2 DEF Selection
  <2>4. Fits(m) /\ (\A v \in Vertices : PlanAccepts(v, m)) /\ UpdDfv(jobid_counter, m) /\ RecordJob(j, at)
    BY <2>1, <2>3 DEF Books, Fits, PlanAccepts
  <2>5. \A v \in Vertices : SubplanAccepts(v, m, Want(m)[v])
    BY <2>1, SubplansTake DEF SubplanAccepts
  <2>6. UpdateAccepted(m)
    BY <2>4, <2>5, HandedUpIsWant DEF UpdateAccepted
  <2>7. QED  BY <2>2, <2>4, <2>6
<1>2. SubInv /\ [Next]_vars => [Accepts]_vars
  BY <1>1
<1>3. QED  BY <1>2, SubInvariance, PTL DEF Spec

\* At no instant is more booked in a vertex's plan than the vertex has, nor in
\* its subtree plan than there is of the tracked types below it.
THEOREM NothingOverbooked ==
    ASSUME MaxJobs <= XCheckerNJobs
    PROVE  Spec => [](\A u \in Vertices : \A t \in Nat :
                        /\ Booked(vtx[u].plans, t) \in 0 .. Size[u]
                        /\ Booked(vtx[u].subplan, t) \in 0 .. Aggregate(u))
<1> DEFINE Within == \A u \in Vertices : \A t \in Nat :
                        /\ Booked(vtx[u].plans, t) \in 0 .. Size[u]
                        /\ Booked(vtx[u].subplan, t) \in 0 .. Aggregate(u)
<1>1. SubInv => Within
  <2> SUFFICES ASSUME SubInv, NEW u \in Vertices, NEW t \in Nat
               PROVE  /\ Booked(vtx[u].plans, t) \in 0 .. Size[u]
                      /\ Booked(vtx[u].subplan, t) \in 0 .. Aggregate(u)
    OBVIOUS
  <2>1. /\ PlannerShape(vtx[u].subplan) /\ PlanWithin(vtx[u].subplan, Aggregate(u))
        /\ PlanWithin(vtx[u].plans, Size[u]) /\ Size[u] \in Nat /\ Aggregate(u) \in Nat
        /\ Booked(vtx[u].plans, t) \in Nat
    BY VertexFacts, AggregateIsSum DEF SubInv, SubplanInv
  <2>2. Booked(vtx[u].subplan, t) \in Nat
    <3>1. \A id \in DOMAIN vtx[u].subplan.spans : vtx[u].subplan.spans[id].planned \in Nat
      BY <2>1 DEF PlanWithin
    <3>2. QED  BY <2>1, <3>1, BookedType
  <2>3. Booked(vtx[u].plans, t) <= Size[u] /\ Booked(vtx[u].subplan, t) <= Aggregate(u)
    BY <2>1 DEF PlanWithin
  <2>4. QED  BY <2>1, <2>2, <2>3
<1>2. QED  BY <1>1, SubInvariance, PTL

-----------------------------------------------------------------------------
(* Exclusive access.  A request that is exclusive is followed from the     *)
(* jobspec to the mark, where it finds the exclusivity checker free of all *)
(* jobs, and therefore the vertex's plan of all bookings; the booking then *)
(* takes all of the vertex, and whoever comes later finds nothing left.    *)

OverlapIn(J, a, b) ==
    /\ J[a].at < J[b].at + J[b].jobspec.duration
    /\ J[b].at < J[a].at + J[a].jobspec.duration

\* The span of a job in the exclusivity checker of a vertex.
CheckSpan(r, job) == r.x_checker.spans[r.x_spans[job]]

InWindow(s, job) == s.start = job.at /\ s.last = job.at + job.jobspec.duration

\* The spans of a job are at the time that the session knows of.
KeepsTime(r, J, job) ==
    InWindow(CheckSpan(r, job), J[job]) /\ (Holds(r, job) => InWindow(SpanOf(r, job), J[job]))

\* Where a job is alone it has all there is.
Alone(r, J, u, a) ==
    Type[u] \in ExclusiveTypes(J[a].jobspec.resources) =>
        /\ Holds(r, a) /\ SpanOf(r, a).planned = Size[u]
        /\ \A b \in r.tags \ {a} : ~ OverlapIn(J, a, b)

VertexAlone(r, J, u) == \A job \in r.tags : KeepsTime(r, J, job) /\ Alone(r, J, u, job)

XInv == SInv /\ \A u \in Vertices : VertexAlone(vtx[u], jobs, u)

\* The walk for a list of requests comes to a vertex of a type that the list
\* asks for exclusively only with a request that does, and has no part of a
\* root of such a type to select.
NamesExclusiveTypes(resources) ==
    /\ \E R \in SUBSET Visits :
        /\ RootVisit(resources) \in R
        /\ \A c \in R : \A v \in Range(Kids[c[1]]) : KidVisit(c, v) \in R
        /\ \A c \in R : Type[c[1]] \in ExclusiveTypes(resources) => Exclusivity(c[1], c[2])
    /\ Type[Root] \in ExclusiveTypes(resources) => Size[Root] = 1

\* What is free is the least of what is free at an instant.
LEMMA FreeIsLeast ==
    ASSUME NEW p, PlannerShape(p), NEW size \in Nat, PlanWithin(p, size),
           NEW at \in Nat, NEW duration \in Nat \ {0}
    PROVE  LET free == AvailResourcesDuring(p, at, duration)
               W == at .. at + duration - 1
           IN  /\ free \in Nat
               /\ \A t \in W : Booked(p, t) \in Nat /\ free <= size - Booked(p, t)
               /\ \E t \in W : free = size - Booked(p, t)
<1> DEFINE free(t) == size - Booked(p, t)
           W == at .. at + duration - 1
           S == {free(t) : t \in W}
<1>1. /\ \A i \in DOMAIN p.spans : p.spans[i].planned \in 1 .. size
      /\ p.total = size /\ \A t \in Nat : Booked(p, t) <= size
  BY DEF PlanWithin
<1>2. \A t \in Nat : Booked(p, t) \in Nat
  BY <1>1, BookedType
<1>3. \A t \in W : free(t) \in Nat /\ Booked(p, t) \in Nat
  <2>1. \A t \in W : t \in Nat
    OBVIOUS
  <2>2. QED  BY <1>1, <1>2, <2>1
<1>4. S \in SUBSET Nat /\ S # {}
  <2>1. at \in W
    OBVIOUS
  <2> HIDE DEF W, free
  <2>2. QED  BY <1>3, <2>1
<1>5. AvailResourcesDuring(p, at, duration) = Min(S)
  BY <1>1 DEF AvailResourcesDuring
<1>6. Min(S) \in S /\ \A x \in S : Min(S) <= x
  <2> HIDE DEF S
  <2>1. QED  BY <1>4, LeastElement
<1>7. \A t \in W : Min(S) <= free(t)
  <2>1. \A t \in W : free(t) \in S
    OBVIOUS
  <2> HIDE DEF S, W, free
  <2>2. QED  BY <1>6, <2>1
<1>8. \E t \in W : Min(S) = free(t)
  BY <1>6
<1>9. Min(S) \in Nat
  <2> HIDE DEF S
  <2>1. QED  BY <1>4, <1>6
<1> HIDE DEF S
<1>10. QED  BY <1>3, <1>5, <1>7, <1>8, <1>9

\* A span counts while it lasts.
LEMMA SpanCounts ==
    ASSUME NEW p, PlannerShape(p), NEW size \in Nat, PlanWithin(p, size),
           NEW id \in DOMAIN p.spans, NEW t \in Nat, p.spans[id].start <= t, t < p.spans[id].last
    PROVE  /\ p.spans[id].planned \in 1 .. size
           /\ Booked(p, t) \in Nat /\ Booked(p, t) >= p.spans[id].planned
<1> DEFINE q == Removed(p, id)
<1>1. \A i \in DOMAIN p.spans : p.spans[i].planned \in 1 .. size
  BY DEF PlanWithin
<1>2. PlanWithin(q, size) /\ Booked(p, t) = Booked(q, t) + p.spans[id].planned
  <2>1. id \in SpansAt(p, t)
    BY DEF SpansAt
  <2>2. QED  BY <2>1, BookedRemoved
<1>3. PlannerShape(q)
  BY RemovedPlanner
<1> HIDE DEF q
<1>4. Booked(q, t) \in Nat
  <2>1. \A i \in DOMAIN q.spans : q.spans[i].planned \in Nat
    BY <1>2 DEF PlanWithin
  <2>2. QED  BY <1>3, <2>1, BookedType
<1>5. p.spans[id].planned \in Nat
  BY <1>1
<1>6. QED  BY <1>1, <1>2, <1>4, <1>5

\* Two windows that overlap have an instant in common.
LEMMA CommonInstant ==
    ASSUME NEW a \in Nat, NEW c \in Nat \ {0}, NEW b \in Nat, NEW d \in Nat \ {0},
           a < b + d, b < a + c
    PROVE  \E t \in Nat : a <= t /\ t < a + c /\ t \in b .. b + d - 1
<1> DEFINE t == IF a <= b THEN b ELSE a
<1>1. t \in Nat /\ a <= t /\ t < a + c /\ b <= t /\ t <= b + d - 1
  OBVIOUS
<1> HIDE DEF t
<1>2. QED  BY <1>1

\* Every tag of a vertex has a span of its own in the checker, which counts
\* jobs, and never more than it may.
LEMMA CheckerTable ==
    ASSUME NEW r, NEW n, VertexOK(r, n)
    PROVE  /\ PlannerShape(r.x_checker) /\ DOMAIN r.x_spans = r.tags
           /\ r.x_checker.total = XCheckerNJobs /\ XCheckerNJobs \in Nat \ {0}
           /\ \A id \in DOMAIN r.x_checker.spans : r.x_checker.spans[id].planned = 1
           /\ \A job \in r.tags : r.x_spans[job] \in DOMAIN r.x_checker.spans
           /\ \A i, k \in r.tags : r.x_spans[i] = r.x_spans[k] => i = k
BY SizeAssumption DEF VertexOK, VertexShape, VertexTablesAgree, Bijection, Injection, IsInjective

LEMMA CheckerWithin ==
    ASSUME NEW r, NEW n \in Nat \ {0}, n <= XCheckerNJobs, VertexOK(r, n)
    PROVE  PlanWithin(r.x_checker, XCheckerNJobs)
<1> DEFINE p == r.x_checker
<1>1. /\ PlannerShape(p) /\ p.total = XCheckerNJobs /\ XCheckerNJobs \in Nat \ {0}
      /\ \A id \in DOMAIN p.spans : p.spans[id].planned = 1
  BY CheckerTable
<1>2. ASSUME NEW t \in Nat PROVE Booked(p, t) <= XCheckerNJobs
  <2>1. CanAdd(p, t, 1, 1)
    BY CheckerHasRoom
  <2>2. Booked(p, t) \in Nat
    BY <1>1, BookedOnes
  <2>3. 1 <= Min({p.total - Booked(p, s) : s \in t .. t + 1 - 1})
    BY <2>1 DEF CanAdd, AvailDuring, AvailResourcesDuring
  <2>4. {p.total - Booked(p, s) : s \in t .. t + 1 - 1} = {p.total - Booked(p, t)}
    <3>1. t .. t + 1 - 1 = {t}
      OBVIOUS
    <3>2. QED  BY <3>1
  <2>5. Min({p.total - Booked(p, t)}) = p.total - Booked(p, t)
    <3>1. p.total - Booked(p, t) \in Int
      BY <1>1, <2>2
    <3>2. \A x \in Int : Min({x}) = x
      BY DEF Min
    <3>3. QED  BY <3>1, <3>2
  <2> HIDE DEF p
  <2>6. 1 <= p.total - Booked(p, t)
    BY <2>3, <2>4, <2>5
  <2>7. QED  BY <1>1, <2>2, <2>6
<1>3. QED  BY <1>1, <1>2 DEF PlanWithin

\* What the lemmas know of a vertex and the jobs that it is tagged with.
Timed(r, n, J, size) ==
    /\ VertexOK(r, n) /\ PlanWithin(r.plans, size)
    /\ \A job \in r.tags : /\ KeepsTime(r, J, job) /\ J[job].at \in Nat
                           /\ J[job].jobspec.duration \in Nat \ {0}

During(job, at, duration) == job.at < at + duration /\ at < job.at + job.jobspec.duration

\* Where the exclusivity checker lets an exclusive request pass, no job is
\* there at that time and nothing of the vertex is booked.
LEMMA FreeVertex ==
    ASSUME NEW r, NEW n \in Nat \ {0}, n <= XCheckerNJobs, NEW J, NEW size \in Nat,
           Timed(r, n, J, size), NEW at \in Nat, NEW duration \in Nat \ {0},
           AvailDuring(r.x_checker, at, duration, XCheckerNJobs)
    PROVE  /\ \A job \in r.tags : ~ During(J[job], at, duration)
           /\ AvailResourcesDuring(r.plans, at, duration) = size
<1>1. /\ VertexOK(r, n) /\ PlanWithin(r.plans, size) /\ PlannerShape(r.plans)
      /\ \A job \in r.tags : /\ KeepsTime(r, J, job) /\ J[job].at \in Nat
                             /\ J[job].jobspec.duration \in Nat \ {0}
  BY DEF Timed, VertexOK, VertexShape
<1>2. /\ PlannerShape(r.x_checker) /\ PlanWithin(r.x_checker, XCheckerNJobs)
      /\ XCheckerNJobs \in Nat
      /\ \A job \in r.tags : r.x_spans[job] \in DOMAIN r.x_checker.spans
  BY <1>1, CheckerTable, CheckerWithin
<1>3. ASSUME NEW t \in at .. at + duration - 1 PROVE Booked(r.x_checker, t) = 0
  <2> DEFINE free == AvailResourcesDuring(r.x_checker, at, duration)
  <2>1. free \in Nat /\ Booked(r.x_checker, t) \in Nat
        /\ free <= XCheckerNJobs - Booked(r.x_checker, t)
    BY <1>2, FreeIsLeast
  <2>2. XCheckerNJobs <= free
    BY DEF AvailDuring
  <2> HIDE DEF free
  <2>3. QED  BY <1>2, <2>1, <2>2
<1>4. ASSUME NEW job \in r.tags, During(J[job], at, duration)
      PROVE  FALSE
  <2> DEFINE s == CheckSpan(r, job)
             a == J[job].at
             c == J[job].jobspec.duration
  <2>1. a \in Nat /\ c \in Nat \ {0} /\ a < at + duration /\ at < a + c
    BY <1>1, <1>4 DEF During
  <2>2. s.start = a /\ s.last = a + c
    BY <1>1 DEF KeepsTime, InWindow
  <2>3. PICK t \in Nat : a <= t /\ t < a + c /\ t \in at .. at + duration - 1
    <3> HIDE DEF a, c
    <3>1. QED  BY <2>1, CommonInstant
  <2>4. /\ r.x_checker.spans[r.x_spans[job]].start <= t
        /\ t < r.x_checker.spans[r.x_spans[job]].last
    BY <2>2, <2>3 DEF CheckSpan
  <2>5. /\ r.x_checker.spans[r.x_spans[job]].planned \in 1 .. XCheckerNJobs
        /\ Booked(r.x_checker, t) >= r.x_checker.spans[r.x_spans[job]].planned
    BY <1>2, <2>4, SpanCounts
  <2>6. Booked(r.x_checker, t) = 0
    BY <1>3, <2>3
  <2>7. QED  BY <1>2, <2>5, <2>6
<1>5. ASSUME NEW t \in at .. at + duration - 1 PROVE Booked(r.plans, t) = 0
  <2>1. ASSUME NEW id \in SpansAt(r.plans, t) PROVE FALSE
    <3>1. id \in DOMAIN r.plans.spans /\ r.plans.spans[id].start <= t /\ t < r.plans.spans[id].last
      BY <2>1 DEF SpansAt
    <3>2. PICK job : Holds(r, job) /\ PlanSpan(r, job) = id
      BY <1>1, <3>1, HeldSpans
    <3>3. job \in r.tags
      BY <1>1, <3>2, HeldSpans
    <3>4. r.plans.spans[id].start = J[job].at
          /\ r.plans.spans[id].last = J[job].at + J[job].jobspec.duration
      BY <1>1, <3>2, <3>3 DEF KeepsTime, InWindow, SpanOf
    <3>5. J[job].at \in Nat /\ J[job].jobspec.duration \in Nat
      BY <1>1, <3>3
    <3>6. During(J[job], at, duration)
      BY <3>1, <3>4, <3>5 DEF During
    <3>7. QED  BY <1>4, <3>3, <3>6
  <2>2. SpansAt(r.plans, t) = {}
    BY <2>1
  <2>3. QED  BY <2>2, SumEmpty, BookedIsSum
<1>6. AvailResourcesDuring(r.plans, at, duration) = size
  <2>1. PICK t \in at .. at + duration - 1 :
            AvailResourcesDuring(r.plans, at, duration) = size - Booked(r.plans, t)
    BY <1>1, FreeIsLeast
  <2>2. Booked(r.plans, t) = 0
    BY <1>5
  <2>3. QED  BY <2>1, <2>2
<1>7. QED  BY <1>4, <1>6

\* Where a job holds all there is, nothing is left for another at its time.
LEMMA TakenVertex ==
    ASSUME NEW r, NEW n, NEW J, NEW size \in Nat, Timed(r, n, J, size),
           NEW job, Holds(r, job), SpanOf(r, job).planned = size,
           NEW at \in Nat, NEW duration \in Nat \ {0},
           AvailResourcesDuring(r.plans, at, duration) > 0
    PROVE  ~ During(J[job], at, duration)
<1> SUFFICES ASSUME During(J[job], at, duration) PROVE FALSE
  OBVIOUS
<1> DEFINE id == PlanSpan(r, job)
           a == J[job].at
           c == J[job].jobspec.duration
<1>1. PlanWithin(r.plans, size) /\ PlannerShape(r.plans) /\ id \in DOMAIN r.plans.spans
      /\ job \in r.tags
  BY HeldSpans DEF Timed, VertexOK, VertexShape
<1>2. /\ a \in Nat /\ c \in Nat \ {0} /\ a < at + duration /\ at < a + c
      /\ r.plans.spans[id].start = a /\ r.plans.spans[id].last = a + c
  BY <1>1 DEF Timed, KeepsTime, InWindow, SpanOf, During
<1>3. r.plans.spans[id].planned = size
  BY DEF SpanOf
<1> HIDE DEF id, a, c
<1>4. PICK t \in Nat : a <= t /\ t < a + c /\ t \in at .. at + duration - 1
  BY <1>2, CommonInstant
<1>5. Booked(r.plans, t) \in Nat /\ Booked(r.plans, t) >= r.plans.spans[id].planned
  BY <1>1, <1>2, <1>4, SpanCounts
<1>6. AvailResourcesDuring(r.plans, at, duration) \in Nat
      /\ AvailResourcesDuring(r.plans, at, duration) <= size - Booked(r.plans, t)
  BY <1>1, <1>4, FreeIsLeast
<1>7. QED  BY <1>3, <1>5, <1>6

\* The checker of a vertex when a job comes and when one goes.
LEMMA CheckerBooks ==
    ASSUME NEW v \in Vertices, NEW n \in Nat \ {0}, n <= XCheckerNJobs, NEW m, NEW below,
           m.at \in Nat, m.duration \in Nat \ {0}, VertexOK(vtx[v], n),
           v \in Involved(m), PlanAccepts(v, m)
    PROVE  LET r == vtx[v]
               q == UpdSched(v, n, m, below)
           IN  /\ CheckSpan(q, n).start = m.at /\ CheckSpan(q, n).last = m.at + m.duration
               /\ \A job \in r.tags : CheckSpan(q, job) = CheckSpan(r, job)
<1> DEFINE r == vtx[v]
           q == UpdSched(v, n, m, below)
           p == r.x_checker
           id == AddedId(p, m.at, m.duration, 1)
<1>1. DOMAIN r = Fields /\ r.tags \subseteq 1 .. n - 1
  BY DEF VertexOK, VertexShape
<1>2. q.x_checker = Added(p, m.at, m.duration, 1) /\ q.x_spans = Put(r.x_spans, n, id)
  BY <1>1, UpdSchedFields
<1>3. /\ PlannerShape(p) /\ DOMAIN r.x_spans = r.tags
      /\ \A job \in r.tags : r.x_spans[job] \in DOMAIN p.spans
  BY CheckerTable
<1>4. CanAdd(p, m.at, m.duration, 1)
  BY CheckerHasRoom
<1>5. /\ q.x_checker.spans[id].start = m.at /\ q.x_checker.spans[id].last = m.at + m.duration
      /\ \A i \in DOMAIN p.spans : q.x_checker.spans[i] = p.spans[i]
  BY <1>2, <1>3, <1>4, AddedPlanner
<1>6. n \notin r.tags
  BY <1>1
<1> HIDE DEF r, q, p, id
<1>7. q.x_spans[n] = id /\ \A job \in r.tags : q.x_spans[job] = r.x_spans[job]
  BY <1>2, <1>3, <1>6 DEF Put
<1>8. p = r.x_checker
  BY DEF p
<1>9. QED  BY <1>3, <1>5, <1>7, <1>8 DEF CheckSpan, r, q

LEMMA CheckerFrees ==
    ASSUME NEW r, NEW n, VertexOK(r, n), NEW id \in r.tags
    PROVE  \A job \in r.tags \ {id} : CheckSpan(RemVertex(r, id), job) = CheckSpan(r, job)
<1> DEFINE q == RemVertex(r, id)
<1>1. /\ q.x_checker = Removed(r.x_checker, r.x_spans[id])
      /\ q.x_spans = Without(r.x_spans, id)
  BY RemVertexFields
<1>2. /\ PlannerShape(r.x_checker) /\ DOMAIN r.x_spans = r.tags
      /\ \A job \in r.tags : r.x_spans[job] \in DOMAIN r.x_checker.spans
      /\ \A i, k \in r.tags : r.x_spans[i] = r.x_spans[k] => i = k
  BY CheckerTable
<1> HIDE DEF q
<1>3. \A i \in DOMAIN r.x_checker.spans \ {r.x_spans[id]} : q.x_checker.spans[i] = r.x_checker.spans[i]
  BY <1>1, <1>2, RemovedPlanner
<1>4. \A job \in r.tags \ {id} : q.x_spans[job] = r.x_spans[job]
  BY <1>1, <1>2 DEF Without, Restrict
<1>5. QED  BY <1>2, <1>3, <1>4 DEF CheckSpan, q

-----------------------------------------------------------------------------
(* Exclusive access in a session. *)

\* Of a vertex that select() marks something is free; and it marks a vertex of a
\* type that the jobspec asks for exclusively as exclusive and in full, where
\* no other job is at that time.
LEMMA MarksAlone ==
    ASSUME SInv, jobid_counter <= XCheckerNJobs, NEW j \in Jobspecs,
           NamesExclusiveTypes(j.resources), NEW at \in Nat,
           \A u \in Vertices : Timed(vtx[u], jobid_counter, jobs, Size[u]),
           NEW v \in DOMAIN SelectAt(j, at).marks
    PROVE  LET use == SelectAt(j, at).marks[v]
           IN  /\ v \in Vertices /\ AvailResourcesDuring(vtx[v].plans, at, j.duration) > 0
               /\ Type[v] \in ExclusiveTypes(j.resources) =>
                      /\ use.exclusive /\ use.needs = Size[v]
                      /\ \A job \in vtx[v].tags : ~ During(jobs[job], at, j.duration)
<1> DEFINE duration == j.duration
           X == ExclusiveTypes(j.resources)
           free(u) == Avail(u, at, duration)
           clear(u) == \A job \in vtx[u].tags : ~ During(jobs[job], at, duration)
           fits(u, use) == /\ use.needs \in 1 .. free(u)
                           /\ Type[u] \in X => use.exclusive /\ use.needs = Size[u] /\ clear(u)
           N == [u \in Vertices |-> {use \in Uses : fits(u, use)}]
<1>1. duration \in Nat \ {0} /\ j.resources \in ResourceLists /\ jobid_counter \in Nat \ {0}
  BY JobspecAssumption DEF SInv, IInv
<1>2. ASSUME NEW u \in Vertices
      PROVE  /\ free(u) \in 0 .. Size[u] /\ Size[u] \in Nat \ {0}
             /\ AvailDuring(vtx[u].x_checker, at, duration, XCheckerNJobs) =>
                    clear(u) /\ free(u) = Size[u]
  <2>1. /\ PlannerShape(vtx[u].plans) /\ Size[u] \in Nat \ {0}
        /\ PlanWithin(vtx[u].plans, Size[u])
    BY SizeAssumption DEF SInv, IInv, VertexOK, VertexShape
  <2> HIDE DEF duration
  <2>2. free(u) \in 0 .. Size[u]
    BY <1>1, <2>1, FreeIsPart DEF Avail
  <2>3. AvailDuring(vtx[u].x_checker, at, duration, XCheckerNJobs) =>
            clear(u) /\ free(u) = Size[u]
    <3>1. Timed(vtx[u], jobid_counter, jobs, Size[u]) /\ Size[u] \in Nat
      BY <2>1
    <3>2. QED  BY <1>1, <3>1, FreeVertex DEF Avail
  <2>4. QED  BY <2>1, <2>2, <2>3
<1>3. PICK R \in SUBSET Visits :
        /\ RootVisit(j.resources) \in R
        /\ \A c \in R : \A w \in Range(Kids[c[1]]) : KidVisit(c, w) \in R
        /\ \A c \in R : Type[c[1]] \in X => Exclusivity(c[1], c[2])
  BY DEF NamesExclusiveTypes
<1>4. Type[Root] \in X => Size[Root] = 1
  BY DEF NamesExclusiveTypes
<1>5. \A u \in Vertices : \A a \in Nat : \A x \in BOOLEAN :
        [needs |-> a, exclusive |-> x] \in N[u] <=>
            /\ a \in 1 .. free(u)
            /\ Type[u] \in X => x /\ a = Size[u] /\ clear(u)
  <2> HIDE DEF free, clear, X
  <2>1. QED  BY DEF Uses
<1>6. \A u \in Vertices : \A use \in N[u] : fits(u, use)
  <2> HIDE DEF fits
  <2>1. QED  OBVIOUS
<1> HIDE DEF N
<1>7. MayTighten(N)
  <2> HIDE DEF free, clear, X
  <2>1. QED  BY <1>5 DEF MayTighten
<1>8. ASSUME NEW c \in R, ~ Pruned(c[1], c[2], at, duration)
      PROVE  [needs |-> Avail(c[1], at, duration), exclusive |-> c[3] \/ Exclusivity(c[1], c[2])]
                 \in N[c[1]]
  <2> DEFINE u == c[1]
             x == c[3] \/ Exclusivity(u, c[2])
  <2>1. u \in Vertices /\ x \in BOOLEAN
    BY KidVisits
  <2>2. free(u) # 0
    BY <1>8 DEF Pruned
  <2>3. free(u) \in 1 .. free(u) /\ free(u) \in Nat
    <3> DEFINE a == free(u)
    <3>1. a # 0 /\ a \in 0 .. Size[u] /\ Size[u] \in Nat
      BY <1>2, <2>1, <2>2
    <3> HIDE DEF a
    <3>2. a \in 1 .. a /\ a \in Nat
      BY <3>1
    <3>3. QED  BY <3>2 DEF a
  <2>4. ASSUME Type[u] \in X PROVE x /\ free(u) = Size[u] /\ clear(u)
    <3>1. Exclusivity(u, c[2])
      BY <1>3, <2>4
    <3>2. AvailDuring(vtx[u].x_checker, at, duration, XCheckerNJobs)
      BY <1>8, <3>1 DEF Pruned, Exclusivity
    <3>3. QED  BY <1>2, <2>1, <3>1, <3>2
  <2> HIDE DEF u, x, X, clear
  <2>5. [needs |-> free(u), exclusive |-> x] \in N[u]
    BY <1>5, <2>1, <2>3, <2>4
  <2>6. QED  BY <2>5 DEF u, x
<1>9. Walks(R, N, at, duration)
  BY <1>3, <1>7, <1>8 DEF Walks
<1>10. RootShares(N)
  <2> SUFFICES ASSUME NEW a \in Nat, NEW x \in BOOLEAN, [needs |-> a, exclusive |-> x] \in N[Root],
                      NEW n \in 1 .. a
               PROVE  a >= 1 /\ [needs |-> n, exclusive |-> x] \in N[Root]
    <3>1. ASSUME NEW a \in Nat, NEW x \in BOOLEAN, [needs |-> a, exclusive |-> x] \in N[Root]
          PROVE  a >= 1
      <4>1. a \in 1 .. free(Root)
        BY <1>5, <3>1, GraphAssumption
      <4>2. QED  BY <4>1
    <3>2. QED  BY <3>1 DEF RootShares
  <2>1. Root \in Vertices /\ free(Root) \in Nat
    BY <1>2, GraphAssumption
  <2> HIDE DEF free, X, clear
  <2>2. a \in 1 .. free(Root) /\ (Type[Root] \in X => x /\ a = Size[Root] /\ clear(Root))
    BY <1>5, <2>1
  <2>3. n \in Nat /\ n \in 1 .. free(Root) /\ a >= 1
    BY <2>1, <2>2
  <2>4. Type[Root] \in X => x /\ n = Size[Root] /\ clear(Root)
    BY <1>4, <2>2
  <2>5. QED  BY <1>5, <2>1, <2>3, <2>4
<1>11. SelectAt(j, at).marks \in AllMarks(N)
  <2>1. \A u \in Vertices : Avail(u, at, duration) \in Nat
    BY <1>2
  <2> HIDE DEF X
  <2>2. Select(j.resources, at, duration).marks \in AllMarks(N)
    BY <1>1, <1>3, <1>9, <1>10, <2>1, SelectMarks
  <2>3. QED  BY <2>2 DEF SelectAt
<1> DEFINE use == SelectAt(j, at).marks[v]
<1>12. v \in Vertices /\ use \in N[v]
  BY <1>11 DEF AllMarks
<1>13. fits(v, use)
  <2> HIDE DEF fits, use
  <2>1. QED  BY <1>6, <1>12
<1>14. free(v) > 0
  BY <1>13, <1>2, <1>12
<1>15. QED  BY <1>12, <1>13, <1>14 DEF Avail

\* Only what the session says of the jobs at a vertex matters there.
LEMMA AloneOfTags ==
    ASSUME NEW r, NEW u, NEW J, VertexAlone(r, J, u), NEW K, \A job \in r.tags : K[job] = J[job]
    PROVE  VertexAlone(r, K, u)
BY DEF VertexAlone, KeepsTime, Alone, OverlapIn

LEMMA SInvTimes ==
    ASSUME SInv, \A u \in Vertices : VertexAlone(vtx[u], jobs, u)
    PROVE  /\ \A u \in Vertices : Timed(vtx[u], jobid_counter, jobs, Size[u])
           /\ \A u \in Vertices : vtx[u].tags \subseteq DOMAIN jobs
<1>1. ASSUME NEW u \in Vertices, NEW job \in vtx[u].tags
      PROVE  /\ job \in DOMAIN jobs /\ jobs[job].at \in Nat
             /\ jobs[job].jobspec.duration \in Nat \ {0}
  <2>1. job \in Active
    BY <1>1 DEF SInv, TagsLeadToBookings
  <2>2. job \in DOMAIN jobs
    BY <2>1 DEF SInv, JobTables, Active
  <2>3. QED  BY <2>2, JobspecAssumption DEF SInv, JobTables
<1>2. ASSUME NEW u \in Vertices
      PROVE  Timed(vtx[u], jobid_counter, jobs, Size[u])
  BY <1>1 DEF Timed, VertexAlone, SInv, IInv
<1>3. QED  BY <1>1, <1>2

\* A vertex that a match books for, or above one.
LEMMA MatchAlone ==
    ASSUME SInv, \A u \in Vertices : VertexAlone(vtx[u], jobs, u),
           jobid_counter <= XCheckerNJobs, NEW j \in Jobspecs, NamesExclusiveTypes(j.resources),
           NEW m, Books(m, j), m.marks = SelectAt(j, m.at).marks, NEW v \in Involved(m),
           NEW J, J[jobid_counter].at = m.at, J[jobid_counter].jobspec = j,
           \A job \in vtx[v].tags : J[job] = jobs[job]
    PROVE  VertexAlone(vtx'[v], J, v)
<1> DEFINE r == vtx[v]
           q == vtx'[v]
           n == jobid_counter
           use == m.marks[v]
           X == ExclusiveTypes(j.resources)
<1>1. v \in Vertices /\ v \in DOMAIN m.marks /\ v \in Reached(m)
  <2>1. PICK w \in Picked(m) : v \in Path[w]
    BY DEF Involved
  <2>2. w \in Vertices /\ Path[w] \subseteq DOMAIN m.marks
    BY DEF Picked, Reached
  <2>3. v \in Vertices /\ Path[v] \subseteq Path[w] /\ v \in Path[v]
    BY <2>1, <2>2, PathsNest, OnOwnPath
  <2>4. QED  BY <2>2, <2>3 DEF Reached
<1>2. /\ m.at \in Nat /\ m.duration = j.duration /\ j.duration \in Nat \ {0}
      /\ PlanAccepts(v, m)
  BY DEF Books, PlanAccepts
<1>3. /\ n \in Nat \ {0} /\ VertexOK(r, n) /\ ~ Holds(r, n) /\ n \notin r.tags
  BY <1>1, FreshJob DEF SInv, IInv, VertexOK, VertexShape
<1>4. /\ Timed(r, n, jobs, Size[v]) /\ Size[v] \in Nat
      /\ \A u \in Vertices : Timed(vtx[u], jobid_counter, jobs, Size[u])
  BY <1>1, SInvTimes, SizeAssumption
<1>5. /\ AvailResourcesDuring(r.plans, m.at, j.duration) > 0
      /\ Type[v] \in X =>
             /\ use.exclusive /\ use.needs = Size[v]
             /\ \A job \in r.tags : ~ During(jobs[job], m.at, j.duration)
  BY <1>1, <1>2, <1>4, MarksAlone
<1>6. PICK dfu : vtx' = [w \in Vertices |-> UpdSched(w, n, m, dfu[w])]
  BY DEF Books, UpdDfv
<1>7. /\ CheckSpan(q, n).start = m.at /\ CheckSpan(q, n).last = m.at + m.duration
      /\ \A job \in r.tags : CheckSpan(q, job) = CheckSpan(r, job)
  <2>1. q = UpdSched(v, n, m, dfu[v])
    BY <1>1, <1>6
  <2> HIDE DEF q, n
  <2>2. n <= XCheckerNJobs
    BY DEF n
  <2>3. QED  BY <1>1, <1>2, <1>3, <2>1, <2>2, CheckerBooks
<1>8. Grants(v, Picked(m), m.at, j.duration, [x \in Vertices |-> m.marks[x].needs])
  BY <1>1, BooksGrants
<1>9. /\ \A job : Holds(q, job) <=> Holds(r, job) \/ (job = n /\ v \in Picked(m))
      /\ \A job : Holds(r, job) => SpanOf(q, job) = SpanOf(r, job)
      /\ v \in Picked(m) => /\ SpanOf(q, n).start = m.at /\ SpanOf(q, n).last = m.at + j.duration
                            /\ SpanOf(q, n).planned = use.needs
      /\ q.tags = r.tags \cup {n}
  <2>1. \E x \in Picked(m) : v \in Path[x]
    BY DEF Involved
  <2>2. [x \in Vertices |-> m.marks[x].needs][v] = use.needs
    BY <1>1
  <2>3. QED  BY <1>8, <2>1, <2>2 DEF Grants
<1>10. Type[v] \in X => v \in Picked(m)
  BY <1>1, <1>5 DEF Picked
<1>11. /\ J[n].at = m.at /\ J[n].jobspec = j
       /\ \A job \in r.tags : /\ J[job] = jobs[job] /\ job # n
                              /\ KeepsTime(r, jobs, job) /\ Alone(r, jobs, v, job)
  BY <1>1, <1>3 DEF VertexAlone
<1> HIDE DEF r, q, n, use, X
<1>12. ASSUME NEW job \in r.tags
       PROVE  KeepsTime(q, J, job) /\ Alone(q, J, v, job)
  <2>1. KeepsTime(q, J, job)
    BY <1>7, <1>9, <1>11 DEF KeepsTime
  <2>2. ASSUME Type[v] \in ExclusiveTypes(jobs[job].jobspec.resources)
        PROVE  /\ Holds(r, job) /\ SpanOf(r, job).planned = Size[v]
               /\ \A b \in r.tags \ {job} : ~ OverlapIn(J, job, b)
               /\ ~ OverlapIn(J, job, n)
    <3>1. /\ Holds(r, job) /\ SpanOf(r, job).planned = Size[v]
          /\ \A b \in r.tags \ {job} : ~ OverlapIn(jobs, job, b)
      BY <1>11, <2>2 DEF Alone
    <3>2. ~ During(jobs[job], m.at, j.duration)
      BY <1>2, <1>4, <1>5, <3>1, TakenVertex
    <3>3. QED  BY <1>11, <3>1, <3>2 DEF OverlapIn, During
  <2>3. Alone(q, J, v, job)
    BY <1>9, <1>11, <2>2 DEF Alone
  <2>4. QED  BY <2>1, <2>3
<1>13. KeepsTime(q, J, n)
  BY <1>2, <1>3, <1>7, <1>9, <1>11 DEF KeepsTime, InWindow, r, n
<1>14. Alone(q, J, v, n)
  <2> SUFFICES ASSUME Type[v] \in X
               PROVE  /\ Holds(q, n) /\ SpanOf(q, n).planned = Size[v]
                      /\ \A b \in q.tags \ {n} : ~ OverlapIn(J, n, b)
    BY <1>11 DEF Alone, X
  <2>1. Holds(q, n) /\ SpanOf(q, n).planned = Size[v]
    BY <1>5, <1>9, <1>10
  <2>2. \A b \in r.tags : ~ OverlapIn(J, n, b)
    BY <1>5, <1>11 DEF OverlapIn, During
  <2>3. QED  BY <1>9, <2>1, <2>2
<1>15. VertexAlone(q, J, v)
  BY <1>9, <1>12, <1>13, <1>14 DEF VertexAlone
<1>16. QED  BY <1>15 DEF q

\* A vertex that a cancelled job was at.
LEMMA CancelAlone ==
    ASSUME NEW v \in Vertices, NEW n, VertexOK(vtx[v], n), NEW id \in vtx[v].tags,
           VertexAlone(vtx[v], jobs, v), Frees(v, id), vtx'[v] = RemVertex(vtx[v], id),
           NEW J, \A job \in vtx[v].tags \ {id} : J[job] = jobs[job]
    PROVE  VertexAlone(vtx'[v], J, v)
<1> DEFINE r == vtx[v]
           q == vtx'[v]
<1>1. /\ \A job : Holds(q, job) <=> Holds(r, job) /\ job # id
      /\ \A job : Holds(q, job) => SpanOf(q, job) = SpanOf(r, job)
      /\ q.tags = r.tags \ {id}
  BY DEF Frees
<1>2. \A job \in r.tags \ {id} : CheckSpan(q, job) = CheckSpan(r, job)
  BY CheckerFrees
<1>3. \A job \in r.tags \ {id} : J[job] = jobs[job]
  OBVIOUS
<1>4. \A job \in r.tags : KeepsTime(r, jobs, job) /\ Alone(r, jobs, v, job)
  BY DEF VertexAlone
<1> HIDE DEF r, q
<1>5. ASSUME NEW job \in q.tags PROVE KeepsTime(q, J, job) /\ Alone(q, J, v, job)
  <2>1. job \in r.tags \ {id}
    BY <1>1
  <2>2. KeepsTime(q, J, job)
    BY <1>1, <1>2, <1>3, <1>4, <2>1 DEF KeepsTime
  <2>3. \A b \in q.tags : OverlapIn(J, job, b) <=> OverlapIn(jobs, job, b)
    BY <1>1, <1>3, <2>1 DEF OverlapIn
  <2>4. Alone(q, J, v, job)
    BY <1>1, <1>3, <1>4, <2>1, <2>3 DEF Alone
  <2>5. QED  BY <2>2, <2>4
<1>6. QED  BY <1>5 DEF VertexAlone, q

LEMMA NextXInv ==
    ASSUME MaxJobs <= XCheckerNJobs, \A j \in Jobspecs : NamesExclusiveTypes(j.resources),
           XInv, [Next]_vars
    PROVE  XInv'
<1>1. SInv' /\ SInv /\ \A u \in Vertices : VertexAlone(vtx[u], jobs, u)
  BY NextSInv DEF XInv
<1>2. \A u \in Vertices : vtx[u].tags \subseteq DOMAIN jobs
  BY <1>1, SInvTimes
<1>3. SUFFICES ASSUME NEW v \in Vertices PROVE VertexAlone(vtx'[v], jobs', v)
  BY <1>1 DEF XInv, VertexAlone, KeepsTime, CheckSpan, InWindow, Alone, OverlapIn, Holds,
              SpanOf, PlanSpan
<1>4. ASSUME NEW j \in Jobspecs, NEW op \in {"allocate", "allocate_orelse_reserve"},
             CmdMatch(j, op)
      PROVE  VertexAlone(vtx'[v], jobs', v)
  <2>1. jobid_counter <= MaxJobs /\ jobid_counter' = jobid_counter + 1
        /\ jobid_counter \in Nat \ {0} /\ JobTables
    BY <1>1, <1>4 DEF CmdMatch, CanMatch, SInv, IInv
  <2>2. jobid_counter <= XCheckerNJobs
    BY <2>1, JobspecAssumption, SizeAssumption
  <2>3. PICK m : /\ Books(m, j)
                 /\ \E at \in ScheduleTimes(j, op) \ {NoTime} :
                        m = Selection(j, at, SelectAt(j, at).marks)
    BY <1>1, <1>4, MatchBooks
  <2>4. m.marks = SelectAt(j, m.at).marks
    BY <2>3 DEF Selection
  <2>5. m.at \in Nat /\ RecordJob(j, m.at)
    BY <2>3 DEF Books
  <2>6. /\ jobs'[jobid_counter].at = m.at /\ jobs'[jobid_counter].jobspec = j
        /\ \A job \in DOMAIN jobs : jobs'[job] = jobs[job]
    <3>1. jobs'[jobid_counter].jobspec = j
      BY <2>5 DEF RecordJob, Put
    <3>2. QED  BY <2>1, <2>5, <3>1, RecordJobTables
  <2>7. \A job \in vtx[v].tags : jobs'[job] = jobs[job]
    BY <1>2, <2>6
  <2>8. CASE v \in Involved(m)
    BY <1>1, <2>2, <2>3, <2>4, <2>6, <2>7, <2>8, MatchAlone
  <2>9. CASE v \notin Involved(m)
    <3>1. PICK dfu : vtx' = [w \in Vertices |-> UpdSched(w, jobid_counter, m, dfu[w])]
      BY <2>3 DEF Books, UpdDfv
    <3>2. vtx'[v] = vtx[v]
      BY <2>9, <3>1 DEF UpdSched
    <3>3. VertexAlone(vtx[v], jobs', v)
      BY <1>1, <2>7, AloneOfTags
    <3>4. QED  BY <3>2, <3>3
  <2>10. QED  BY <2>8, <2>9
<1>5. ASSUME NEW id \in DOMAIN jobs, CmdCancel(id)
      PROVE  VertexAlone(vtx'[v], jobs', v)
  <2>1. id \in Active
    BY <1>5 DEF CmdCancel, Active
  <2>2. /\ Forget(id) /\ UNCHANGED jobid_counter
        /\ vtx'[v] = IF id \in vtx[v].tags THEN RemVertex(vtx[v], id) ELSE vtx[v]
    BY <1>1, <1>5, <2>1, CancelRemoves
  <2>3. Frees(v, id)
    BY <1>1, <1>5, <2>1, CancelStep
  <2>4. \A i \in DOMAIN jobs : i # id => jobs'[i] = jobs[i]
    BY <1>1, <2>1, <2>2, ForgetTables DEF SInv, Active
  <2>5. \A job \in vtx[v].tags \ {id} : jobs'[job] = jobs[job]
    BY <1>2, <2>4
  <2>6. CASE id \in vtx[v].tags
    <3>1. VertexOK(vtx[v], jobid_counter) /\ VertexAlone(vtx[v], jobs, v)
      BY <1>1 DEF SInv, IInv
    <3>2. vtx'[v] = RemVertex(vtx[v], id)
      BY <2>2, <2>6
    <3>3. QED  BY <2>3, <2>5, <2>6, <3>1, <3>2, CancelAlone
  <2>7. CASE id \notin vtx[v].tags
    <3>1. VertexAlone(vtx[v], jobs', v)
      BY <1>1, <2>5, <2>7, AloneOfTags
    <3>2. QED  BY <2>2, <2>7, <3>1
  <2>8. QED  BY <2>6, <2>7
<1>6. CASE UNCHANGED <<vtx, session>>
  BY <1>1, <1>6 DEF session
<1>7. ASSUME NEW j \in Jobspecs, NEW op \in {"allocate", "allocate_orelse_reserve"},
             CmdMatchFails(j, op) \/ CmdMatchAstray(j, op)
      PROVE  VertexAlone(vtx'[v], jobs', v)
  BY <1>6, <1>7 DEF CmdMatchFails, CmdMatchAstray
<1>8. CASE UNCHANGED vars
  BY <1>6, <1>8 DEF vars
<1>9. QED  BY <1>4, <1>5, <1>7, <1>8 DEF Next

\* Who asks for exclusive access gets it: where a job has a vertex of a type
\* that its jobspec names exclusively, on the way or as its own, the vertex is
\* booked for it in full and no job of the same time is at or below it, neither
\* one that was there before (prune() asks the exclusivity checker) nor one that
\* comes later (prune() finds nothing left).  A jobspec has to name such a type
\* wherever the walk meets it: of a type that it leaves out select() takes all
\* there are, without asking the checker.
THEOREM ExclusiveJobsAreAlone ==
    ASSUME MaxJobs <= XCheckerNJobs, \A j \in Jobspecs : NamesExclusiveTypes(j.resources)
    PROVE  Spec => []ExclusiveAlone
<1>1. Init => XInv
  <2>1. Init => \A u \in Vertices : vtx[u].tags = {}
    BY DEF Init, InitVertices, Unused
  <2>2. QED  BY <2>1, InitSInv DEF XInv, VertexAlone
<1>2. XInv /\ [Next]_vars => XInv'
  BY NextXInv
<1>3. XInv => ExclusiveAlone
  BY DEF XInv, VertexAlone, Alone, ExclusiveAlone, Holds, HasBooking, OverlapIn, Overlap
<1>4. QED  BY <1>1, <1>2, <1>3, PTL DEF Spec
=============================================================================
