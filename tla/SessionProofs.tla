---------------------------- MODULE SessionProofs -----------------------------
(*****************************************************************************)
(* Proofs about a session of resource-query, for every graph, every set of   *)
(* jobspecs and every policy. For the first part it does not matter what a   *)
(* match finds: whatever marks the walk leaves, an update and a removal keep *)
(* the tables of every vertex in step with its planners. The invariant adds  *)
(* to TablesAgree that job ids and span ids are fresh when they are given    *)
(* out, and that the exclusivity checker always has room for one job more:   *)
(* it has one span of one per job, and fewer jobs than X_CHECKER_NJOBS. The  *)
(* second part is about the walk.                                            *)
(*****************************************************************************)
EXTENDS ResourceQuery, SelectionProofs

IsSpan(s) == s = [start |-> s.start, last |-> s.last, planned |-> s.planned]

PlannerShape(p) ==
    /\ DOMAIN p = {"total", "counter", "spans"}
    /\ p.counter \in Nat
    /\ DOMAIN p.spans \subseteq 1 .. p.counter
    /\ \A id \in DOMAIN p.spans : p.spans[id].start \in Nat /\ p.spans[id].last \in Nat
    /\ \A id \in DOMAIN p.spans : IsSpan(p.spans[id])

Fields == {"plans", "x_checker", "subplan", "tags", "x_spans",
           "allocations", "reservations", "job2span"}

\* A vertex before job n comes: the shape of its data, ids that are in use and
\* a checker that counts jobs.
VertexShape(r, n) ==
    /\ DOMAIN r = Fields
    /\ PlannerShape(r.plans) /\ PlannerShape(r.x_checker) /\ PlannerShape(r.subplan)
    /\ r.x_checker.total = XCheckerNJobs
    /\ \A id \in DOMAIN r.x_checker.spans : r.x_checker.spans[id].planned = 1
    /\ r.tags \subseteq 1 .. n - 1
    /\ DOMAIN r.job2span \subseteq 1 .. n - 1

VertexOK(r, n) == VertexShape(r, n) /\ VertexTablesAgree(r)

IInv ==
    /\ jobid_counter \in Nat \ {0}
    /\ DOMAIN vtx = Vertices
    /\ \A u \in Vertices : VertexOK(vtx[u], jobid_counter)

-----------------------------------------------------------------------------
(* Planners as values. *)

Planned(p) == [id \in DOMAIN p.spans |-> p.spans[id].planned]

\* The sum that the planner's contract adds up, as a sum of module DataLemmas.
LEMMA BookedIsSum ==
    ASSUME NEW p, NEW t
    PROVE  Booked(p, t) = Sum(Planned(p), SpansAt(p, t))
<1> DEFINE S == SpansAt(p, t)
           Q(h) == h = [s \in SUBSET S |->
                          IF s = {} THEN 0
                          ELSE p.spans[CHOOSE x \in s : TRUE].planned
                                 + h[s \ {CHOOSE x \in s : TRUE}]]
<1>1. Booked(p, t) = (CHOOSE h : Q(h))[S]
  BY DEF Booked, MapThenSumSet, MapThenFoldSet
<1>2. Sum(Planned(p), S) = (CHOOSE h : IsSum(h, Planned(p), S))[S]
  BY DEF Sum, SumFunctionOnSet, FoldFunctionOnSet, MapThenFoldSet, IsSum
<1>3. \A s \in SUBSET S : s # {} =>
          Planned(p)[CHOOSE x \in s : TRUE] = p.spans[CHOOSE x \in s : TRUE].planned
  <2>1. ASSUME NEW s \in SUBSET S, s # {} PROVE (CHOOSE x \in s : TRUE) \in DOMAIN p.spans
    BY <2>1 DEF SpansAt
  <2>2. QED  BY <2>1 DEF Planned
<1>4. ASSUME NEW h PROVE Q(h) <=> IsSum(h, Planned(p), S)
  <2> DEFINE e(s) == IF s = {} THEN 0
                     ELSE p.spans[CHOOSE x \in s : TRUE].planned
                            + h[s \ {CHOOSE x \in s : TRUE}]
             f(s) == IF s = {} THEN 0
                     ELSE Planned(p)[CHOOSE x \in s : TRUE] + h[s \ {CHOOSE x \in s : TRUE}]
  <2>1. \A s \in SUBSET S : e(s) = f(s)
    BY <1>3
  <2>2. /\ Q(h) <=> h = [s \in SUBSET S |-> e(s)]
        /\ IsSum(h, Planned(p), S) <=> h = [s \in SUBSET S |-> f(s)]
    BY DEF IsSum
  <2> HIDE DEF e, f
  <2>3. [s \in SUBSET S |-> e(s)] = [s \in SUBSET S |-> f(s)]
    BY <2>1
  <2>4. QED  BY <2>2, <2>3
<1>5. (CHOOSE h : Q(h)) = (CHOOSE h : IsSum(h, Planned(p), S))
  <2> HIDE DEF Q
  <2>1. QED  BY <1>4
<1>6. QED  BY <1>1, <1>2, <1>5

LEMMA SpansFinite ==
    ASSUME NEW p, PlannerShape(p)
    PROVE  /\ IsFiniteSet(DOMAIN p.spans)
           /\ \A t : IsFiniteSet(SpansAt(p, t)) /\ SpansAt(p, t) \subseteq DOMAIN p.spans
<1>1. p.counter \in Int /\ DOMAIN p.spans \in SUBSET (1 .. p.counter)
  BY DEF PlannerShape
<1>2. IsFiniteSet(1 .. p.counter)
  BY <1>1, FS_Interval
<1>3. IsFiniteSet(DOMAIN p.spans)
  BY <1>1, <1>2, FS_Subset
<1>4. QED  BY <1>3, FS_Subset DEF SpansAt

\* Where every span books one, as many are booked as there are spans.
LEMMA BookedOnes ==
    ASSUME NEW p, PlannerShape(p), \A id \in DOMAIN p.spans : p.spans[id].planned = 1, NEW t
    PROVE  Booked(p, t) \in Nat /\ Booked(p, t) <= Cardinality(DOMAIN p.spans)
<1>1. /\ IsFiniteSet(DOMAIN p.spans) /\ IsFiniteSet(SpansAt(p, t))
      /\ SpansAt(p, t) \subseteq DOMAIN p.spans
  BY SpansFinite
<1>2. \A id \in SpansAt(p, t) : Planned(p)[id] = 1
  BY <1>1 DEF Planned
<1>3. Booked(p, t) = Cardinality(SpansAt(p, t))
  BY <1>1, <1>2, SumOfOnes, BookedIsSum
<1>4. QED  BY <1>1, <1>3, FS_Subset, FS_CardinalityType

\* A planner takes what is free at every instant of the time asked for.
LEMMA AddsWhatFits ==
    ASSUME NEW p, NEW at \in Nat, NEW duration \in Nat \ {0}, NEW count \in Nat \ {0},
           p.total \in Nat,
           \A t \in at .. at + duration - 1 : Booked(p, t) \in Nat /\ Booked(p, t) + count <= p.total
    PROVE  CanAdd(p, at, duration, count)
<1> DEFINE W == at .. at + duration - 1
           free(t) == p.total - Booked(p, t)
           S == {free(t) : t \in W}
<1>1. \A t \in W : free(t) \in Nat /\ count <= free(t)
  <2> SUFFICES ASSUME NEW t \in W PROVE free(t) \in Nat /\ count <= free(t)
    OBVIOUS
  <2>1. Booked(p, t) \in Nat /\ Booked(p, t) + count <= p.total
    OBVIOUS
  <2>2. QED  BY <2>1
<1>2. at \in W
  OBVIOUS
<1>3. AvailResourcesDuring(p, at, duration) = Min(S)
  BY DEF AvailResourcesDuring
<1> HIDE DEF W, free
<1>4. S \in SUBSET Nat /\ S # {} /\ \A x \in S : count <= x
  BY <1>1, <1>2
<1>5. Min(S) \in S
  BY <1>4, LeastElement
<1>6. count <= Min(S)
  BY <1>4, <1>5
<1>7. QED  BY <1>3, <1>6 DEF CanAdd, AvailDuring

\* What planner_add_span leaves if it succeeds, and planner_rem_span of a span.
LEMMA AddedPlanner ==
    ASSUME NEW p, PlannerShape(p), NEW at \in Nat, NEW duration \in Nat, NEW count,
           CanAdd(p, at, duration, count)
    PROVE  LET id == AddedId(p, at, duration, count)
               q  == Added(p, at, duration, count)
           IN  /\ id \in Nat \ {0} /\ id # NoSpan /\ id \notin DOMAIN p.spans
               /\ PlannerShape(q) /\ q.total = p.total
               /\ DOMAIN q.spans = DOMAIN p.spans \cup {id}
               /\ q.spans[id].start = at /\ q.spans[id].last = at + duration
               /\ q.spans[id].planned = count
               /\ \A i \in DOMAIN p.spans : q.spans[i] = p.spans[i]
<1> DEFINE id == p.counter + 1
           q  == Added(p, at, duration, count)
           new == [start |-> at, last |-> at + duration, planned |-> count]
<1>1. /\ p.counter \in Nat /\ DOMAIN p.spans \subseteq 1 .. p.counter
      /\ DOMAIN p = {"total", "counter", "spans"}
      /\ \A i \in DOMAIN p.spans : /\ p.spans[i].start \in Nat /\ p.spans[i].last \in Nat
                                   /\ IsSpan(p.spans[i])
  BY DEF PlannerShape
<1>2. AddedId(p, at, duration, count) = id
  BY DEF AddedId
<1>3. q = [p EXCEPT !.counter = id,
                    !.spans = [i \in DOMAIN p.spans \cup {id} |->
                                  IF i = id THEN new ELSE p.spans[i]]]
  BY DEF Added
<1>4. id \in Nat \ {0} /\ id # NoSpan /\ id \notin DOMAIN p.spans
  BY <1>1 DEF NoSpan
<1>5. /\ DOMAIN q = {"total", "counter", "spans"} /\ q.total = p.total /\ q.counter = id
      /\ q.spans = [i \in DOMAIN p.spans \cup {id} |-> IF i = id THEN new ELSE p.spans[i]]
  BY <1>1, <1>3
<1>6. /\ DOMAIN q.spans = DOMAIN p.spans \cup {id} /\ q.spans[id] = new
      /\ \A i \in DOMAIN p.spans : q.spans[i] = p.spans[i]
  BY <1>4, <1>5
<1>7. DOMAIN q.spans \subseteq 1 .. q.counter
  BY <1>1, <1>5, <1>6
<1>8. \A i \in DOMAIN q.spans : /\ q.spans[i].start \in Nat /\ q.spans[i].last \in Nat
                                /\ IsSpan(q.spans[i])
  <2>1. new.start \in Nat /\ new.last \in Nat /\ IsSpan(new)
    BY DEF IsSpan
  <2> HIDE DEF new, q
  <2>2. QED  BY <1>1, <1>6, <2>1
<1>9. PlannerShape(q)
  BY <1>4, <1>5, <1>7, <1>8 DEF PlannerShape
<1>10. new.start = at /\ new.last = at + duration /\ new.planned = count
  OBVIOUS
<1> HIDE DEF new, q, id
<1>11. QED  BY <1>2, <1>4, <1>5, <1>6, <1>9, <1>10 DEF q

LEMMA RemovedPlanner ==
    ASSUME NEW p, PlannerShape(p), NEW id
    PROVE  LET q == Removed(p, id)
           IN  /\ PlannerShape(q) /\ q.total = p.total
               /\ DOMAIN q.spans = DOMAIN p.spans \ {id}
               /\ \A i \in DOMAIN q.spans : q.spans[i] = p.spans[i]
BY DEF PlannerShape, Removed, Restrict

-----------------------------------------------------------------------------
(* One-to-one tables. *)

LEMMA TableGrows ==
    ASSUME NEW S, NEW T, NEW f \in Bijection(S, T), NEW x, x \notin S, NEW y, y \notin T,
           NEW g, g = [i \in S \cup {x} |-> IF i = x THEN y ELSE f[i]]
    PROVE  g \in Bijection(S \cup {x}, T \cup {y})
<1>1. /\ f \in [S -> T]
      /\ \A a, b \in S : f[a] = f[b] => a = b
      /\ \A t \in T : \E s \in S : f[s] = t
  BY DEF Bijection, Injection, Surjection, IsInjective
<1>2. /\ DOMAIN g = S \cup {x} /\ g[x] = y /\ \A i \in S : g[i] = f[i]
      /\ g \in [S \cup {x} -> T \cup {y}]
  BY <1>1
<1>3. \A a, b \in S \cup {x} : g[a] = g[b] => a = b
  BY <1>1, <1>2
<1>4. \A t \in T \cup {y} : \E s \in S \cup {x} : g[s] = t
  BY <1>1, <1>2
<1>5. QED  BY <1>2, <1>3, <1>4 DEF Bijection, Injection, Surjection, IsInjective

LEMMA TableShrinks ==
    ASSUME NEW S, NEW T, NEW f \in Bijection(S, T), NEW x \in S,
           NEW g, g = [i \in S \ {x} |-> f[i]]
    PROVE  f[x] \in T /\ g \in Bijection(S \ {x}, T \ {f[x]})
<1>1. /\ f \in [S -> T]
      /\ \A a, b \in S : f[a] = f[b] => a = b
      /\ \A t \in T : \E s \in S : f[s] = t
  BY DEF Bijection, Injection, Surjection, IsInjective
<1>2. DOMAIN g = S \ {x} /\ \A i \in S \ {x} : g[i] = f[i]
  OBVIOUS
<1>3. g \in [S \ {x} -> T \ {f[x]}]
  BY <1>1
<1>4. \A t \in T \ {f[x]} : \E s \in S \ {x} : g[s] = t
  BY <1>1, <1>2
<1>5. \A a, b \in S \ {x} : g[a] = g[b] => a = b
  BY <1>1, <1>2
<1>6. QED  BY <1>1, <1>2, <1>3, <1>4, <1>5 DEF Bijection, Injection, Surjection, IsInjective

\* The two tables of a vertex's own plan, as one.
PlanTable(r) ==
    [job \in DOMAIN r.allocations \cup DOMAIN r.reservations |-> PlanSpan(r, job)]

\* The entries of job2span that are in use.
SubplanTable(r) == Restrict(r.job2span, DOMAIN r.job2span \cap r.tags)

LEMMA TablesAgreeMeans ==
    ASSUME NEW r
    PROVE  VertexTablesAgree(r) <=>
             /\ DOMAIN r.allocations \cap DOMAIN r.reservations = {}
             /\ DOMAIN PlanTable(r) \subseteq r.tags
             /\ r.x_spans \in Bijection(r.tags, DOMAIN r.x_checker.spans)
             /\ PlanTable(r) \in Bijection(DOMAIN PlanTable(r), DOMAIN r.plans.spans)
             /\ SubplanTable(r) \in Bijection(DOMAIN SubplanTable(r), DOMAIN r.subplan.spans)
BY DEF VertexTablesAgree, PlanTable, SubplanTable

-----------------------------------------------------------------------------
(* upd_sched at one vertex. *)

\* The exclusivity checker has room for one more job.
LEMMA CheckerHasRoom ==
    ASSUME NEW r, NEW n \in Nat \ {0}, n <= XCheckerNJobs, VertexOK(r, n),
           NEW at \in Nat, NEW duration \in Nat \ {0}
    PROVE  CanAdd(r.x_checker, at, duration, 1)
<1> DEFINE p == r.x_checker
<1>1. /\ PlannerShape(p) /\ p.total = XCheckerNJobs /\ XCheckerNJobs \in Nat
      /\ \A id \in DOMAIN p.spans : p.spans[id].planned = 1
      /\ r.tags \in SUBSET (1 .. n - 1)
      /\ r.x_spans \in Surjection(r.tags, DOMAIN p.spans)
  BY SizeAssumption DEF VertexOK, VertexShape, VertexTablesAgree, Bijection
<1>2. IsFiniteSet(1 .. n - 1) /\ Cardinality(1 .. n - 1) = n - 1
  <2>1. n - 1 \in Nat /\ 1 \in Int
    OBVIOUS
  <2>2. QED  BY <2>1, FS_Interval
<1>3. /\ IsFiniteSet(r.tags) /\ Cardinality(r.tags) <= n - 1
      /\ Cardinality(r.tags) \in Nat
  BY <1>1, <1>2, FS_Subset, FS_CardinalityType
<1>4. Cardinality(DOMAIN p.spans) <= Cardinality(r.tags) /\ IsFiniteSet(DOMAIN p.spans)
  BY <1>1, <1>3, FS_Surjection
<1>5. Cardinality(DOMAIN p.spans) \in Nat
  BY <1>4, FS_CardinalityType
<1>6. \A t : Booked(p, t) \in Nat /\ Booked(p, t) <= Cardinality(DOMAIN p.spans)
  BY <1>1, BookedOnes
<1> HIDE DEF p
<1>7. \A t : Booked(p, t) \in Nat /\ Booked(p, t) + 1 <= p.total
  BY <1>1, <1>3, <1>4, <1>5, <1>6
<1>8. CanAdd(p, at, duration, 1)
  BY <1>1, <1>7, AddsWhatFits
<1>9. QED  BY <1>8 DEF p

\* What upd_sched leaves at a vertex that has something booked at or below it.
LEMMA UpdSchedFields ==
    ASSUME NEW v, NEW job, NEW m, NEW below,
           v \in Involved(m), PlanAccepts(v, m), DOMAIN vtx[v] = Fields
    PROVE  LET r == vtx[v]
               q == UpdSched(v, job, m, below)
               needs == m.marks[v].needs
               id == AddedId(r.plans, m.at, m.duration, needs)
               sub == AddedId(r.subplan, m.at, m.duration, below)
           IN  /\ DOMAIN q = Fields
               /\ q.tags = r.tags \cup {job}
               /\ q.x_checker = Added(r.x_checker, m.at, m.duration, 1)
               /\ q.x_spans = Put(r.x_spans, job, AddedId(r.x_checker, m.at, m.duration, 1))
               /\ q.plans = IF v \in Picked(m) THEN Added(r.plans, m.at, m.duration, needs)
                            ELSE r.plans
               /\ q.allocations = IF v \in Picked(m) /\ m.allocate THEN Put(r.allocations, job, id)
                                  ELSE r.allocations
               /\ q.reservations = IF v \in Picked(m) /\ ~ m.allocate
                                   THEN Put(r.reservations, job, id) ELSE r.reservations
               /\ q.subplan = IF SubplanUsed(v, below)
                              THEN Added(r.subplan, m.at, m.duration, below) ELSE r.subplan
               /\ q.job2span = IF SubplanUsed(v, below) /\ sub # NoSpan
                               THEN Put(r.job2span, job, sub) ELSE r.job2span
<1> DEFINE r == vtx[v]
           needs == m.marks[v].needs
           id == AddedId(r.plans, m.at, m.duration, needs)
           sub == AddedId(r.subplan, m.at, m.duration, below)
           planned == IF v \in Picked(m) THEN UpdPlan(r, job, m, needs) ELSE r
           tagged == UpdTag(planned, job, m)
           q == IF SubplanUsed(v, below) THEN UpdSubplan(tagged, job, m, below) ELSE tagged
<1>1. UpdSched(v, job, m, below) = q
  BY DEF UpdSched
<1>2. /\ DOMAIN planned = Fields
      /\ planned.tags = r.tags /\ planned.x_checker = r.x_checker /\ planned.x_spans = r.x_spans
      /\ planned.subplan = r.subplan /\ planned.job2span = r.job2span
      /\ planned.plans = IF v \in Picked(m) THEN Added(r.plans, m.at, m.duration, needs)
                         ELSE r.plans
      /\ planned.allocations = IF v \in Picked(m) /\ m.allocate THEN Put(r.allocations, job, id)
                               ELSE r.allocations
      /\ planned.reservations = IF v \in Picked(m) /\ ~ m.allocate
                                THEN Put(r.reservations, job, id) ELSE r.reservations
  BY DEF Fields, UpdPlan
<1>3. /\ DOMAIN tagged = Fields
      /\ tagged.tags = r.tags \cup {job}
      /\ tagged.x_checker = Added(r.x_checker, m.at, m.duration, 1)
      /\ tagged.x_spans = Put(r.x_spans, job, AddedId(r.x_checker, m.at, m.duration, 1))
      /\ tagged.subplan = r.subplan /\ tagged.job2span = r.job2span
      /\ tagged.plans = planned.plans /\ tagged.allocations = planned.allocations
      /\ tagged.reservations = planned.reservations
  <2> HIDE DEF planned
  <2>1. QED  BY <1>2 DEF Fields, UpdTag
<1>4. /\ DOMAIN q = Fields
      /\ q.tags = tagged.tags /\ q.x_checker = tagged.x_checker /\ q.x_spans = tagged.x_spans
      /\ q.plans = tagged.plans /\ q.allocations = tagged.allocations
      /\ q.reservations = tagged.reservations
      /\ q.subplan = IF SubplanUsed(v, below)
                     THEN Added(tagged.subplan, m.at, m.duration, below) ELSE tagged.subplan
      /\ q.job2span =
            IF SubplanUsed(v, below) /\ AddedId(tagged.subplan, m.at, m.duration, below) # NoSpan
            THEN Put(tagged.job2span, job, AddedId(tagged.subplan, m.at, m.duration, below))
            ELSE tagged.job2span
  <2> HIDE DEF tagged
  <2>1. QED  BY <1>3 DEF Fields, UpdSubplan
<1> HIDE DEF planned, tagged, q
<1>5. QED  BY <1>1, <1>2, <1>3, <1>4

\* Booking a new job at a vertex keeps the tables of the vertex in step with its
\* planners, whatever the amounts.
LEMMA UpdSchedKeepsTables ==
    ASSUME NEW v, NEW n \in Nat \ {0}, n <= XCheckerNJobs, NEW m, NEW below,
           m.at \in Nat, m.duration \in Nat \ {0},
           VertexOK(vtx[v], n)
    PROVE  VertexOK(UpdSched(v, n, m, below), n + 1)
<1> DEFINE r == vtx[v]
           q == UpdSched(v, n, m, below)
           needs == m.marks[v].needs
           id == AddedId(r.plans, m.at, m.duration, needs)
           sub == AddedId(r.subplan, m.at, m.duration, below)
           chk == AddedId(r.x_checker, m.at, m.duration, 1)
<1>1. /\ DOMAIN r = Fields
      /\ PlannerShape(r.plans) /\ PlannerShape(r.x_checker) /\ PlannerShape(r.subplan)
      /\ r.x_checker.total = XCheckerNJobs
      /\ \A i \in DOMAIN r.x_checker.spans : r.x_checker.spans[i].planned = 1
      /\ r.tags \subseteq 1 .. n - 1
      /\ DOMAIN r.job2span \subseteq 1 .. n - 1
  BY DEF VertexOK, VertexShape
<1>2. /\ DOMAIN r.allocations \cap DOMAIN r.reservations = {}
      /\ DOMAIN PlanTable(r) \subseteq r.tags
      /\ r.x_spans \in Bijection(r.tags, DOMAIN r.x_checker.spans)
      /\ PlanTable(r) \in Bijection(DOMAIN PlanTable(r), DOMAIN r.plans.spans)
      /\ SubplanTable(r) \in Bijection(DOMAIN SubplanTable(r), DOMAIN r.subplan.spans)
  BY TablesAgreeMeans DEF VertexOK
<1>3. n \notin r.tags /\ n \notin DOMAIN r.job2span
  BY <1>1
<1>4. /\ DOMAIN PlanTable(r) = DOMAIN r.allocations \cup DOMAIN r.reservations
      /\ n \notin DOMAIN r.allocations /\ n \notin DOMAIN r.reservations
  BY <1>2, <1>3 DEF PlanTable
<1>5. CASE q = r
  <2>1. VertexShape(q, n + 1)
    BY <1>1, <1>5 DEF VertexShape
  <2>2. QED  BY <1>5, <2>1 DEF VertexOK
<1>6. CASE v \in Involved(m) /\ PlanAccepts(v, m)
  <2>1. /\ DOMAIN q = Fields
        /\ q.tags = r.tags \cup {n}
        /\ q.x_checker = Added(r.x_checker, m.at, m.duration, 1)
        /\ q.x_spans = Put(r.x_spans, n, chk)
        /\ q.plans = IF v \in Picked(m) THEN Added(r.plans, m.at, m.duration, needs)
                     ELSE r.plans
        /\ q.allocations = IF v \in Picked(m) /\ m.allocate THEN Put(r.allocations, n, id)
                           ELSE r.allocations
        /\ q.reservations = IF v \in Picked(m) /\ ~ m.allocate
                            THEN Put(r.reservations, n, id) ELSE r.reservations
        /\ q.subplan = IF SubplanUsed(v, below)
                       THEN Added(r.subplan, m.at, m.duration, below) ELSE r.subplan
        /\ q.job2span = IF SubplanUsed(v, below) /\ sub # NoSpan
                        THEN Put(r.job2span, n, sub) ELSE r.job2span
    BY <1>1, <1>6, UpdSchedFields
  <2> HIDE DEF q
  <2>2. /\ chk \notin DOMAIN r.x_checker.spans
        /\ PlannerShape(q.x_checker) /\ q.x_checker.total = XCheckerNJobs
        /\ DOMAIN q.x_checker.spans = DOMAIN r.x_checker.spans \cup {chk}
        /\ \A i \in DOMAIN q.x_checker.spans : q.x_checker.spans[i].planned = 1
    <3>1. CanAdd(r.x_checker, m.at, m.duration, 1)
      BY CheckerHasRoom
    <3>2. /\ chk \notin DOMAIN r.x_checker.spans
          /\ PlannerShape(q.x_checker) /\ q.x_checker.total = r.x_checker.total
          /\ DOMAIN q.x_checker.spans = DOMAIN r.x_checker.spans \cup {chk}
          /\ q.x_checker.spans[chk].planned = 1
          /\ \A i \in DOMAIN r.x_checker.spans : q.x_checker.spans[i] = r.x_checker.spans[i]
      BY <1>1, <2>1, <3>1, AddedPlanner
    <3>3. QED  BY <1>1, <3>2
  <2>3. q.x_spans \in Bijection(q.tags, DOMAIN q.x_checker.spans)
    <3>1. DOMAIN r.x_spans = r.tags
      BY <1>2 DEF Bijection, Injection
    <3>2. q.x_spans = [i \in r.tags \cup {n} |-> IF i = n THEN chk ELSE r.x_spans[i]]
      BY <2>1, <3>1 DEF Put
    <3> HIDE DEF chk, r
    <3>3. q.x_spans \in Bijection(r.tags \cup {n}, DOMAIN r.x_checker.spans \cup {chk})
      BY <1>2, <1>3, <2>2, <3>2, TableGrows
    <3>4. QED  BY <2>1, <2>2, <3>3
  <2>4. /\ PlannerShape(q.plans)
        /\ DOMAIN q.allocations \cap DOMAIN q.reservations = {}
        /\ DOMAIN PlanTable(q) \subseteq q.tags
        /\ PlanTable(q) \in Bijection(DOMAIN PlanTable(q), DOMAIN q.plans.spans)
    <3>1. CASE v \in Picked(m)
      <4>1. CanAdd(r.plans, m.at, m.duration, needs)
        BY <1>6, <3>1 DEF PlanAccepts
      <4>2. /\ id \notin DOMAIN r.plans.spans /\ PlannerShape(q.plans)
            /\ DOMAIN q.plans.spans = DOMAIN r.plans.spans \cup {id}
        <5>1. q.plans = Added(r.plans, m.at, m.duration, needs)
          BY <2>1, <3>1
        <5>2. PlannerShape(r.plans) /\ m.at \in Nat /\ m.duration \in Nat
          BY <1>1
        <5> HIDE DEF r, q, needs
        <5>3. /\ id \notin DOMAIN r.plans.spans
              /\ PlannerShape(Added(r.plans, m.at, m.duration, needs))
          BY <4>1, <5>2, AddedPlanner
        <5>4. DOMAIN Added(r.plans, m.at, m.duration, needs).spans
                = DOMAIN r.plans.spans \cup {id}
          BY <4>1, <5>2, AddedPlanner
        <5>5. QED  BY <5>1, <5>3, <5>4
      <4>3. /\ DOMAIN q.allocations \cap DOMAIN q.reservations = {}
            /\ DOMAIN q.allocations \cup DOMAIN q.reservations = DOMAIN PlanTable(r) \cup {n}
            /\ PlanSpan(q, n) = id
            /\ \A job \in DOMAIN PlanTable(r) : PlanSpan(q, job) = PlanTable(r)[job]
        <5>1. CASE m.allocate
          <6>1. /\ q.allocations = Put(r.allocations, n, id) /\ q.reservations = r.reservations
            BY <2>1, <3>1, <5>1
          <6>2. QED  BY <1>2, <1>4, <6>1 DEF Put, PlanSpan, PlanTable
        <5>2. CASE ~ m.allocate
          <6>1. /\ q.reservations = Put(r.reservations, n, id) /\ q.allocations = r.allocations
            BY <2>1, <3>1, <5>2
          <6>2. QED  BY <1>2, <1>4, <6>1 DEF Put, PlanSpan, PlanTable
        <5>3. QED  BY <5>1, <5>2
      <4>4. PlanTable(q) = [i \in DOMAIN PlanTable(r) \cup {n} |->
                              IF i = n THEN id ELSE PlanTable(r)[i]]
        <5>1. PlanTable(q) = [i \in DOMAIN PlanTable(r) \cup {n} |-> PlanSpan(q, i)]
          BY <4>3 DEF PlanTable
        <5>2. \A i \in DOMAIN PlanTable(r) \cup {n} :
                  PlanSpan(q, i) = IF i = n THEN id ELSE PlanTable(r)[i]
          BY <1>2, <1>3, <4>3
        <5>3. QED  BY <5>1, <5>2
      <4>5. n \notin DOMAIN PlanTable(r)
        BY <1>2, <1>3
      <4>6. PlanTable(q) \in Bijection(DOMAIN PlanTable(r) \cup {n}, DOMAIN q.plans.spans)
        BY <1>2, <4>2, <4>4, <4>5, TableGrows
      <4>7. DOMAIN PlanTable(q) = DOMAIN PlanTable(r) \cup {n}
        BY <4>4
      <4>8. QED  BY <1>2, <2>1, <4>2, <4>3, <4>6, <4>7
    <3>2. CASE v \notin Picked(m)
      <4>1. /\ q.plans = r.plans /\ q.allocations = r.allocations
            /\ q.reservations = r.reservations
        BY <2>1, <3>2
      <4>2. PlanTable(q) = PlanTable(r)
        BY <4>1 DEF PlanTable, PlanSpan
      <4>3. QED  BY <1>1, <1>2, <2>1, <4>1, <4>2
    <3>3. QED  BY <3>1, <3>2
  <2>5. /\ PlannerShape(q.subplan)
        /\ DOMAIN q.job2span \subseteq 1 .. n
        /\ SubplanTable(q) \in Bijection(DOMAIN SubplanTable(q), DOMAIN q.subplan.spans)
    <3>1. CASE SubplanUsed(v, below) /\ CanAdd(r.subplan, m.at, m.duration, below)
      <4>1. /\ sub # NoSpan /\ sub \notin DOMAIN r.subplan.spans
            /\ PlannerShape(q.subplan)
            /\ DOMAIN q.subplan.spans = DOMAIN r.subplan.spans \cup {sub}
        <5>1. q.subplan = Added(r.subplan, m.at, m.duration, below)
          BY <2>1, <3>1
        <5>2. PlannerShape(r.subplan) /\ m.at \in Nat /\ m.duration \in Nat
          BY <1>1
        <5> HIDE DEF r, q
        <5>3. /\ sub # NoSpan /\ sub \notin DOMAIN r.subplan.spans
              /\ PlannerShape(Added(r.subplan, m.at, m.duration, below))
          BY <3>1, <5>2, AddedPlanner
        <5>4. DOMAIN Added(r.subplan, m.at, m.duration, below).spans
                = DOMAIN r.subplan.spans \cup {sub}
          BY <3>1, <5>2, AddedPlanner
        <5>5. QED  BY <5>1, <5>3, <5>4
      <4>2. q.job2span = Put(r.job2span, n, sub)
        BY <2>1, <3>1, <4>1
      <4>3. DOMAIN q.job2span = DOMAIN r.job2span \cup {n}
        BY <4>2 DEF Put
      <4>4. DOMAIN SubplanTable(r) = DOMAIN r.job2span \cap r.tags
        BY DEF SubplanTable, Restrict
      <4>5. DOMAIN q.job2span \cap q.tags = DOMAIN SubplanTable(r) \cup {n}
        BY <1>3, <2>1, <4>3, <4>4
      <4>6. SubplanTable(q) = [i \in DOMAIN SubplanTable(r) \cup {n} |->
                                 IF i = n THEN sub ELSE SubplanTable(r)[i]]
        <5>1. SubplanTable(q) = [i \in DOMAIN SubplanTable(r) \cup {n} |-> q.job2span[i]]
          BY <4>5 DEF SubplanTable, Restrict
        <5>2. \A i \in DOMAIN SubplanTable(r) \cup {n} :
                  q.job2span[i] = IF i = n THEN sub ELSE r.job2span[i]
          BY <4>2, <4>4 DEF Put
        <5>3. \A i \in DOMAIN SubplanTable(r) : SubplanTable(r)[i] = r.job2span[i]
          BY DEF SubplanTable, Restrict
        <5>4. \A i \in DOMAIN SubplanTable(r) \cup {n} :
                  q.job2span[i] = IF i = n THEN sub ELSE SubplanTable(r)[i]
          BY <5>2, <5>3
        <5>5. QED  BY <5>1, <5>4
      <4>7. n \notin DOMAIN SubplanTable(r)
        BY <1>3, <4>4
      <4>8. SubplanTable(q) \in Bijection(DOMAIN SubplanTable(r) \cup {n}, DOMAIN q.subplan.spans)
        BY <1>2, <4>1, <4>6, <4>7, TableGrows
      <4>9. DOMAIN SubplanTable(q) = DOMAIN SubplanTable(r) \cup {n}
        BY <4>6
      <4>10. DOMAIN q.job2span \subseteq 1 .. n
        BY <1>1, <4>3
      <4>11. QED  BY <4>1, <4>8, <4>9, <4>10
    <3>2. CASE ~ (SubplanUsed(v, below) /\ CanAdd(r.subplan, m.at, m.duration, below))
      <4>1. ~ CanAdd(r.subplan, m.at, m.duration, below) =>
                sub = NoSpan /\ Added(r.subplan, m.at, m.duration, below) = r.subplan
        BY DEF AddedId, Added
      <4>2. q.subplan = r.subplan /\ q.job2span = r.job2span
        BY <2>1, <3>2, <4>1
      <4>3. DOMAIN q.job2span \cap q.tags = DOMAIN r.job2span \cap r.tags
        BY <1>3, <2>1, <4>2
      <4>4. SubplanTable(q) = SubplanTable(r)
        BY <4>2, <4>3 DEF SubplanTable, Restrict
      <4>5. DOMAIN q.job2span \subseteq 1 .. n
        BY <1>1, <4>2
      <4>6. QED  BY <1>1, <1>2, <4>2, <4>4, <4>5
    <3>3. QED  BY <3>1, <3>2
  <2>6. q.tags \subseteq 1 .. n
    BY <1>1, <2>1
  <2>7. n + 1 - 1 = n
    OBVIOUS
  <2>8. VertexShape(q, n + 1)
    BY <2>1, <2>2, <2>4, <2>5, <2>6, <2>7 DEF VertexShape
  <2>9. VertexTablesAgree(q)
    BY <2>3, <2>4, <2>5, TablesAgreeMeans
  <2>10. QED  BY <2>8, <2>9 DEF VertexOK, q
<1>7. q = r \/ (v \in Involved(m) /\ PlanAccepts(v, m))
  BY DEF UpdSched
<1>8. QED  BY <1>5, <1>6, <1>7

-----------------------------------------------------------------------------
(* rem_dfv at one vertex. *)

\* Nothing can fail in taking a job out of a vertex that is tagged with it.
LEMMA RemovalCannotFail ==
    ASSUME NEW r, NEW n, VertexOK(r, n), NEW job \in r.tags
    PROVE  RemOk(r, job)
<1>1. /\ DOMAIN PlanTable(r) \subseteq r.tags
      /\ r.x_spans \in Bijection(r.tags, DOMAIN r.x_checker.spans)
      /\ PlanTable(r) \in Bijection(DOMAIN PlanTable(r), DOMAIN r.plans.spans)
      /\ SubplanTable(r) \in Bijection(DOMAIN SubplanTable(r), DOMAIN r.subplan.spans)
  BY TablesAgreeMeans DEF VertexOK
<1>2. RemXCheckerOk(r, job)
  BY <1>1 DEF RemXCheckerOk, Bijection, Injection
<1>3. RemPlanOk(r, job)
  <2>1. job \in DOMAIN PlanTable(r) => PlanTable(r)[job] \in DOMAIN r.plans.spans
    BY <1>1 DEF Bijection, Injection
  <2>2. job \in DOMAIN PlanTable(r) => PlanSpan(r, job) = PlanTable(r)[job]
    BY DEF PlanTable
  <2>3. job \notin DOMAIN PlanTable(r) => PlanSpan(r, job) = NoSpan
    BY DEF PlanTable, PlanSpan
  <2>4. QED  BY <2>1, <2>2, <2>3 DEF RemPlanOk
<1>4. RemSubplanOk(r, job)
  <2>1. SUFFICES ASSUME job \in DOMAIN r.job2span
                 PROVE  r.job2span[job] \in DOMAIN r.subplan.spans
    BY DEF RemSubplanOk
  <2>2. job \in DOMAIN SubplanTable(r) /\ SubplanTable(r)[job] = r.job2span[job]
    BY <2>1 DEF SubplanTable, Restrict
  <2>3. QED  BY <1>1, <2>2 DEF Bijection, Injection
<1>5. QED  BY <1>2, <1>3, <1>4 DEF RemOk

LEMMA RemVertexFields ==
    ASSUME NEW r, NEW n, VertexOK(r, n), NEW job \in r.tags
    PROVE  LET q == RemVertex(r, job)
           IN  /\ DOMAIN q = Fields
               /\ q.tags = r.tags \ {job}
               /\ q.x_checker = Removed(r.x_checker, r.x_spans[job])
               /\ q.x_spans = Without(r.x_spans, job)
               /\ q.plans = Removed(r.plans, PlanSpan(r, job))
               /\ q.allocations = Without(r.allocations, job)
               /\ q.reservations = IF job \in DOMAIN r.allocations THEN r.reservations
                                   ELSE Without(r.reservations, job)
               /\ q.subplan = IF job \in DOMAIN r.job2span
                              THEN Removed(r.subplan, r.job2span[job]) ELSE r.subplan
               /\ q.job2span = r.job2span
<1> DEFINE untagged  == [r EXCEPT !.tags = @ \ {job}]
           unchecked == RemXChecker(untagged, job)
           unplanned == RemPlan(unchecked, job)
           q         == RemSubplan(unplanned, job)
<1>1. RemVertex(r, job) = q
  BY RemovalCannotFail DEF RemVertex, RemOk
<1>2. DOMAIN r = Fields /\ job \in DOMAIN r.x_spans
  BY DEF VertexOK, VertexShape, VertexTablesAgree, Bijection, Injection
<1>3. /\ DOMAIN untagged = Fields /\ untagged.tags = r.tags \ {job}
      /\ untagged.x_checker = r.x_checker /\ untagged.x_spans = r.x_spans
      /\ untagged.plans = r.plans /\ untagged.subplan = r.subplan
      /\ untagged.allocations = r.allocations /\ untagged.reservations = r.reservations
      /\ untagged.job2span = r.job2span
  BY <1>2 DEF Fields
<1>4. /\ DOMAIN unchecked = Fields /\ unchecked.tags = r.tags \ {job}
      /\ unchecked.x_checker = Removed(r.x_checker, r.x_spans[job])
      /\ unchecked.x_spans = Without(r.x_spans, job)
      /\ unchecked.plans = r.plans /\ unchecked.subplan = r.subplan
      /\ unchecked.allocations = r.allocations /\ unchecked.reservations = r.reservations
      /\ unchecked.job2span = r.job2span
  <2> HIDE DEF untagged
  <2>1. QED  BY <1>2, <1>3 DEF Fields, RemXChecker
<1>5. PlanSpan(unchecked, job) = PlanSpan(r, job)
  BY <1>4 DEF PlanSpan
<1>6. /\ DOMAIN unplanned = Fields /\ unplanned.tags = r.tags \ {job}
      /\ unplanned.x_checker = Removed(r.x_checker, r.x_spans[job])
      /\ unplanned.x_spans = Without(r.x_spans, job)
      /\ unplanned.plans = Removed(r.plans, PlanSpan(r, job)) /\ unplanned.subplan = r.subplan
      /\ unplanned.allocations = Without(r.allocations, job)
      /\ unplanned.reservations = IF job \in DOMAIN r.allocations THEN r.reservations
                                  ELSE Without(r.reservations, job)
      /\ unplanned.job2span = r.job2span
  <2> HIDE DEF unchecked
  <2>1. QED  BY <1>4, <1>5 DEF Fields, RemPlan
<1> HIDE DEF unplanned
<1>7. QED  BY <1>1, <1>6 DEF Fields, RemSubplan

LEMMA RemVertexKeepsTables ==
    ASSUME NEW r, NEW n, VertexOK(r, n), NEW job \in r.tags
    PROVE  VertexOK(RemVertex(r, job), n)
<1> DEFINE q == RemVertex(r, job)
           x == r.x_spans[job]
           s == PlanSpan(r, job)
           b == r.job2span[job]
<1>1. /\ PlannerShape(r.plans) /\ PlannerShape(r.x_checker) /\ PlannerShape(r.subplan)
      /\ r.x_checker.total = XCheckerNJobs
      /\ \A i \in DOMAIN r.x_checker.spans : r.x_checker.spans[i].planned = 1
      /\ r.tags \subseteq 1 .. n - 1
      /\ DOMAIN r.job2span \subseteq 1 .. n - 1
  BY DEF VertexOK, VertexShape
<1>2. /\ DOMAIN r.allocations \cap DOMAIN r.reservations = {}
      /\ DOMAIN PlanTable(r) \subseteq r.tags
      /\ r.x_spans \in Bijection(r.tags, DOMAIN r.x_checker.spans)
      /\ PlanTable(r) \in Bijection(DOMAIN PlanTable(r), DOMAIN r.plans.spans)
      /\ SubplanTable(r) \in Bijection(DOMAIN SubplanTable(r), DOMAIN r.subplan.spans)
  BY TablesAgreeMeans DEF VertexOK
<1>3. /\ DOMAIN q = Fields
      /\ q.tags = r.tags \ {job}
      /\ q.x_checker = Removed(r.x_checker, x)
      /\ q.x_spans = Without(r.x_spans, job)
      /\ q.plans = Removed(r.plans, s)
      /\ q.allocations = Without(r.allocations, job)
      /\ q.reservations = IF job \in DOMAIN r.allocations THEN r.reservations
                          ELSE Without(r.reservations, job)
      /\ q.subplan = IF job \in DOMAIN r.job2span THEN Removed(r.subplan, b) ELSE r.subplan
      /\ q.job2span = r.job2span
  BY RemVertexFields
<1> HIDE DEF q
<1>4. /\ PlannerShape(q.x_checker) /\ q.x_checker.total = XCheckerNJobs
      /\ DOMAIN q.x_checker.spans = DOMAIN r.x_checker.spans \ {x}
      /\ \A i \in DOMAIN q.x_checker.spans : q.x_checker.spans[i].planned = 1
  BY <1>1, <1>3, RemovedPlanner
<1>5. q.x_spans \in Bijection(q.tags, DOMAIN q.x_checker.spans)
  <2>1. q.x_spans = [i \in r.tags \ {job} |-> r.x_spans[i]]
    <3>1. DOMAIN r.x_spans = r.tags
      BY <1>2 DEF Bijection, Injection
    <3>2. QED  BY <1>3, <3>1 DEF Without, Restrict
  <2>2. q.x_spans \in Bijection(r.tags \ {job}, DOMAIN r.x_checker.spans \ {x})
    BY <1>2, <2>1, TableShrinks
  <2>3. QED  BY <1>3, <1>4, <2>2
<1>6. PlannerShape(q.plans) /\ DOMAIN q.plans.spans = DOMAIN r.plans.spans \ {s}
  BY <1>1, <1>3, RemovedPlanner
<1>7. /\ DOMAIN q.allocations = DOMAIN r.allocations \ {job}
      /\ DOMAIN q.reservations = DOMAIN r.reservations \ {job}
      /\ \A i \in DOMAIN q.allocations : q.allocations[i] = r.allocations[i]
      /\ \A i \in DOMAIN q.reservations : q.reservations[i] = r.reservations[i]
  BY <1>2, <1>3 DEF Without, Restrict
<1>8. DOMAIN PlanTable(r) = DOMAIN r.allocations \cup DOMAIN r.reservations
  BY DEF PlanTable
<1>9. PlanTable(q) = [i \in DOMAIN PlanTable(r) \ {job} |-> PlanTable(r)[i]]
  <2>1. PlanTable(q) = [i \in DOMAIN PlanTable(r) \ {job} |-> PlanSpan(q, i)]
    <3>1. DOMAIN q.allocations \cup DOMAIN q.reservations = DOMAIN PlanTable(r) \ {job}
      BY <1>7, <1>8
    <3>2. QED  BY <3>1 DEF PlanTable
  <2>2. \A i \in DOMAIN PlanTable(r) \ {job} : PlanSpan(q, i) = PlanSpan(r, i)
    BY <1>7, <1>8 DEF PlanSpan
  <2>3. \A i \in DOMAIN PlanTable(r) : PlanTable(r)[i] = PlanSpan(r, i)
    BY DEF PlanTable
  <2>4. \A i \in DOMAIN PlanTable(r) \ {job} : PlanSpan(q, i) = PlanTable(r)[i]
    BY <2>2, <2>3
  <2>5. QED  BY <2>1, <2>4
<1>10. PlanTable(q) \in Bijection(DOMAIN PlanTable(q), DOMAIN q.plans.spans)
  <2>1. CASE job \in DOMAIN PlanTable(r)
    <3>1. PlanTable(r)[job] = s
      BY <2>1 DEF PlanTable
    <3>2. PlanTable(q) \in Bijection(DOMAIN PlanTable(r) \ {job}, DOMAIN r.plans.spans \ {s})
      BY <1>2, <1>9, <2>1, <3>1, TableShrinks
    <3>3. DOMAIN PlanTable(q) = DOMAIN PlanTable(r) \ {job}
      BY <1>9
    <3>4. QED  BY <1>6, <3>2, <3>3
  <2>2. CASE job \notin DOMAIN PlanTable(r)
    <3>1. s = NoSpan
      BY <1>8, <2>2 DEF PlanSpan
    <3>2. s \notin DOMAIN r.plans.spans
      BY <1>1, <3>1 DEF PlannerShape, NoSpan
    <3>3. DOMAIN PlanTable(r) \ {job} = DOMAIN PlanTable(r)
      BY <2>2
    <3>4. PlanTable(q) = [i \in DOMAIN PlanTable(r) |-> PlanTable(r)[i]]
      BY <1>9, <3>3
    <3>5. PlanTable(r) = [i \in DOMAIN PlanTable(r) |-> PlanTable(r)[i]]
      BY DEF PlanTable
    <3>6. PlanTable(q) = PlanTable(r) /\ DOMAIN q.plans.spans = DOMAIN r.plans.spans
      BY <1>6, <3>2, <3>4, <3>5
    <3>7. QED  BY <1>2, <3>6
  <2>3. QED  BY <2>1, <2>2
<1>11. PlannerShape(q.subplan) /\ SubplanTable(q) \in Bijection(DOMAIN SubplanTable(q), DOMAIN q.subplan.spans)
  <2> DEFINE live == DOMAIN r.job2span \cap r.tags
  <2>1. /\ DOMAIN SubplanTable(r) = live
        /\ \A i \in live : SubplanTable(r)[i] = r.job2span[i]
    BY DEF SubplanTable, Restrict
  <2>2. DOMAIN q.job2span \cap q.tags = live \ {job}
    BY <1>3
  <2>3. SubplanTable(q) = [i \in live \ {job} |-> SubplanTable(r)[i]]
    <3>1. SubplanTable(q) = [i \in live \ {job} |-> r.job2span[i]]
      BY <1>3, <2>2 DEF SubplanTable, Restrict
    <3>2. QED  BY <2>1, <3>1
  <2> HIDE DEF live
  <2>4. DOMAIN SubplanTable(q) = live \ {job}
    BY <2>3
  <2>5. CASE job \in DOMAIN r.job2span
    <3>1. job \in live /\ SubplanTable(r)[job] = b
      BY <2>1, <2>5 DEF live
    <3>2. q.subplan = Removed(r.subplan, b)
      BY <1>3, <2>5
    <3>3. PlannerShape(q.subplan) /\ DOMAIN q.subplan.spans = DOMAIN r.subplan.spans \ {b}
      BY <1>1, <3>2, RemovedPlanner
    <3>4. SubplanTable(q) \in Bijection(live \ {job}, DOMAIN r.subplan.spans \ {b})
      BY <1>2, <2>1, <2>3, <3>1, TableShrinks
    <3>5. QED  BY <2>4, <3>3, <3>4
  <2>6. CASE job \notin DOMAIN r.job2span
    <3>1. q.subplan = r.subplan /\ live \ {job} = live
      BY <1>3, <2>6 DEF live
    <3>2. SubplanTable(q) = SubplanTable(r)
      <4>1. SubplanTable(r) = [i \in live |-> SubplanTable(r)[i]]
        BY <2>1 DEF SubplanTable, Restrict, live
      <4>2. QED  BY <2>3, <3>1, <4>1
    <3>3. QED  BY <1>1, <1>2, <3>1, <3>2
  <2>7. QED  BY <2>5, <2>6
<1>12. VertexShape(q, n)
  BY <1>1, <1>3, <1>4, <1>6, <1>11 DEF VertexShape
<1>13. VertexTablesAgree(q)
  <2>1. DOMAIN q.allocations \cap DOMAIN q.reservations = {}
    BY <1>2, <1>7
  <2>2. DOMAIN PlanTable(q) \subseteq q.tags
    BY <1>2, <1>3, <1>9
  <2>3. QED  BY <1>5, <1>10, <1>11, <2>1, <2>2, TablesAgreeMeans
<1>14. QED  BY <1>12, <1>13 DEF VertexOK, q

-----------------------------------------------------------------------------
(* The session. *)

\* A vertex is at the end of its own path.
LEMMA OnOwnPath == \A v \in Vertices : v \in Path[v]
<1>1. \A u \in Vertices : Range(Kids[u]) \subseteq Vertices
  BY GraphAssumption DEF Range
<1>2. QED  BY <1>1, GraphAssumption

\* A match books from now on, or from the beginning or the end of some span on.
LEMMA MatchTimes ==
    ASSUME IInv, NEW j \in Jobspecs, NEW op, NEW at \in ScheduleTimes(j, op) \ {NoTime}
    PROVE  at \in Nat /\ j.duration \in Nat \ {0}
<1>1. PlannerShape(vtx[Root].subplan)
  BY GraphAssumption DEF IInv, VertexOK, VertexShape
<1>2. ReserveTimes(j) \subseteq Nat
  BY <1>1 DEF ReserveTimes, AvailTimes, PlannerShape
<1>3. EndTimes(j) \subseteq ReserveTimes(j)
  BY DEF EndTimes
<1>4. ScheduleTimes(j, op) \subseteq {0, NoTime} \cup EndTimes(j)
  BY DEF ScheduleTimes
<1>5. QED  BY <1>2, <1>3, <1>4, JobspecAssumption

LEMMA LaterJob ==
    ASSUME NEW r, NEW n \in Nat \ {0}, VertexOK(r, n)
    PROVE  VertexOK(r, n + 1)
BY DEF VertexOK, VertexShape

LEMMA InitIInvSession == Init => IInv
<1> SUFFICES ASSUME Init PROVE IInv
  OBVIOUS
<1>1. vtx = [u \in Vertices |-> Unused(u)] /\ jobid_counter = 1
  BY DEF Init, InitVertices
<1>2. ASSUME NEW u \in Vertices PROVE VertexOK(Unused(u), 1)
  <2> DEFINE r == Unused(u)
  <2>1. \A total : /\ PlannerShape(NewPlanner(total)) /\ NewPlanner(total).total = total
                   /\ DOMAIN NewPlanner(total).spans = {}
    BY DEF PlannerShape, NewPlanner
  <2>2. /\ DOMAIN r = Fields
        /\ r.plans = NewPlanner(Size[u]) /\ r.x_checker = NewPlanner(XCheckerNJobs)
        /\ r.subplan = NewPlanner(Aggregate(u)) /\ r.tags = {} /\ r.x_spans = NoEntry
        /\ r.allocations = NoEntry /\ r.reservations = NoEntry /\ r.job2span = NoEntry
    BY DEF Unused, Fields
  <2>3. DOMAIN NoEntry = {} /\ NoEntry \in [{} -> {}]
    BY DEF NoEntry
  <2> HIDE DEF r
  <2>4. VertexShape(r, 1)
    BY <2>1, <2>2, <2>3 DEF VertexShape
  <2>5. \A f : DOMAIN f = {} /\ f \in [{} -> {}] => f \in Bijection({}, {})
    BY DEF Bijection, Injection, Surjection, IsInjective
  <2>6. /\ DOMAIN PlanTable(r) = {} /\ PlanTable(r) \in [{} -> {}]
        /\ DOMAIN SubplanTable(r) = {} /\ SubplanTable(r) \in [{} -> {}]
    BY <2>2, <2>3 DEF PlanTable, SubplanTable, Restrict
  <2>7. VertexTablesAgree(r)
    BY <2>1, <2>2, <2>3, <2>5, <2>6, TablesAgreeMeans
  <2>8. QED  BY <2>4, <2>7 DEF VertexOK, r
<1>3. QED  BY <1>1, <1>2 DEF IInv

LEMMA CmdMatchIInv ==
    ASSUME MaxJobs <= XCheckerNJobs, IInv, NEW j \in Jobspecs, NEW op, CmdMatch(j, op)
    PROVE  IInv'
<1>1. jobid_counter \in Nat \ {0} /\ jobid_counter <= XCheckerNJobs
      /\ jobid_counter' = jobid_counter + 1
  BY JobspecAssumption, SizeAssumption DEF CmdMatch, CanMatch, IInv
<1>2. PICK at \in ScheduleTimes(j, op) \ {NoTime} : \E marks :
          UpdDfv(jobid_counter, Selection(j, at, marks))
  BY DEF CmdMatch
<1>3. PICK marks : UpdDfv(jobid_counter, Selection(j, at, marks))
  BY <1>2
<1> DEFINE m == Selection(j, at, marks)
<1>4. m.at \in Nat /\ m.duration \in Nat \ {0}
  BY <1>2, MatchTimes DEF Selection
<1>5. PICK dfu : vtx' = [v \in Vertices |-> UpdSched(v, jobid_counter, m, dfu[v])]
  BY <1>3 DEF UpdDfv
<1> HIDE DEF m
<1>6. ASSUME NEW v \in Vertices
      PROVE  VertexOK(UpdSched(v, jobid_counter, m, dfu[v]), jobid_counter + 1)
  <2>1. VertexOK(vtx[v], jobid_counter)
    BY DEF IInv
  <2>2. QED  BY <1>1, <1>4, <2>1, UpdSchedKeepsTables
<1>7. \A v \in Vertices : VertexOK(vtx'[v], jobid_counter')
  BY <1>1, <1>5, <1>6
<1>8. DOMAIN vtx' = Vertices
  BY <1>5
<1>9. jobid_counter' \in Nat \ {0}
  BY <1>1
<1>10. IInv' <=> /\ jobid_counter' \in Nat \ {0} /\ DOMAIN vtx' = Vertices
                 /\ \A v \in Vertices : VertexOK(vtx'[v], jobid_counter')
  BY DEF IInv, VertexOK, VertexShape, VertexTablesAgree, PlannerShape, IsSpan, PlanSpan
<1>11. QED  BY <1>7, <1>8, <1>9, <1>10

LEMMA CmdCancelIInv ==
    ASSUME IInv, NEW id, CmdCancel(id)
    PROVE  IInv' /\ RemoveSucceeds(id)
<1>1. vtx' = [v \in Vertices |->
                 IF v \in RemReached(id) THEN RemVertex(vtx[v], id) ELSE vtx[v]]
      /\ jobid_counter' = jobid_counter
  BY DEF CmdCancel, RemDfv
<1>2. \A v \in RemReached(id) : v \in Vertices /\ id \in vtx[v].tags
  BY OnOwnPath DEF RemReached
<1>3. ASSUME NEW v \in RemReached(id)
      PROVE  VertexOK(RemVertex(vtx[v], id), jobid_counter) /\ RemOk(vtx[v], id)
  <2>1. VertexOK(vtx[v], jobid_counter) /\ id \in vtx[v].tags
    BY <1>2 DEF IInv
  <2>2. QED  BY <2>1, RemVertexKeepsTables, RemovalCannotFail
<1>4. \A v \in Vertices : VertexOK(vtx'[v], jobid_counter)
  BY <1>1, <1>3 DEF IInv
<1>5. DOMAIN vtx' = Vertices /\ jobid_counter' \in Nat \ {0}
  BY <1>1 DEF IInv
<1>6. IInv' <=> /\ jobid_counter' \in Nat \ {0} /\ DOMAIN vtx' = Vertices
                /\ \A v \in Vertices : VertexOK(vtx'[v], jobid_counter')
  BY DEF IInv, VertexOK, VertexShape, VertexTablesAgree, PlannerShape, IsSpan, PlanSpan
<1>7. QED  BY <1>1, <1>3, <1>4, <1>5, <1>6 DEF RemoveSucceeds

LEMMA NextIInvSession ==
    ASSUME MaxJobs <= XCheckerNJobs, IInv, [Next]_vars
    PROVE  IInv'
<1>1. ASSUME UNCHANGED vtx, jobid_counter' \in {jobid_counter, jobid_counter + 1}
      PROVE  IInv'
  <2>1. jobid_counter \in Nat \ {0} /\ DOMAIN vtx' = Vertices
    BY <1>1 DEF IInv
  <2>2. \A u \in Vertices : VertexOK(vtx'[u], jobid_counter')
    BY <1>1, <2>1, LaterJob DEF IInv
  <2>3. IInv' <=> /\ jobid_counter' \in Nat \ {0} /\ DOMAIN vtx' = Vertices
                  /\ \A v \in Vertices : VertexOK(vtx'[v], jobid_counter')
    BY DEF IInv, VertexOK, VertexShape, VertexTablesAgree, PlannerShape, IsSpan, PlanSpan
  <2>4. QED  BY <1>1, <2>1, <2>2, <2>3
<1>2. ASSUME NEW j \in Jobspecs, NEW op \in {"allocate", "allocate_orelse_reserve"},
             CmdMatch(j, op) \/ CmdMatchFails(j, op) \/ CmdMatchAstray(j, op)
      PROVE  IInv'
  <2>1. CASE CmdMatch(j, op)
    BY <2>1, CmdMatchIInv
  <2>2. CASE CmdMatchFails(j, op)
    BY <1>1, <2>2 DEF CmdMatchFails
  <2>3. CASE CmdMatchAstray(j, op)
    BY <1>1, <2>3 DEF CmdMatchAstray
  <2>4. QED  BY <1>2, <2>1, <2>2, <2>3
<1>3. ASSUME NEW id \in DOMAIN jobs, CmdCancel(id)
      PROVE  IInv'
  BY <1>3, CmdCancelIInv
<1>4. CASE UNCHANGED vars
  BY <1>1, <1>4 DEF vars
<1>5. QED  BY <1>2, <1>3, <1>4 DEF Next

LEMMA SessionInvariance == ASSUME MaxJobs <= XCheckerNJobs PROVE Spec => []IInv
<1>1. IInv /\ [Next]_vars => IInv'
  BY NextIInvSession
<1>2. QED  BY <1>1, InitIInvSession, PTL DEF Spec

\* After any sequence of matches and cancels, every entry of a vertex's tables
\* has a live span of its own and every span an entry, for every graph, policy
\* and set of jobspecs.  (Of the number of jobs X_CHECKER_NJOBS is the limit.)
THEOREM TablesStayInStep == ASSUME MaxJobs <= XCheckerNJobs PROVE Spec => []TablesAgree
<1>1. IInv => TablesAgree
  BY DEF IInv, TablesAgree, VertexOK
<1>2. QED  BY <1>1, SessionInvariance, PTL

-----------------------------------------------------------------------------
(* The tables of the commands. *)

\* Jobs have ids of the past, and the two sets of jobs follow from their states.
JobTables ==
    /\ DOMAIN jobs \subseteq 1 .. jobid_counter - 1
    /\ \A id \in DOMAIN jobs :
        /\ DOMAIN jobs[id] = {"jobspec", "at", "state"}
        /\ jobs[id].jobspec \in Jobspecs /\ jobs[id].at \in Nat
        /\ jobs[id].state \in {"ALLOCATED", "RESERVED", "CANCELLED"}
    /\ allocations = {id \in DOMAIN jobs : jobs[id].state = "ALLOCATED"}
    /\ reservations = {id \in DOMAIN jobs : jobs[id].state = "RESERVED"}

LEMMA RecordJobTables ==
    ASSUME JobTables, jobid_counter \in Nat \ {0}, NEW j \in Jobspecs, NEW at \in Nat,
           RecordJob(j, at), jobid_counter' = jobid_counter + 1
    PROVE  /\ JobTables' /\ jobid_counter \notin DOMAIN jobs
           /\ DOMAIN jobs' = DOMAIN jobs \cup {jobid_counter}
           /\ jobs'[jobid_counter].at = at
           /\ \A id \in DOMAIN jobs : jobs'[id] = jobs[id]
<1> DEFINE n == jobid_counter
           job == [jobspec |-> j, at |-> at, state |-> IF at = 0 THEN "ALLOCATED" ELSE "RESERVED"]
<1>1. /\ DOMAIN job = {"jobspec", "at", "state"} /\ job.jobspec = j /\ job.at = at
      /\ job.state = IF at = 0 THEN "ALLOCATED" ELSE "RESERVED"
  OBVIOUS
<1>2. /\ jobs' = [id \in DOMAIN jobs \cup {n} |-> IF id = n THEN job ELSE jobs[id]]
      /\ allocations' = IF at = 0 THEN allocations \cup {n} ELSE allocations
      /\ reservations' = IF at = 0 THEN reservations ELSE reservations \cup {n}
  BY DEF RecordJob, Put
<1> HIDE DEF job
<1>3. /\ n \notin DOMAIN jobs /\ DOMAIN jobs' = DOMAIN jobs \cup {n} /\ jobs'[n] = job
      /\ \A id \in DOMAIN jobs : jobs'[id] = jobs[id]
  BY <1>2 DEF JobTables
<1>4. DOMAIN jobs' \subseteq 1 .. jobid_counter' - 1
  BY <1>3 DEF JobTables
<1>5. \A id \in DOMAIN jobs' :
        /\ DOMAIN jobs'[id] = {"jobspec", "at", "state"}
        /\ jobs'[id].jobspec \in Jobspecs /\ jobs'[id].at \in Nat
        /\ jobs'[id].state \in {"ALLOCATED", "RESERVED", "CANCELLED"}
  BY <1>1, <1>3 DEF JobTables
<1>6. /\ allocations' = {id \in DOMAIN jobs' : jobs'[id].state = "ALLOCATED"}
      /\ reservations' = {id \in DOMAIN jobs' : jobs'[id].state = "RESERVED"}
  BY <1>1, <1>2, <1>3 DEF JobTables
<1>7. QED  BY <1>1, <1>3, <1>4, <1>5, <1>6 DEF JobTables

LEMMA ForgetTables ==
    ASSUME JobTables, NEW id \in allocations \cup reservations, Forget(id),
           UNCHANGED jobid_counter
    PROVE  /\ JobTables' /\ Active' = Active \ {id}
           /\ DOMAIN jobs' = DOMAIN jobs
           /\ \A i \in DOMAIN jobs : i # id => jobs'[i] = jobs[i]
<1>1. id \in DOMAIN jobs /\ jobs[id].state \in {"ALLOCATED", "RESERVED"}
  BY DEF JobTables
<1>2. /\ DOMAIN jobs' = DOMAIN jobs
      /\ \A i \in DOMAIN jobs : i # id => jobs'[i] = jobs[i]
      /\ jobs'[id] = [jobs[id] EXCEPT !.state = "CANCELLED"]
  BY <1>1 DEF Forget
<1>3. /\ DOMAIN jobs'[id] = DOMAIN jobs[id] /\ jobs'[id].state = "CANCELLED"
      /\ jobs'[id].jobspec = jobs[id].jobspec /\ jobs'[id].at = jobs[id].at
  BY <1>1, <1>2 DEF JobTables
<1>4. \A i \in DOMAIN jobs' :
        /\ DOMAIN jobs'[i] = {"jobspec", "at", "state"}
        /\ jobs'[i].jobspec \in Jobspecs /\ jobs'[i].at \in Nat
        /\ jobs'[i].state \in {"ALLOCATED", "RESERVED", "CANCELLED"}
  BY <1>1, <1>2, <1>3 DEF JobTables
<1>5. allocations' = allocations \ {id} /\ reservations' = reservations \ {id}
  BY DEF Forget, JobTables
<1>6. /\ allocations' = {i \in DOMAIN jobs' : jobs'[i].state = "ALLOCATED"}
      /\ reservations' = {i \in DOMAIN jobs' : jobs'[i].state = "RESERVED"}
  BY <1>2, <1>3, <1>5 DEF JobTables
<1>7. QED  BY <1>2, <1>4, <1>5, <1>6 DEF JobTables, Active

LEMMA NextJobTables ==
    ASSUME IInv, JobTables, [Next]_vars
    PROVE  JobTables'
<1>1. ASSUME UNCHANGED session, jobid_counter' \in {jobid_counter, jobid_counter + 1}
      PROVE  JobTables'
  <2>1. jobid_counter \in Nat \ {0}
    BY DEF IInv
  <2>2. 1 .. jobid_counter - 1 \subseteq 1 .. jobid_counter' - 1
    <3>1. \A a \in Nat \ {0} : \A b \in {a, a + 1} : 1 .. a - 1 \subseteq 1 .. b - 1
      OBVIOUS
    <3>2. QED  BY <1>1, <2>1, <3>1
  <2>3. QED  BY <1>1, <2>2 DEF JobTables, session
<1>2. ASSUME NEW j \in Jobspecs, NEW op \in {"allocate", "allocate_orelse_reserve"},
             CmdMatch(j, op)
      PROVE  JobTables'
  <2>1. PICK at \in ScheduleTimes(j, op) \ {NoTime} : RecordJob(j, at)
    BY <1>2 DEF CmdMatch
  <2>2. at \in Nat
    BY <2>1, MatchTimes
  <2>3. jobid_counter \in Nat \ {0} /\ jobid_counter' = jobid_counter + 1
    BY <1>2 DEF CmdMatch, IInv
  <2>4. QED  BY <2>1, <2>2, <2>3, RecordJobTables
<1>3. ASSUME NEW id \in DOMAIN jobs, CmdCancel(id)
      PROVE  JobTables'
  <2>1. Forget(id) /\ UNCHANGED jobid_counter /\ id \in allocations \cup reservations
    BY <1>3, CmdCancelIInv DEF CmdCancel
  <2>2. QED  BY <2>1, ForgetTables
<1>4. ASSUME NEW j \in Jobspecs, NEW op \in {"allocate", "allocate_orelse_reserve"},
             CmdMatchFails(j, op) \/ CmdMatchAstray(j, op)
      PROVE  JobTables'
  BY <1>1, <1>4 DEF CmdMatchFails, CmdMatchAstray
<1>5. CASE UNCHANGED vars
  BY <1>1, <1>5 DEF vars
<1>6. QED  BY <1>2, <1>3, <1>4, <1>5 DEF Next

LEMMA JobTablesInvariance == ASSUME MaxJobs <= XCheckerNJobs PROVE Spec => []JobTables
<1>1. Init => JobTables
  BY DEF Init, JobTables
<1>2. IInv /\ JobTables /\ [Next]_vars => JobTables'
  BY NextJobTables
<1>3. QED  BY <1>1, <1>2, SessionInvariance, PTL DEF Spec

\* A cancel of a job that the session knows as allocated or reserved finds
\* every span it looks for, and the session then forgets this job and no other:
\* do_remove of command.cpp never reports a failure of the traverser.
THEOREM CancelNeverFails ==
    ASSUME MaxJobs <= XCheckerNJobs
    PROVE  Spec => [][\A id \in Active : CmdCancel(id) =>
                        RemoveSucceeds(id) /\ Active' = Active \ {id}]_vars
<1> DEFINE Cancels == \A id \in Active : CmdCancel(id) =>
                        RemoveSucceeds(id) /\ Active' = Active \ {id}
<1>1. IInv /\ JobTables => Cancels
  <2> SUFFICES ASSUME IInv, JobTables, NEW id \in Active, CmdCancel(id)
               PROVE  RemoveSucceeds(id) /\ Active' = Active \ {id}
    OBVIOUS
  <2>1. RemoveSucceeds(id)
    BY CmdCancelIInv
  <2>2. Forget(id) /\ UNCHANGED jobid_counter /\ id \in allocations \cup reservations
    BY <2>1 DEF CmdCancel
  <2>3. QED  BY <2>1, <2>2, ForgetTables
<1> HIDE DEF Cancels
<1>2. Spec => [][Cancels]_vars
  BY <1>1, SessionInvariance, JobTablesInvariance, PTL
<1>3. QED  BY <1>2 DEF Cancels

-----------------------------------------------------------------------------
(*****************************************************************************)
(* What select() promises to update(): of every vertex that it has marked,   *)
(* what is needed is free there. Its walk is a recursive function over the   *)
(* graph whose visits fold what the kids hand up, cut it into slots and sort *)
(* it; at each of these turns the edges are among those explored, and these  *)
(* need what is free at their targets, and not nothing.                      *)
(*****************************************************************************)

-----------------------------------------------------------------------------
(* What is handed up and what is marked. Of a vertex, N has the uses that  *)
(* an edge to it may ask for: an amount, exclusive or not.                 *)

Uses == [needs : Nat, exclusive : BOOLEAN]
Edges(N) == {e \in [to : Vertices, needs : Nat, exclusive : BOOLEAN] :
                [needs |-> e.needs, exclusive |-> e.exclusive] \in N[e.to]}
EdgeGroups(N) == [score : Nat, count : Nat, edges : Seq(Edges(N))]
Types == {Type[u] : u \in Vertices} \cup {"slot"}

AllMarks(N) ==
    {marks \in UNION {[D -> Uses] : D \in SUBSET Vertices} :
        \A v \in DOMAIN marks : marks[v] \in N[v]}

\* What may be used may be used exclusively, as a slot does.
MayTighten(N) ==
    \A v \in Vertices : \A needs \in Nat : \A x \in BOOLEAN :
        [needs |-> needs, exclusive |-> x] \in N[v] => [needs |-> needs, exclusive |-> TRUE] \in N[v]

LEMMA MarksMeans ==
    ASSUME NEW N, NEW marks
    PROVE  marks \in AllMarks(N) <=>
             /\ marks = [v \in DOMAIN marks |-> marks[v]] /\ DOMAIN marks \subseteq Vertices
             /\ \A v \in DOMAIN marks : marks[v] \in Uses /\ marks[v] \in N[v]
BY DEF AllMarks

LEMMA MarksTogether ==
    ASSUME NEW N, NEW marks \in AllMarks(N), NEW other \in AllMarks(N)
    PROVE  With(marks, other) \in AllMarks(N)
<1> DEFINE m == With(marks, other)
<1>1. m = [v \in DOMAIN marks \cup DOMAIN other |->
              IF v \in DOMAIN other THEN other[v] ELSE marks[v]]
  BY DEF With
<1>2. /\ DOMAIN marks \subseteq Vertices /\ DOMAIN other \subseteq Vertices
      /\ \A v \in DOMAIN marks : marks[v] \in Uses /\ marks[v] \in N[v]
      /\ \A v \in DOMAIN other : other[v] \in Uses /\ other[v] \in N[v]
  BY MarksMeans
<1> HIDE DEF m
<1>3. /\ m = [v \in DOMAIN m |-> m[v]] /\ DOMAIN m = DOMAIN marks \cup DOMAIN other
      /\ \A v \in DOMAIN other : m[v] = other[v]
      /\ \A v \in DOMAIN marks \ DOMAIN other : m[v] = marks[v]
  BY <1>1
<1>4. m \in AllMarks(N)
  BY <1>2, <1>3, MarksMeans
<1>5. QED  BY <1>4 DEF m

LEMMA EdgesMarked ==
    ASSUME NEW N, NEW edges \in SUBSET Edges(N)
    PROVE  Marked(edges) \in AllMarks(N)
<1> DEFINE D == {e.to : e \in edges}
           pick(v) == CHOOSE e \in edges : e.to = v
           use(v) == [needs |-> pick(v).needs, exclusive |-> pick(v).exclusive]
           m == [v \in D |-> use(v)]
<1>1. Marked(edges) = m
  BY DEF Marked
<1>2. \A v \in D : pick(v) \in edges /\ pick(v).to = v
  OBVIOUS
<1> HIDE DEF pick
<1>3. \A v \in D : v \in Vertices /\ use(v) \in Uses /\ use(v) \in N[v]
  BY <1>2 DEF Edges, Uses
<1> HIDE DEF D, use
<1>4. \A v \in D : m[v] \in Uses /\ m[v] \in N[v]
  BY <1>3
<1>5. m = [v \in DOMAIN m |-> m[v]] /\ DOMAIN m = D
  OBVIOUS
<1> HIDE DEF m
<1>6. DOMAIN m \subseteq Vertices
  BY <1>3, <1>5
<1>7. QED  BY <1>1, <1>4, <1>5, <1>6, MarksMeans

LEMMA EdgesOfGroups ==
    ASSUME NEW N, NEW groups \in Seq(EdgeGroups(N))
    PROVE  EdgesOf(groups) \subseteq Edges(N)
<1>1. \A i \in DOMAIN groups : groups[i] \in EdgeGroups(N)
  BY SeqMeans
<1>2. \A i \in DOMAIN groups : \A k \in DOMAIN groups[i].edges : groups[i].edges[k] \in Edges(N)
  BY <1>1, SeqMeans DEF EdgeGroups
<1>3. QED  BY <1>2 DEF EdgesOf, Range

-----------------------------------------------------------------------------
(* Groups by type: evals has those of G[type] for each type. *)

EvalsIn(G) ==
    {evals \in UNION {[D -> UNION {Seq(G[type]) : type \in Types}] : D \in SUBSET Types} :
        \A type \in DOMAIN evals : evals[type] \in Seq(G[type])}

AnyGroup(N) == [type \in Types |-> EdgeGroups(N)]

\* Every group has an edge, those of slots aside.
SolidGroups(N) == {group \in EdgeGroups(N) : group.edges # <<>>}
SolidGroup(N) == [type \in Types |-> IF type = "slot" THEN EdgeGroups(N) ELSE SolidGroups(N)]

LEMMA EvalsMeans ==
    ASSUME NEW G, NEW evals
    PROVE  evals \in EvalsIn(G) <=>
             /\ evals = [type \in DOMAIN evals |-> evals[type]] /\ DOMAIN evals \subseteq Types
             /\ \A type \in DOMAIN evals : evals[type] \in Seq(G[type])
BY DEF EvalsIn

LEMMA GroupsType ==
    ASSUME NEW G, NEW evals \in EvalsIn(G), NEW type
    PROVE  Groups(evals, type) \in Seq(G[type])
<1>1. \A t \in DOMAIN evals : evals[t] \in Seq(G[t])
  BY EvalsMeans
<1>2. <<>> \in Seq(G[type])
  BY EmptySeq
<1>3. QED  BY <1>1, <1>2 DEF Groups

LEMMA NoEvalsType == \A G : NoEvals \in EvalsIn(G)
BY EvalsMeans DEF NoEvals

LEMMA GroupsAdded ==
    ASSUME NEW G, NEW evals \in EvalsIn(G), NEW type \in Types, NEW groups \in Seq(G[type])
    PROVE  AddGroups(evals, type, groups) \in EvalsIn(G)
<1> DEFINE e == AddGroups(evals, type, groups)
<1>1. e = [t \in DOMAIN evals \cup {type} |->
              IF t = type THEN Groups(evals, t) \o groups ELSE evals[t]]
  BY DEF AddGroups
<1>2. DOMAIN evals \subseteq Types /\ \A t \in DOMAIN evals : evals[t] \in Seq(G[t])
  BY EvalsMeans
<1>3. Groups(evals, type) \o groups \in Seq(G[type])
  BY GroupsType, ConcatProperties
<1> HIDE DEF e
<1>4. e = [t \in DOMAIN e |-> e[t]] /\ DOMAIN e \subseteq Types
  BY <1>1, <1>2
<1>5. \A t \in DOMAIN e : e[t] \in Seq(G[t])
  BY <1>1, <1>2, <1>3
<1>6. e \in EvalsIn(G)
  BY <1>4, <1>5, EvalsMeans
<1>7. QED  BY <1>6 DEF e

LEMMA EvalsMerged ==
    ASSUME NEW G, NEW evals \in EvalsIn(G), NEW other \in EvalsIn(G)
    PROVE  MergeEvals(evals, other) \in EvalsIn(G)
<1> DEFINE e == MergeEvals(evals, other)
<1>1. e = [t \in DOMAIN evals \cup DOMAIN other |-> Groups(evals, t) \o Groups(other, t)]
  BY DEF MergeEvals
<1>2. DOMAIN evals \subseteq Types /\ DOMAIN other \subseteq Types
  BY EvalsMeans
<1>3. \A t : Groups(evals, t) \o Groups(other, t) \in Seq(G[t])
  BY GroupsType, ConcatProperties
<1> HIDE DEF e
<1>4. e = [t \in DOMAIN e |-> e[t]] /\ DOMAIN e \subseteq Types
  BY <1>1, <1>2
<1>5. \A t \in DOMAIN e : e[t] \in Seq(G[t])
  BY <1>1, <1>3
<1>6. e \in EvalsIn(G)
  BY <1>4, <1>5, EvalsMeans
<1>7. QED  BY <1>6 DEF e


LEMMA SolidAreGroups ==
    ASSUME NEW N, NEW evals \in EvalsIn(SolidGroup(N))
    PROVE  evals \in EvalsIn(AnyGroup(N))
<1> DEFINE S == SolidGroup(N)
           A == AnyGroup(N)
<1>1. \A type \in Types : S[type] \subseteq A[type]
  BY DEF SolidGroup, AnyGroup, SolidGroups
<1> HIDE DEF S, A
<1>2. \A type \in Types : \A s \in Seq(S[type]) : s \in Seq(A[type])
  BY <1>1, SeqMonotonic
<1>3. /\ evals = [type \in DOMAIN evals |-> evals[type]] /\ DOMAIN evals \subseteq Types
      /\ \A type \in DOMAIN evals : evals[type] \in Seq(S[type])
  BY EvalsMeans DEF S
<1>4. evals \in EvalsIn(A)
  BY <1>2, <1>3, EvalsMeans
<1>5. QED  BY <1>4 DEF A

LEMMA AnyGroups ==
    ASSUME NEW N, NEW evals \in EvalsIn(AnyGroup(N)), NEW type
    PROVE  Groups(evals, type) \in Seq(EdgeGroups(N))
<1>1. DOMAIN evals \subseteq Types /\ \A t \in DOMAIN evals : evals[t] \in Seq(AnyGroup(N)[t])
  BY EvalsMeans
<1>2. \A t \in DOMAIN evals : evals[t] \in Seq(EdgeGroups(N))
  BY <1>1 DEF AnyGroup
<1>3. <<>> \in Seq(EdgeGroups(N))
  BY EmptySeq
<1>4. QED  BY <1>2, <1>3 DEF Groups

\* Groups that are chosen for a request are groups of its type.
LEMMA ChosenAreGroups ==
    ASSUME NEW N, NEW evals \in EvalsIn(AnyGroup(N)), NEW R, NEW resources \in Seq(R),
           NEW i \in DOMAIN resources
    PROVE  ChosenGroups(evals, resources, i) \in Seq(EdgeGroups(N))
<1> DEFINE seen == Seen(evals, resources, i)
           groups == Groups(evals, resources[i].type)
<1>1. i \in 1 .. i
  BY SeqMeans
<1>2. \A type : \A k \in DOMAIN Groups(evals, type) : Groups(evals, type)[k].score \in Nat
  <2>1. \A type : Groups(evals, type) \in Seq(EdgeGroups(N))
    BY AnyGroups
  <2>2. \A type : \A k \in DOMAIN Groups(evals, type) :
            Groups(evals, type)[k] \in EdgeGroups(N)
    BY <2>1, SeqMeans
  <2>3. QED  BY <2>2 DEF EdgeGroups
<1>3. seen \in SUBSET Nat
  BY <1>2 DEF Seen, Scores
<1>4. Scores(groups) \subseteq seen
  BY <1>1 DEF Seen
<1>5. groups \in Seq(EdgeGroups(N)) /\ \A k \in DOMAIN groups : groups[k].score \in Nat
  BY <1>2, AnyGroups
<1> HIDE DEF seen, groups
<1>6. Ranked(Policy, seen, groups) \in Seq(EdgeGroups(N))
  BY <1>3, <1>4, <1>5, RankedChooses, ResourceAssumption
<1>7. QED  BY <1>6, BestKType DEF ChosenGroups, seen, groups

LEMMA EnforcedMarks ==
    ASSUME NEW N, NEW evals \in EvalsIn(AnyGroup(N)), NEW R, NEW resources \in Seq(R)
    PROVE  Enforced(evals, resources) \in AllMarks(N)
<1> DEFINE edges == UNION {EdgesOf(ChosenGroups(evals, resources, i)) : i \in DOMAIN resources}
<1>1. \A i \in DOMAIN resources : EdgesOf(ChosenGroups(evals, resources, i)) \subseteq Edges(N)
  BY ChosenAreGroups, EdgesOfGroups
<1>2. edges \in SUBSET Edges(N)
  BY <1>1
<1> HIDE DEF edges
<1>3. Marked(edges) \in AllMarks(N)
  BY <1>2, EdgesMarked
<1>4. QED  BY <1>3 DEF Enforced, edges

\* What qualifies is an amount, and what is chosen of it is no more.
LEMMA ChosenType ==
    ASSUME NEW N, NEW evals \in EvalsIn(AnyGroup(N)), NEW r, Countable(r)
    PROVE  QualifiedCount(evals, r.type) \in Nat /\ Chosen(evals, r) \in Nat
<1> DEFINE groups == Groups(evals, r.type)
<1>1. groups \in Seq(EdgeGroups(N))
  BY AnyGroups
<1> HIDE DEF groups
<1>2. \A i \in DOMAIN groups : groups[i].count \in Nat
  <2>1. \A i \in DOMAIN groups : groups[i] \in EdgeGroups(N)
    BY <1>1, SeqMeans
  <2>2. QED  BY <2>1 DEF EdgeGroups
<1>3. QualifiedCount(evals, r.type) \in Nat
  BY <1>1, <1>2, TotalType DEF QualifiedCount, groups
<1>4. Chosen(evals, r) \in 0 .. QualifiedCount(evals, r.type)
  BY <1>3, SelectsWhatQualifies DEF Chosen
<1>5. QED  BY <1>3, <1>4

-----------------------------------------------------------------------------
(* Slots. *)

\* The candidates of a slot begin where those of the one before end.
LEMMA CursorAdvances ==
    ASSUME NEW G, NEW groups, groups \in Seq(G), NEW need
    PROVE  \A k \in Nat :
               /\ CursorAfter(groups, need, k) \in 0 .. Len(groups) + 1
               /\ CursorAfter(groups, need, k) <= CursorAfter(groups, need, k + 1)
<1> DEFINE X == 0 .. Len(groups) + 1
           ends(c) == {i \in c .. Len(groups) : Total(SubSeq(groups, c + 1, i)) >= need}
                      \cup {Len(groups) + 1}
           next == [c \in X |-> Min(ends(c))]
           Q(f) == f = [k \in Nat |-> IF k = 0 THEN 0 ELSE Min(ends(f[k - 1]))]
           p == CHOOSE f : Q(f)
<1>1. Len(groups) \in Nat
  BY SeqMeans
<1>2. ASSUME NEW c \in X
      PROVE  Min(ends(c)) \in X /\ c <= Min(ends(c))
  <2> DEFINE S == ends(c)
  <2>1. c \in Nat /\ S \in SUBSET Nat /\ S # {} /\ \A i \in S : i \in X /\ c <= i
    BY <1>1
  <2> HIDE DEF S
  <2>2. Min(S) \in S
    BY <2>1, LeastElement
  <2>3. QED  BY <2>1, <2>2 DEF S
<1>3. 0 \in X
  BY <1>1
<1> HIDE DEF ends, X
<1>4. PICK c \in [Nat -> X] : c[0] = 0 /\ \A k \in Nat : c[k + 1] = next[c[k]]
  <2>1. next \in [X -> X]
    BY <1>2
  <2> DEFINE x == 0
  <2>2. x \in X
    BY <1>3
  <2> HIDE DEF next, x
  <2>3. \E c \in [Nat -> X] : c[0] = x /\ \A k \in Nat : c[k + 1] = next[c[k]]
    BY ONLY <2>1, <2>2, NatRecursion
  <2>4. QED  BY <2>3 DEF x
<1>5. Q(c)
  <2>1. ASSUME NEW k \in Nat, k # 0 PROVE c[k] = Min(ends(c[k - 1]))
    <3>1. k - 1 \in Nat /\ (k - 1) + 1 = k
      BY <2>1
    <3>2. c[k] = next[c[k - 1]] /\ c[k - 1] \in X
      <4> HIDE DEF next
      <4>1. QED  BY <1>4, <3>1
    <3>3. QED  BY <3>2
  <2> DEFINE d == [k \in Nat |-> IF k = 0 THEN 0 ELSE Min(ends(c[k - 1]))]
  <2>2. \A k \in Nat : c[k] = d[k]
    BY <1>4, <2>1
  <2>3. c = [k \in Nat |-> c[k]] /\ d = [k \in Nat |-> d[k]]
    BY <1>4
  <2> HIDE DEF d
  <2>4. c = d
    BY <2>2, <2>3
  <2>5. QED  BY <2>4 DEF d
<1>6. Q(p)
  <2> HIDE DEF Q
  <2>1. QED  BY <1>5
<1> HIDE DEF p
<1>7. p[0] = 0 /\ \A k \in Nat : p[k + 1] = Min(ends(p[k]))
  <2>1. \A k \in Nat : k + 1 \in Nat /\ k + 1 # 0 /\ (k + 1) - 1 = k
    OBVIOUS
  <2>2. \A k \in Nat : k # 0 => p[k] = Min(ends(p[k - 1]))
    BY <1>6
  <2>3. QED  BY <1>6, <2>1, <2>2
<1> DEFINE N == {k \in Nat : p[k] \in X}
<1>8. 0 \in N
  BY <1>3, <1>7
<1>9. ASSUME NEW k \in Nat, k \in N PROVE k + 1 \in N
  <2>1. k + 1 \in Nat /\ p[k] \in X
    BY <1>9
  <2>2. p[k + 1] \in X
    BY <1>2, <1>7, <2>1
  <2>3. QED  BY <2>1, <2>2
<1> HIDE DEF N
<1>10. \A k \in Nat : p[k] \in X
  BY <1>8, <1>9, SetInduction DEF N
<1>11. \A k \in Nat : p[k] <= p[k + 1]
  BY <1>2, <1>7, <1>10
<1>12. \A k : CursorAfter(groups, need, k) = p[k]
  BY DEF CursorAfter, p, ends
<1>13. QED  BY <1>10, <1>11, <1>12 DEF X

\* If the last slot ends within the candidates, so do those before.
LEMMA CursorStays ==
    ASSUME NEW G, NEW groups \in Seq(G), NEW need, NEW n \in Nat,
           CursorAfter(groups, need, n) <= Len(groups)
    PROVE  \A i \in 1 .. n : SubSeq(groups, CursorAfter(groups, need, i - 1) + 1,
                                            CursorAfter(groups, need, i)) \in Seq(G)
<1> DEFINE c(k) == CursorAfter(groups, need, k)
           M == {m \in Nat : m <= n => c(n - m) <= Len(groups)}
<1>1. Len(groups) \in Nat /\ \A k \in Nat : c(k) \in Nat /\ c(k) <= c(k + 1)
  <2>1. Len(groups) \in Nat
    BY SeqMeans
  <2>2. QED  BY <2>1, CursorAdvances
<1>2. 0 \in M
  OBVIOUS
<1>3. ASSUME NEW m \in Nat, m \in M PROVE m + 1 \in M
  <2> SUFFICES ASSUME m + 1 <= n PROVE c(n - (m + 1)) <= Len(groups)
    OBVIOUS
  <2> DEFINE k == n - (m + 1)
  <2>1. k \in Nat /\ k + 1 = n - m /\ m <= n
    OBVIOUS
  <2>2. c(n - m) <= Len(groups)
    BY <1>3, <2>1
  <2> HIDE DEF c, k
  <2>3. c(k) \in Nat /\ c(k) <= c(k + 1) /\ c(k + 1) \in Nat
    <3>1. k + 1 \in Nat
      BY <2>1
    <3>2. QED  BY <1>1, <2>1, <3>1
  <2>4. c(k) <= Len(groups)
    <3>1. c(k + 1) = c(n - m)
      BY <2>1
    <3>2. QED  BY <1>1, <2>2, <2>3, <3>1
  <2>5. QED  BY <2>4 DEF k
<1> HIDE DEF M
<1>4. \A m \in Nat : m \in M
  BY <1>2, <1>3, SetInduction
<1> SUFFICES ASSUME NEW i \in 1 .. n
             PROVE  SubSeq(groups, c(i - 1) + 1, c(i)) \in Seq(G)
  OBVIOUS
<1>5. c(i) <= Len(groups)
  <2>1. n - i \in Nat /\ n - i <= n /\ n - (n - i) = i
    OBVIOUS
  <2>2. n - i \in M
    BY <1>4, <2>1
  <2> HIDE DEF c
  <2>3. QED  BY <2>1, <2>2 DEF M
<1>6. c(i - 1) \in Nat /\ c(i) \in Nat
  <2>1. i - 1 \in Nat /\ i \in Nat
    OBVIOUS
  <2> HIDE DEF c
  <2>2. QED  BY <1>1, <2>1
<1> HIDE DEF c
<1>7. QED  BY <1>5, <1>6, FirstOnes

LEMMA FlattenType ==
    ASSUME NEW S, NEW seqs, seqs \in Seq(Seq(S))
    PROVE  FlattenSeq(seqs) \in Seq(S)
<1> DEFINE A == 1 .. Len(seqs)
           X == Seq(S)
           F == [A -> X]
           body(f, i) == IF i = 1 THEN seqs[i] ELSE f[i - 1] \o seqs[i]
           Q(f) == f = [i \in A |-> body(f, i)]
           next == [f \in F |-> [i \in A |-> body(f, i)]]
           rank == [i \in A |-> i]
           start == [i \in A |-> <<>>]
<1>1. Len(seqs) \in Nat /\ \A i \in A : seqs[i] \in X
  BY SeqMeans
<1>2. \A i \in A : i # 1 => i - 1 \in A /\ i - 1 < i
  BY <1>1
<1>3. ASSUME NEW f \in F, NEW i \in A PROVE body(f, i) \in X
  <2>1. CASE i = 1
    BY <1>1, <2>1
  <2>2. CASE i # 1
    <3>1. f[i - 1] \in Seq(S) /\ seqs[i] \in Seq(S)
      BY <1>1, <1>2, <2>2
    <3>2. f[i - 1] \o seqs[i] \in Seq(S)
      BY <3>1, ConcatProperties
    <3>3. QED  BY <2>2, <3>2
  <2>3. QED  BY <2>1, <2>2
<1>4. next \in [F -> F]
  <2> HIDE DEF body, A, X
  <2>1. QED  BY <1>3
<1>5. ASSUME NEW f, NEW g, NEW i \in A, \A b \in A : rank[b] < rank[i] => f[b] = g[b]
      PROVE  body(f, i) = body(g, i)
  <2>1. \A b \in A : rank[b] = b
    OBVIOUS
  <2> HIDE DEF rank, A
  <2>2. QED  BY <1>2, <1>5, <2>1
<1>6. start \in F /\ rank \in [A -> Nat] /\ PointByPoint(F, A)
  <2>1. <<>> \in X /\ \A i \in A : i \in Nat
    BY EmptySeq
  <2> HIDE DEF A, X
  <2>2. QED  BY <2>1, AllPointByPoint
<1>7. \A f \in F : next[f] = [i \in A |-> body(f, i)]
  OBVIOUS
<1>8. \A f \in F : \A i \in A : next[f][i] = body(f, i)
  OBVIOUS
<1> HIDE DEF next, rank, start, F, A, X, body
<1>9. \E f : Q(f)
  <2>1. \A f, g \in F : \A a \in A :
            (\A b \in A : rank[b] < rank[a] => f[b] = g[b]) => next[f][a] = next[g][a]
    BY <1>5, <1>8
  <2>2. PICK f \in F : f = next[f]
    BY ONLY <1>4, <1>6, <2>1, RankedRecursion
  <2>3. QED  BY <1>7, <2>2
<1> DEFINE p == CHOOSE f : Q(f)
<1>10. p = [i \in A |-> body(p, i)]
  BY <1>9
<1> HIDE DEF p
<1>11. \A i \in A : p[i] = body(p, i)
  BY <1>10
<1>12. p \in F
  <2>1. p = [i \in A |-> p[i]]
    BY <1>10
  <2>2. \A g \in F : \A a \in A :
            (\A b \in A : rank[b] < rank[a] => p[b] = g[b]) => p[a] = next[g][a]
    BY <1>5, <1>8, <1>11
  <2>3. QED  BY ONLY <1>4, <1>6, <2>1, <2>2, RankedSolution
<1>13. CASE Len(seqs) = 0
  <2>1. FlattenSeq(seqs) = seqs /\ seqs = <<>>
    <3>1. FlattenSeq(seqs) = seqs
      BY <1>13 DEF FlattenSeq
    <3>2. seqs = <<>>
      BY <1>13, EmptySeq
    <3>3. QED  BY <3>1, <3>2
  <2>2. QED  BY <2>1, EmptySeq
<1>14. CASE Len(seqs) # 0
  <2>1. FlattenSeq(seqs) = p[Len(seqs)]
    BY <1>14 DEF FlattenSeq, p, body, A
  <2>2. Len(seqs) \in A
    BY <1>1, <1>14 DEF A
  <2>3. QED  BY <1>12, <2>1, <2>2 DEF F, X
<1>15. QED  BY <1>13, <1>14

LEMMA SlotGroupType ==
    ASSUME NEW N, MayTighten(N), NEW parts, parts \in Seq(SolidGroups(N))
    PROVE  SlotGroup(parts) \in EdgeGroups(N)
<1> DEFINE D == DOMAIN parts
           scores == [i \in D |-> parts[i].score]
           edge(i) == [parts[i].edges[1] EXCEPT !.exclusive = TRUE]
           edges == [i \in D |-> edge(i)]
<1>1. /\ Len(parts) \in Nat /\ D = 1 .. Len(parts)
      /\ \A i \in D : parts[i] \in SolidGroups(N)
  BY SeqMeans
<1>2. \A i \in D : parts[i].score \in Nat /\ parts[i].edges \in Seq(Edges(N)) \ {<<>>}
  <2>1. \A i \in D : parts[i] \in EdgeGroups(N) /\ parts[i].edges # <<>>
    BY <1>1 DEF SolidGroups
  <2>2. QED  BY <2>1 DEF EdgeGroups
<1>3. ASSUME NEW i \in D PROVE edge(i) \in Edges(N)
  <2> DEFINE s == parts[i].edges
             e == s[1]
  <2>1. s \in Seq(Edges(N)) /\ s # <<>>
    BY <1>2
  <2> HIDE DEF s
  <2>2. Len(s) \in Nat \ {0}
    BY <2>1, EmptySeq
  <2>3. e \in Edges(N)
    BY <2>1, <2>2, ElementOfSeq
  <2> HIDE DEF e
  <2>4. [e EXCEPT !.exclusive = TRUE] \in Edges(N)
    <3>1. /\ e.to \in Vertices /\ e.needs \in Nat /\ e.exclusive \in BOOLEAN
          /\ e = [to |-> e.to, needs |-> e.needs, exclusive |-> e.exclusive]
          /\ [needs |-> e.needs, exclusive |-> e.exclusive] \in N[e.to]
      BY <2>3 DEF Edges
    <3>2. [needs |-> e.needs, exclusive |-> TRUE] \in N[e.to]
      BY <3>1 DEF MayTighten
    <3> DEFINE f == [e EXCEPT !.exclusive = TRUE]
    <3>3. /\ f \in [to : Vertices, needs : Nat, exclusive : BOOLEAN]
          /\ f.to = e.to /\ f.needs = e.needs /\ f.exclusive = TRUE
      BY <3>1
    <3> HIDE DEF f
    <3>4. f \in Edges(N)
      BY <3>2, <3>3 DEF Edges
    <3>5. QED  BY <3>4 DEF f
  <2>5. QED  BY <2>4 DEF e, s
<1>4. edges \in Seq(Edges(N))
  <2>1. edges = [i \in D |-> edges[i]] /\ \A i \in D : edges[i] \in Edges(N)
    BY <1>3
  <2> HIDE DEF edges
  <2>2. QED  BY <2>1, SeqOnDomain
<1>5. SumFunction(scores) \in Nat
  <2>1. IsFiniteSet(D)
    BY <1>1, FS_Interval
  <2>2. \A i \in D : scores[i] \in Nat
    BY <1>2
  <2>3. SumFunction(scores) = Sum(scores, D)
    BY DEF SumFunction, Sum
  <2> HIDE DEF scores, D
  <2>4. QED  BY <2>1, <2>2, <2>3, SumGrows
<1>6. SlotGroup(parts) = [score |-> 1 + SumFunction(scores), count |-> 1, edges |-> edges]
  BY DEF SlotGroup
<1> HIDE DEF scores, edges
<1>7. QED  BY <1>4, <1>5, <1>6 DEF EdgeGroups

LEMMA SlotRankedType ==
    ASSUME NEW G, NEW groups, groups \in Seq(G), \A i \in DOMAIN groups : groups[i].score \in Nat
    PROVE  SlotRanked(groups) \in Seq(G) /\ Len(SlotRanked(groups)) = Len(groups)
<1>1. CASE Policy = "high"
  <2> DEFINE ranked == Ranked(Policy, {}, groups)
  <2>1. {} \in SUBSET Nat /\ Policy # "locality"
    BY <1>1
  <2>2. ranked \in Seq(G) /\ DOMAIN ranked = DOMAIN groups
    BY <2>1, RankedChooses, ResourceAssumption
  <2> HIDE DEF ranked
  <2>3. /\ Len(ranked) \in Nat /\ DOMAIN ranked = 1 .. Len(ranked)
        /\ Len(groups) \in Nat /\ DOMAIN groups = 1 .. Len(groups)
    BY <2>2, SeqMeans
  <2>4. Len(ranked) = Len(groups)
    <3> DEFINE a == Len(ranked)
               b == Len(groups)
    <3>1. a \in Nat /\ b \in Nat /\ 1 .. a = 1 .. b
      BY <2>2, <2>3
    <3> HIDE DEF a, b
    <3>2. (a > b => a \in 1 .. a /\ a \notin 1 .. b) /\ (b > a => b \in 1 .. b /\ b \notin 1 .. a)
      BY <3>1
    <3>3. a = b
      BY <3>1, <3>2
    <3>4. QED  BY <3>3 DEF a, b
  <2>5. QED  BY <1>1, <2>2, <2>4 DEF SlotRanked, ranked
<1>2. CASE Policy # "high"
  BY <1>2 DEF SlotRanked
<1>3. QED  BY <1>1, <1>2

\* The candidates of a type are ranked before they go into slots.
LEMMA SlotCandidates ==
    ASSUME NEW N, NEW evals \in EvalsIn(SolidGroup(N)), NEW type \in Types \ {"slot"}
    PROVE  /\ SlotRanked(Groups(evals, type)) \in Seq(SolidGroups(N))
           /\ Len(SlotRanked(Groups(evals, type))) = Len(Groups(evals, type))
<1> DEFINE groups == Groups(evals, type)
<1>1. groups \in Seq(SolidGroups(N))
  <2>1. SolidGroup(N)[type] = SolidGroups(N)
    BY DEF SolidGroup
  <2>2. QED  BY <2>1, GroupsType
<1> HIDE DEF groups
<1>2. \A i \in DOMAIN groups : groups[i].score \in Nat
  <2>1. \A i \in DOMAIN groups : groups[i] \in SolidGroups(N)
    BY <1>1, SeqMeans
  <2>2. QED  BY <2>1 DEF SolidGroups, EdgeGroups
<1>3. QED  BY <1>1, <1>2, SlotRankedType DEF groups

\* The requests of a slot: each for something that a vertex can be.
Shape(shape) ==
    /\ shape # <<>> /\ \E R : shape \in Seq(R)
    /\ \A r \in Range(shape) : Countable(r) /\ r.type \in Types \ {"slot"}

LEMMA QualifiedSlotsType ==
    ASSUME NEW N, NEW evals \in EvalsIn(SolidGroup(N)), NEW shape, Shape(shape)
    PROVE  QualifiedSlots(evals, shape) \in Nat
<1> DEFINE slots(r) == IF Chosen(evals, r) = 0 THEN 0
                       ELSE QualifiedCount(evals, r.type) \div Chosen(evals, r)
           S == {slots(r) : r \in Range(shape)}
<1>1. PICK R : shape \in Seq(R) /\ shape # <<>>
  BY DEF Shape
<1>2. Range(shape) # {}
  <2>1. Len(shape) \in Nat \ {0} /\ DOMAIN shape = 1 .. Len(shape)
    BY <1>1, EmptySeq, SeqMeans
  <2>2. 1 \in DOMAIN shape
    BY <2>1
  <2>3. QED  BY <2>2 DEF Range
<1>3. ASSUME NEW r \in Range(shape) PROVE slots(r) \in Nat
  <2> DEFINE a == QualifiedCount(evals, r.type)
             b == Chosen(evals, r)
  <2>1. a \in Nat /\ b \in Nat
    BY SolidAreGroups, ChosenType DEF Shape
  <2> HIDE DEF a, b
  <2>2. b # 0 => a \div b \in Nat
    BY <2>1
  <2>3. QED  BY <2>2 DEF a, b
<1>4. S \in SUBSET Nat /\ S # {}
  <2> HIDE DEF slots
  <2>1. QED  BY <1>2, <1>3
<1>5. Min(S) \in Nat
  <2> HIDE DEF S
  <2>1. QED  BY <1>4, LeastElement
<1>6. QED  BY <1>5 DEF QualifiedSlots

\* If no slot goes past the candidates, each is a group with edges of theirs.
LEMMA SlotsType ==
    ASSUME NEW N, MayTighten(N), NEW evals \in EvalsIn(SolidGroup(N)), NEW shape, Shape(shape), NEW n \in Nat,
           \A r \in Range(shape) :
               CursorAfter(SlotRanked(Groups(evals, r.type)), Chosen(evals, r), n)
                   <= Len(Groups(evals, r.type))
    PROVE  Slots(evals, shape, n) \in Seq(EdgeGroups(N))
<1> DEFINE parts(i) == [k \in DOMAIN shape |-> SlotPart(evals, shape[k], i)]
           slot(i) == SlotGroup(FlattenSeq(parts(i)))
           slots == [i \in 1 .. n |-> slot(i)]
<1>1. PICK R : shape \in Seq(R)
  BY DEF Shape
<1>2. ASSUME NEW i \in 1 .. n PROVE slot(i) \in EdgeGroups(N)
  <2>1. ASSUME NEW k \in DOMAIN shape
        PROVE  SlotPart(evals, shape[k], i) \in Seq(SolidGroups(N))
    <3> DEFINE r == shape[k]
               groups == Groups(evals, r.type)
               ranked == SlotRanked(groups)
               need == Chosen(evals, r)
    <3>1. r \in Range(shape) /\ r.type \in Types \ {"slot"}
      BY DEF Range, Shape
    <3>2. ranked \in Seq(SolidGroups(N)) /\ Len(ranked) = Len(groups)
      BY <3>1, SlotCandidates
    <3>3. CursorAfter(ranked, need, n) <= Len(ranked)
      BY <3>1, <3>2
    <3> HIDE DEF r
    <3>4. SlotPart(evals, r, i) = SubSeq(ranked, CursorAfter(ranked, need, i - 1) + 1,
                                                 CursorAfter(ranked, need, i))
      BY DEF SlotPart
    <3> HIDE DEF ranked, need
    <3>5. SubSeq(ranked, CursorAfter(ranked, need, i - 1) + 1, CursorAfter(ranked, need, i))
              \in Seq(SolidGroups(N))
      BY <3>2, <3>3, CursorStays
    <3>6. QED  BY <3>4, <3>5 DEF r
  <2>2. parts(i) = [k \in DOMAIN shape |-> parts(i)[k]]
        /\ \A k \in DOMAIN shape : parts(i)[k] \in Seq(SolidGroups(N))
    BY <2>1
  <2> HIDE DEF parts
  <2>3. parts(i) \in Seq(Seq(SolidGroups(N)))
    BY <1>1, <2>2, SeqOnDomain
  <2>4. QED  BY <2>3, FlattenType, SlotGroupType
<1>3. Slots(evals, shape, n) = slots
  BY DEF Slots
<1> HIDE DEF slot
<1>4. slots \in Seq(EdgeGroups(N))
  <2>1. slots \in [1 .. n -> EdgeGroups(N)]
    BY <1>2
  <2>2. QED  BY <2>1, SeqDef
<1>5. QED  BY <1>3, <1>4

-----------------------------------------------------------------------------
(* The records of the walk. *)

Dfus(N) == [evals : EvalsIn(SolidGroup(N)), marks : AllMarks(N), overrun : BOOLEAN]
VisitRecords(N) == [ok : BOOLEAN, score : Nat, avail : Nat, exclusive : BOOLEAN,
                    evals : EvalsIn(SolidGroup(N)), marks : AllMarks(N), overrun : BOOLEAN]

\* The use of a vertex that its visit leads to.
Use(r) == [needs |-> r.avail, exclusive |-> r.exclusive]

LEMMA DomSlotType ==
    ASSUME NEW N, MayTighten(N), NEW dfu \in Dfus(N), NEW shape, Shape(shape)
    PROVE  DomSlot(dfu, shape) \in Dfus(N)
<1> DEFINE n == QualifiedSlots(dfu.evals, shape)
           past == \E r \in Range(shape) :
                       \E groups \in {Groups(dfu.evals, r.type)} :
                           CursorAfter(SlotRanked(groups), Chosen(dfu.evals, r), n) > Len(groups)
<1>1. dfu.evals \in EvalsIn(SolidGroup(N))
  BY DEF Dfus
<1>2. n \in Nat
  BY <1>1, QualifiedSlotsType
<1>3. NoEvals \in EvalsIn(SolidGroup(N))
  BY NoEvalsType
<1>4. CASE n = 0
  <2>1. DomSlot(dfu, shape) = [dfu EXCEPT !.evals = NoEvals]
    BY <1>4 DEF DomSlot
  <2>2. QED  BY <1>3, <2>1 DEF Dfus
<1>5. CASE n > 0 /\ past
  <2>1. DomSlot(dfu, shape) = [dfu EXCEPT !.evals = NoEvals, !.overrun = TRUE]
    <3>1. n # 0
      BY <1>2, <1>5
    <3>2. QED  BY <1>5, <3>1 DEF DomSlot
  <2>2. QED  BY <1>3, <2>1 DEF Dfus
<1>6. CASE n # 0 /\ ~ past
  <2> DEFINE slots == Slots(dfu.evals, shape, n)
             evals == AddGroups(NoEvals, "slot", slots)
  <2>1. DomSlot(dfu, shape) = [dfu EXCEPT !.evals = evals]
    BY <1>6 DEF DomSlot
  <2>2. \A r \in Range(shape) :
            CursorAfter(SlotRanked(Groups(dfu.evals, r.type)), Chosen(dfu.evals, r), n)
                <= Len(Groups(dfu.evals, r.type))
    <3> SUFFICES ASSUME NEW r \in Range(shape)
                 PROVE  CursorAfter(SlotRanked(Groups(dfu.evals, r.type)), Chosen(dfu.evals, r), n)
                            <= Len(Groups(dfu.evals, r.type))
      OBVIOUS
    <3> DEFINE groups == Groups(dfu.evals, r.type)
               ranked == SlotRanked(groups)
               c == CursorAfter(ranked, Chosen(dfu.evals, r), n)
    <3>1. ranked \in Seq(SolidGroups(N)) /\ Len(ranked) = Len(groups)
      BY <1>1, SlotCandidates DEF Shape
    <3>2. Len(ranked) \in Nat
      BY <3>1, SeqMeans
    <3>3. c \in Nat
      <4> HIDE DEF ranked, n
      <4>1. c \in 0 .. Len(ranked) + 1
        BY <1>2, <3>1, CursorAdvances
      <4>2. QED  BY <3>2, <4>1
    <3>4. ~ (c > Len(groups))
      BY <1>6
    <3> HIDE DEF c, ranked, groups
    <3>5. c <= Len(groups)
      BY <3>1, <3>2, <3>3, <3>4
    <3>6. QED  BY <3>5 DEF c, ranked, groups
  <2> HIDE DEF n
  <2>3. slots \in Seq(EdgeGroups(N))
    BY <1>1, <1>2, <2>2, SlotsType
  <2> HIDE DEF slots
  <2>4. "slot" \in Types /\ SolidGroup(N)["slot"] = EdgeGroups(N)
    BY DEF Types, SolidGroup
  <2>5. evals \in EvalsIn(SolidGroup(N))
    BY <1>3, <2>3, <2>4, GroupsAdded
  <2> HIDE DEF evals
  <2>6. QED  BY <2>1, <2>5 DEF Dfus
<1>7. QED  BY <1>2, <1>4, <1>5, <1>6

-----------------------------------------------------------------------------
(* What explore gathers from the kids. *)

LEMMA GatherType ==
    ASSUME NEW N, NEW dfu \in Dfus(N), NEW v \in Vertices, NEW r \in VisitRecords(N),
           r.ok => Use(r) \in N[v]
    PROVE  Gather(dfu, v, r) \in Dfus(N)
<1> DEFINE G == SolidGroup(N)
           edge == [to |-> v, needs |-> r.avail, exclusive |-> r.exclusive]
           group == [score |-> r.score, count |-> r.avail, edges |-> <<edge>>]
           merged == MergeEvals(dfu.evals, r.evals)
           evals == IF ~r.ok THEN dfu.evals ELSE AddGroups(merged, Type[v], <<group>>)
           marks == With(dfu.marks, r.marks)
<1>1. /\ dfu.evals \in EvalsIn(G) /\ dfu.marks \in AllMarks(N) /\ dfu.overrun \in BOOLEAN
      /\ r.evals \in EvalsIn(G) /\ r.marks \in AllMarks(N) /\ r.overrun \in BOOLEAN
      /\ r.ok \in BOOLEAN /\ r.score \in Nat /\ r.avail \in Nat /\ r.exclusive \in BOOLEAN
  BY DEF Dfus, VisitRecords
<1>2. marks \in AllMarks(N)
  BY <1>1, MarksTogether
<1>3. evals \in EvalsIn(G)
  <2>1. CASE r.ok
    <3>1. edge \in Edges(N)
      BY <1>1, <2>1 DEF Edges, Use
    <3>2. <<edge>> \in Seq(Edges(N)) /\ <<edge>> # <<>>
      <4> HIDE DEF edge
      <4>1. QED  BY <3>1
    <3>3. group \in SolidGroups(N)
      <4> HIDE DEF edge
      <4>1. QED  BY <1>1, <3>2 DEF SolidGroups, EdgeGroups
    <3>4. Type[v] \in Types /\ G[Type[v]] = SolidGroups(N)
      <4>1. Type[v] \in Types /\ Type[v] # "slot"
        BY VertexAssumption DEF Types
      <4>2. QED  BY <4>1 DEF SolidGroup
    <3>5. <<group>> \in Seq(G[Type[v]])
      <4> HIDE DEF group
      <4>1. QED  BY <3>3, <3>4
    <3>6. merged \in EvalsIn(G)
      BY <1>1, EvalsMerged
    <3> HIDE DEF group, merged, G
    <3>7. AddGroups(merged, Type[v], <<group>>) \in EvalsIn(G)
      BY <3>4, <3>5, <3>6, GroupsAdded
    <3>8. QED  BY <2>1, <3>7
  <2>2. CASE ~ r.ok
    BY <1>1, <2>2
  <2>3. QED  BY <2>1, <2>2
<1>4. Gather(dfu, v, r) =
          [evals |-> evals, marks |-> marks, overrun |-> dfu.overrun \/ r.overrun]
  BY DEF Gather
<1> HIDE DEF evals, marks, G
<1>5. QED  BY <1>1, <1>2, <1>3, <1>4 DEF Dfus, G

\* What the kids in the set s of places have handed up, given this for less.
Explored(visit, u, resources, exclusive, done, s) ==
    IF s = {} THEN Start
    ELSE Gather(done[s \ {Max(s)}], Kids[u][Max(s)],
                visit[<<Kids[u][Max(s)], resources, exclusive>>])

LEMMA ExploreMeans ==
    ASSUME NEW visit, NEW u, NEW resources, NEW exclusive
    PROVE  Explore(visit, u, resources, exclusive) =
               (CHOOSE f : f = [s \in SUBSET DOMAIN Kids[u] |->
                                   Explored(visit, u, resources, exclusive, f, s)])
                   [DOMAIN Kids[u]]
BY DEF Explore, FoldLeft, MapThenFoldSet, Explored

\* The last of some kids.
LEMMA LastKid ==
    ASSUME NEW u \in Vertices, NEW s \in SUBSET DOMAIN Kids[u], s # {}
    PROVE  /\ Max(s) \in s /\ Kids[u][Max(s)] \in Range(Kids[u]) \cap Vertices
           /\ IsFiniteSet(s) /\ Cardinality(s \ {Max(s)}) < Cardinality(s)
<1>1. Kids[u] \in Seq(Vertices)
  BY GraphAssumption
<1>2. /\ Len(Kids[u]) \in Nat /\ DOMAIN Kids[u] = 1 .. Len(Kids[u])
      /\ \A i \in DOMAIN Kids[u] : Kids[u][i] \in Vertices
  BY <1>1, SeqMeans
<1>3. s \in SUBSET Nat /\ \A i \in s : i <= Len(Kids[u])
  BY <1>2
<1>4. Max(s) \in s
  BY <1>2, <1>3, GreatestElement
<1>5. IsFiniteSet(s)
  <2>1. IsFiniteSet(1 .. Len(Kids[u]))
    BY <1>2, FS_Interval
  <2>2. QED  BY <1>2, <2>1, FS_Subset
<1>6. Cardinality(s) \in Nat /\ Cardinality(s \ {Max(s)}) = Cardinality(s) - 1
  BY <1>4, <1>5, FS_CardinalityType, FS_RemoveElement
<1>7. Kids[u][Max(s)] \in Range(Kids[u]) \cap Vertices
  BY <1>2, <1>4 DEF Range
<1>8. QED  BY <1>4, <1>5, <1>6, <1>7

\* Only the visits of kids matter.
LEMMA ExploreLooksAtKids ==
    ASSUME NEW visit, NEW other, NEW u \in Vertices, NEW resources, NEW exclusive,
           \A v \in Range(Kids[u]) :
               visit[<<v, resources, exclusive>>] = other[<<v, resources, exclusive>>]
    PROVE  Explore(visit, u, resources, exclusive) = Explore(other, u, resources, exclusive)
<1> DEFINE A == SUBSET DOMAIN Kids[u]
           P(f) == f = [s \in A |-> Explored(visit, u, resources, exclusive, f, s)]
           Q(f) == f = [s \in A |-> Explored(other, u, resources, exclusive, f, s)]
<1>1. ASSUME NEW f PROVE P(f) <=> Q(f)
  <2> DEFINE d(s) == Explored(visit, u, resources, exclusive, f, s)
             e(s) == Explored(other, u, resources, exclusive, f, s)
  <2>1. \A s \in A : d(s) = e(s)
    BY LastKid DEF Explored
  <2> HIDE DEF d, e
  <2>2. [s \in A |-> d(s)] = [s \in A |-> e(s)]
    BY <2>1
  <2>3. QED  BY <2>2 DEF d, e
<1>2. (CHOOSE f : P(f)) = (CHOOSE f : Q(f))
  <2> HIDE DEF P, Q
  <2>1. QED  BY <1>1
<1>3. QED  BY <1>2, ExploreMeans

LEMMA ExploreType ==
    ASSUME NEW N, NEW visit, NEW u, u \in Vertices, NEW resources, NEW exclusive,
           \A v \in Range(Kids[u]) :
               /\ visit[<<v, resources, exclusive>>] \in VisitRecords(N)
               /\ visit[<<v, resources, exclusive>>].ok =>
                      Use(visit[<<v, resources, exclusive>>]) \in N[v]
    PROVE  Explore(visit, u, resources, exclusive) \in Dfus(N)
<1> DEFINE A == SUBSET DOMAIN Kids[u]
           X == Dfus(N)
           F == [A -> X]
           body(f, s) == Explored(visit, u, resources, exclusive, f, s)
           Q(f) == f = [s \in A |-> body(f, s)]
           next == [f \in F |-> [s \in A |-> body(f, s)]]
           rank == [s \in A |-> Cardinality(s)]
           start == [s \in A |-> Start]
<1>1. Start \in X
  <2>1. NoEntry \in AllMarks(N)
    BY MarksMeans DEF NoEntry
  <2>2. NoEvals \in EvalsIn(SolidGroup(N))
    BY NoEvalsType
  <2>3. QED  BY <2>1, <2>2 DEF Start, Dfus
<1>2. \A s \in A : s # {} => /\ s \ {Max(s)} \in A
                             /\ Kids[u][Max(s)] \in Range(Kids[u]) \cap Vertices
                             /\ Cardinality(s \ {Max(s)}) < Cardinality(s)
  BY LastKid
<1>3. ASSUME NEW f \in F, NEW s \in A PROVE body(f, s) \in X
  <2>1. CASE s = {}
    BY <1>1, <2>1 DEF Explored
  <2>2. CASE s # {}
    <3> DEFINE v == Kids[u][Max(s)]
               dfu == f[s \ {Max(s)}]
               r == visit[<<v, resources, exclusive>>]
    <3>1. dfu \in Dfus(N) /\ v \in Vertices /\ r \in VisitRecords(N) /\ (r.ok => Use(r) \in N[v])
      BY <1>2, <2>2
    <3>2. body(f, s) = Gather(dfu, v, r)
      BY <2>2 DEF Explored
    <3> HIDE DEF dfu, v, r
    <3>3. QED  BY <3>1, <3>2, GatherType
  <2>3. QED  BY <2>1, <2>2
<1>4. next \in [F -> F]
  <2> HIDE DEF body, A, X
  <2>1. QED  BY <1>3
<1>5. ASSUME NEW f, NEW g, NEW s \in A, \A b \in A : rank[b] < rank[s] => f[b] = g[b]
      PROVE  body(f, s) = body(g, s)
  <2>1. \A b \in A : rank[b] = Cardinality(b)
    OBVIOUS
  <2>2. s # {} => f[s \ {Max(s)}] = g[s \ {Max(s)}]
    <3> HIDE DEF rank, A
    <3>1. QED  BY <1>2, <1>5, <2>1
  <2>3. QED  BY <2>2 DEF Explored
<1>6. start \in F /\ rank \in [A -> Nat] /\ PointByPoint(F, A)
  <2>1. \A s \in A : Cardinality(s) \in Nat
    BY LastKid, FS_CardinalityType, FS_EmptySet
  <2> HIDE DEF A, X
  <2>2. QED  BY <1>1, <2>1, AllPointByPoint
<1>7. \A f \in F : next[f] = [s \in A |-> body(f, s)]
  OBVIOUS
<1>8. \A f \in F : \A s \in A : next[f][s] = body(f, s)
  OBVIOUS
<1> HIDE DEF next, rank, start, F, A, X, body
<1>9. \E f : Q(f)
  <2>1. \A f, g \in F : \A a \in A :
            (\A b \in A : rank[b] < rank[a] => f[b] = g[b]) => next[f][a] = next[g][a]
    BY <1>5, <1>8
  <2>2. PICK f \in F : f = next[f]
    BY ONLY <1>4, <1>6, <2>1, RankedRecursion
  <2>3. QED  BY <1>7, <2>2
<1> DEFINE p == CHOOSE f : Q(f)
<1>10. p = [s \in A |-> body(p, s)]
  BY <1>9
<1> HIDE DEF p
<1>11. \A s \in A : p[s] = body(p, s)
  BY <1>10
<1>12. p \in F
  <2>1. p = [s \in A |-> p[s]]
    BY <1>10
  <2>2. \A g \in F : \A a \in A :
            (\A b \in A : rank[b] < rank[a] => p[b] = g[b]) => p[a] = next[g][a]
    BY <1>5, <1>8, <1>11
  <2>3. QED  BY ONLY <1>4, <1>6, <2>1, <2>2, RankedSolution
<1>13. Explore(visit, u, resources, exclusive) = p[DOMAIN Kids[u]]
  BY ExploreMeans DEF p, body, A
<1>14. DOMAIN Kids[u] \in A
  BY DEF A
<1>15. QED  BY <1>12, <1>13, <1>14 DEF F, X

-----------------------------------------------------------------------------
(* A visit. *)

LEMMA RequestFacts ==
    ASSUME NEW resources \in ResourceLists
    PROVE  /\ \E R : resources \in Seq(R)
           /\ \A r \in Range(resources) : /\ Countable(r) /\ r.with \in ResourceLists
                                          /\ r.type = "slot" => r.with # <<>>
<1>1. \A i \in DOMAIN resources :
        /\ resources[i].with \in ResourceLists
        /\ {resources[i].min, resources[i].max, resources[i].operand} \subseteq Nat
        /\ resources[i].oper \in {"+", "*", "^"} /\ resources[i].min >= 1
        /\ Grows(resources[i])
        /\ resources[i].type = "slot" => resources[i].with # <<>>
  BY ResourceAssumption
<1>2. \E R : resources \in Seq(R)
  BY ResourceAssumption
<1>3. \A i \in DOMAIN resources : Countable(resources[i])
  BY <1>1 DEF Countable, CountShape
<1>4. \A r \in Range(resources) : \E i \in DOMAIN resources : r = resources[i]
  BY DEF Range
<1>5. QED  BY <1>1, <1>2, <1>3, <1>4

LEMMA KidsAreVertices == \A u \in Vertices : Range(Kids[u]) \subseteq Vertices
<1>1. \A u \in Vertices : \A i \in DOMAIN Kids[u] : Kids[u][i] \in Vertices
  BY GraphAssumption, SeqMeans
<1>2. QED  BY <1>1 DEF Range

LEMMA SlotsAreShapes ==
    ASSUME NEW u \in Vertices, NEW resources \in ResourceLists, NEW s \in SlotMatched(u, resources)
    PROVE  s.with \in ResourceLists /\ Shape(s.with)
<1>1. PICK list \in ResourceLists : s \in Range(list) /\ s.type = "slot"
  <2>1. s.type = "slot" /\ (\/ s \in Range(resources)
                            \/ \E q \in Range(resources) : s \in Range(q.with))
    <3>1. s \in SlotAt(u, resources)
      BY DEF SlotMatched
    <3>2. QED  BY <3>1 DEF SlotAt, Range
  <2>2. \A q \in Range(resources) : q.with \in ResourceLists
    BY RequestFacts
  <2>3. QED  BY <2>1, <2>2
<1>2. s.with \in ResourceLists /\ s.with # <<>>
  BY <1>1, RequestFacts
<1>3. \E R : s.with \in Seq(R)
  BY <1>2, RequestFacts
<1>4. \A r \in Range(s.with) : Countable(r)
  BY <1>2, RequestFacts
<1>5. \A r \in Range(s.with) : r.type \in Types \ {"slot"}
  <2>1. Neighbours(u) \subseteq Vertices
    BY KidsAreVertices DEF Neighbours
  <2>2. \A r \in Range(s.with) : \E v \in Vertices : Type[v] = r.type
    BY <2>1 DEF SlotMatched
  <2>3. QED  BY <2>2, VertexAssumption DEF Types
<1>6. QED  BY <1>2, <1>3, <1>4, <1>5 DEF Shape

LEMMA AskedLists ==
    ASSUME NEW u, NEW resources \in ResourceLists
    PROVE  /\ NextResources(u, resources) \in ResourceLists
           /\ \E R : Asked(u, resources) \in Seq(R)
<1>1. \A r \in OfType(u, resources) : r.with \in ResourceLists
  BY RequestFacts DEF OfType
<1>2. OfType(u, resources) # {} => Asked(u, resources) \in ResourceLists
  BY <1>1 DEF Asked
<1>3. NextResources(u, resources) \in ResourceLists
  BY <1>2 DEF NextResources, Matched
<1>4. \E R : Asked(u, resources) \in Seq(R)
  <2>1. CASE OfType(u, resources) # {}
    BY <1>2, <2>1, RequestFacts
  <2>2. CASE OfType(u, resources) = {}
    <3>1. Asked(u, resources) = <<>> /\ <<>> \in Seq({})
      BY <2>2, EmptySeq DEF Asked
    <3>2. QED  BY <3>1
  <2>3. QED  BY <2>1, <2>2
<1>5. QED  BY <1>3, <1>4

LEMMA RefusedType ==
    ASSUME NEW N, NEW dfu \in Dfus(N)
    PROVE  Refused(dfu) \in VisitRecords(N) /\ ~ Refused(dfu).ok
<1>1. NoEvals \in EvalsIn(SolidGroup(N))
  BY NoEvalsType
<1>2. dfu.marks \in AllMarks(N) /\ dfu.overrun \in BOOLEAN
  BY DEF Dfus
<1>3. QED  BY <1>1, <1>2 DEF Refused, VisitRecords

LEMMA StartType == \A N : Start \in Dfus(N)
<1>1. \A N : NoEntry \in AllMarks(N)
  BY MarksMeans DEF NoEntry
<1>2. \A N : NoEvals \in EvalsIn(SolidGroup(N))
  BY NoEvalsType
<1>3. QED  BY <1>1, <1>2 DEF Start, Dfus

\* The visit of a kid that the visit c makes.
ListBelow(u, resources) ==
    IF SlotMatched(u, resources) = {} THEN NextResources(u, resources)
    ELSE (CHOOSE s \in SlotMatched(u, resources) : TRUE).with
ModeBelow(u, resources, exclusive) == exclusive \/ SlotMatched(u, resources) # {}
KidVisit(c, v) ==
    <<v, ListBelow(c[1], c[2]), ModeBelow(c[1], c[2], c[3] \/ Exclusivity(c[1], c[2]))>>

LEMMA ListBelowType ==
    ASSUME NEW u \in Vertices, NEW resources \in ResourceLists
    PROVE  ListBelow(u, resources) \in ResourceLists
<1>1. CASE SlotMatched(u, resources) = {}
  BY <1>1, AskedLists DEF ListBelow
<1>2. CASE SlotMatched(u, resources) # {}
  <2> DEFINE slot == CHOOSE s \in SlotMatched(u, resources) : TRUE
  <2>1. slot \in SlotMatched(u, resources) /\ ListBelow(u, resources) = slot.with
    BY <1>2 DEF ListBelow
  <2> HIDE DEF slot
  <2>2. QED  BY <2>1, SlotsAreShapes
<1>3. QED  BY <1>1, <1>2

\* What a visit returns, if those of the kids return as much.
Returns(visit, c, N) ==
    visit[c] \in VisitRecords(N) /\ (visit[c].ok => Use(visit[c]) \in N[c[1]])

LEMMA BelowVertexType ==
    ASSUME NEW N, MayTighten(N), NEW visit, NEW u \in Vertices, NEW resources \in ResourceLists,
           NEW exclusive \in BOOLEAN,
           \A v \in Range(Kids[u]) :
               Returns(visit, <<v, ListBelow(u, resources), ModeBelow(u, resources, exclusive)>>, N)
    PROVE  BelowVertex(visit, u, resources, exclusive) \in Dfus(N)
<1>1. Explore(visit, u, ListBelow(u, resources), ModeBelow(u, resources, exclusive)) \in Dfus(N)
  <2> DEFINE list == ListBelow(u, resources)
             mode == ModeBelow(u, resources, exclusive)
  <2>1. \A v \in Range(Kids[u]) : <<v, list, mode>>[1] = v /\ Returns(visit, <<v, list, mode>>, N)
    OBVIOUS
  <2> HIDE DEF list, mode
  <2>2. Explore(visit, u, list, mode) \in Dfus(N)
    BY <2>1, ExploreType DEF Returns
  <2>3. QED  BY <2>2 DEF list, mode
<1>2. CASE SlotMatched(u, resources) = {}
  <2>1. /\ ListBelow(u, resources) = NextResources(u, resources)
        /\ ModeBelow(u, resources, exclusive) = exclusive
    BY <1>2 DEF ListBelow, ModeBelow
  <2>2. BelowVertex(visit, u, resources, exclusive) =
            Explore(visit, u, NextResources(u, resources), exclusive)
    BY <1>2 DEF BelowVertex
  <2>3. QED  BY <1>1, <2>1, <2>2
<1>3. CASE SlotMatched(u, resources) # {}
  <2> DEFINE slot == CHOOSE s \in SlotMatched(u, resources) : TRUE
  <2>1. /\ slot \in SlotMatched(u, resources)
        /\ ListBelow(u, resources) = slot.with /\ ModeBelow(u, resources, exclusive) = TRUE
    BY <1>3 DEF ListBelow, ModeBelow
  <2>2. BelowVertex(visit, u, resources, exclusive) =
            DomSlot(Explore(visit, u, slot.with, TRUE), slot.with)
    BY <1>3 DEF BelowVertex
  <2> HIDE DEF slot
  <2>3. Shape(slot.with)
    BY <2>1, SlotsAreShapes
  <2>4. Explore(visit, u, slot.with, TRUE) \in Dfus(N)
    BY <1>1, <2>1
  <2>5. QED  BY <2>2, <2>3, <2>4, DomSlotType
<1>4. QED  BY <1>2, <1>3

LEMMA VisitVertexType ==
    ASSUME NEW N, MayTighten(N), NEW visit, NEW u \in Vertices, NEW resources \in ResourceLists,
           NEW x \in BOOLEAN, NEW at, NEW duration, Avail(u, at, duration) \in Nat,
           ~ Pruned(u, resources, at, duration) =>
               [needs |-> Avail(u, at, duration), exclusive |-> x \/ Exclusivity(u, resources)]
                   \in N[u],
           \A v \in Range(Kids[u]) : Returns(visit, KidVisit(<<u, resources, x>>, v), N)
    PROVE  LET r == VisitVertex(visit, u, resources, x, at, duration)
           IN  r \in VisitRecords(N) /\ (r.ok => Use(r) \in N[u])
<1> DEFINE exclusive == x \/ Exclusivity(u, resources)
           avail == Avail(u, at, duration)
           asked == Asked(u, resources)
           dfu == BelowVertex(visit, u, resources, exclusive)
           r == VisitVertex(visit, u, resources, x, at, duration)
           evals == IF asked = <<>> THEN dfu.evals ELSE NoEvals
           marks == With(dfu.marks, Enforced(dfu.evals, asked))
<1>1. /\ exclusive \in BOOLEAN
      /\ \A v \in Range(Kids[u]) :
             Returns(visit, <<v, ListBelow(u, resources), ModeBelow(u, resources, exclusive)>>, N)
  BY DEF KidVisit
<1>2. CASE Pruned(u, resources, at, duration)
  <2>1. r = Refused(Start)
    BY <1>2 DEF VisitVertex
  <2>2. QED  BY <2>1, StartType, RefusedType
<1>3. CASE ~ Pruned(u, resources, at, duration) /\ ~ Satisfied(dfu.evals, asked)
  <2>1. r = Refused(dfu)
    BY <1>3 DEF VisitVertex, Finish
  <2> HIDE DEF exclusive
  <2>2. dfu \in Dfus(N)
    BY <1>1, BelowVertexType
  <2> HIDE DEF dfu, r
  <2>3. r \in VisitRecords(N) /\ ~ r.ok
    BY <2>1, <2>2, RefusedType
  <2>4. QED  BY <2>3 DEF r
<1>4. CASE ~ Pruned(u, resources, at, duration) /\ Satisfied(dfu.evals, asked)
  <2>1. r = [ok |-> TRUE, score |-> Id[u] + 2, avail |-> avail, exclusive |-> exclusive,
             evals |-> evals, marks |-> marks, overrun |-> dfu.overrun]
    BY <1>4 DEF VisitVertex, Finish
  <2>2. avail \in Nat /\ [needs |-> avail, exclusive |-> exclusive] \in N[u]
    BY <1>4
  <2> HIDE DEF exclusive
  <2>3. dfu \in Dfus(N)
    BY <1>1, BelowVertexType
  <2> HIDE DEF dfu
  <2>4. dfu.evals \in EvalsIn(SolidGroup(N)) /\ dfu.marks \in AllMarks(N) /\ dfu.overrun \in BOOLEAN
    BY <2>3 DEF Dfus
  <2>5. evals \in EvalsIn(SolidGroup(N))
    BY <2>4, NoEvalsType
  <2>6. marks \in AllMarks(N)
    <3>1. PICK R : asked \in Seq(R)
      BY AskedLists
    <3> HIDE DEF asked
    <3>2. Enforced(dfu.evals, asked) \in AllMarks(N)
      BY <2>4, <3>1, SolidAreGroups, EnforcedMarks
    <3>3. QED  BY <2>4, <3>2, MarksTogether
  <2>7. Id[u] + 2 \in Nat
    BY VertexAssumption
  <2> HIDE DEF avail, evals, marks, r
  <2>8. r \in VisitRecords(N) /\ Use(r) \in N[u]
    BY <1>1, <2>1, <2>2, <2>4, <2>5, <2>6, <2>7 DEF VisitRecords, Use
  <2>9. QED  BY <2>8 DEF r
<1>5. QED  BY <1>2, <1>3, <1>4

AgreeBelow(u, visit, other) ==
    \A v \in Range(Kids[u]) : \A list \in ResourceLists : \A y \in BOOLEAN :
        visit[<<v, list, y>>] = other[<<v, list, y>>]

LEMMA VisitLooksAtKids ==
    ASSUME NEW visit, NEW other, NEW u \in Vertices, NEW resources \in ResourceLists,
           NEW x \in BOOLEAN, NEW at, NEW duration, AgreeBelow(u, visit, other)
    PROVE  VisitVertex(visit, u, resources, x, at, duration) =
               VisitVertex(other, u, resources, x, at, duration)
<1> DEFINE exclusive == x \/ Exclusivity(u, resources)
<1>1. exclusive \in BOOLEAN
  OBVIOUS
<1>2. \A list \in ResourceLists : \A y \in BOOLEAN :
          Explore(visit, u, list, y) = Explore(other, u, list, y)
  <2> SUFFICES ASSUME NEW list \in ResourceLists, NEW y \in BOOLEAN
               PROVE  Explore(visit, u, list, y) = Explore(other, u, list, y)
    OBVIOUS
  <2>1. \A v \in Range(Kids[u]) : visit[<<v, list, y>>] = other[<<v, list, y>>]
    BY DEF AgreeBelow
  <2>2. QED  BY <2>1, ExploreLooksAtKids
<1> HIDE DEF exclusive
<1>3. BelowVertex(visit, u, resources, exclusive) = BelowVertex(other, u, resources, exclusive)
  <2>1. CASE SlotMatched(u, resources) = {}
    <3>1. NextResources(u, resources) \in ResourceLists
      BY AskedLists
    <3>2. QED  BY <1>1, <1>2, <2>1, <3>1 DEF BelowVertex
  <2>2. CASE SlotMatched(u, resources) # {}
    <3> DEFINE slot == CHOOSE s \in SlotMatched(u, resources) : TRUE
    <3>1. slot \in SlotMatched(u, resources)
      BY <2>2
    <3>2. /\ BelowVertex(visit, u, resources, exclusive) =
                 DomSlot(Explore(visit, u, slot.with, TRUE), slot.with)
          /\ BelowVertex(other, u, resources, exclusive) =
                 DomSlot(Explore(other, u, slot.with, TRUE), slot.with)
      BY <2>2 DEF BelowVertex
    <3> HIDE DEF slot
    <3>3. slot.with \in ResourceLists
      BY <3>1, SlotsAreShapes
    <3>4. QED  BY <1>2, <3>2, <3>3
  <2>3. QED  BY <2>1, <2>2
<1>4. QED  BY <1>3 DEF VisitVertex, exclusive

-----------------------------------------------------------------------------
(* The walk. *)

\* A kid is further down.
LEMMA KidsFurtherDown ==
    \A u \in Vertices :
        /\ Cardinality(Vertices) - Cardinality(Path[u]) \in Nat
        /\ \A v \in Range(Kids[u]) : Cardinality(Path[v]) = Cardinality(Path[u]) + 1
<1> SUFFICES ASSUME NEW u \in Vertices
             PROVE  /\ Cardinality(Vertices) - Cardinality(Path[u]) \in Nat
                    /\ \A v \in Range(Kids[u]) : Cardinality(Path[v]) = Cardinality(Path[u]) + 1
  OBVIOUS
<1>1. Path[u] \in SUBSET Vertices /\ IsFiniteSet(Vertices)
  BY GraphAssumption
<1>2. IsFiniteSet(Path[u]) /\ Cardinality(Path[u]) <= Cardinality(Vertices)
  BY <1>1, FS_Subset
<1>3. Cardinality(Path[u]) \in Nat /\ Cardinality(Vertices) \in Nat
  BY <1>1, <1>2, FS_CardinalityType
<1>4. \A v \in Range(Kids[u]) : v \notin Path[u] /\ Path[v] = Path[u] \cup {v}
  BY GraphAssumption
<1>5. QED  BY <1>2, <1>3, <1>4, FS_AddElement

KidRank(c) == Cardinality(Vertices) - Cardinality(Path[c[1]])

LEMMA KidVisits ==
    ASSUME NEW c \in Visits
    PROVE  /\ c[1] \in Vertices /\ c[2] \in ResourceLists /\ c[3] \in BOOLEAN
           /\ c = <<c[1], c[2], c[3]>> /\ KidRank(c) \in Nat
           /\ \A v \in Range(Kids[c[1]]) :
                  /\ v \in Vertices /\ KidVisit(c, v) \in Visits /\ KidVisit(c, v)[1] = v
                  /\ \A list, y : KidRank(<<v, list, y>>) < KidRank(c)
<1> DEFINE u == c[1]
           list == c[2]
           x == c[3]
<1>1. u \in Vertices /\ list \in ResourceLists /\ x \in BOOLEAN /\ c = <<u, list, x>>
  BY DEF Visits
<1>2. KidRank(c) = Cardinality(Vertices) - Cardinality(Path[u]) /\ KidRank(c) \in Nat
  BY <1>1, KidsFurtherDown DEF KidRank
<1> HIDE DEF u, list, x
<1>3. ASSUME NEW v \in Range(Kids[u])
      PROVE  /\ v \in Vertices
             /\ <<v, ListBelow(u, list), ModeBelow(u, list, x \/ Exclusivity(u, list))>> \in Visits
  <2>1. v \in Vertices
    BY <1>1, <1>3, KidsAreVertices
  <2>2. ListBelow(u, list) \in ResourceLists
    BY <1>1, ListBelowType
  <2>3. ModeBelow(u, list, x \/ Exclusivity(u, list)) \in BOOLEAN
    BY DEF ModeBelow
  <2>4. QED  BY <2>1, <2>2, <2>3 DEF Visits
<1>4. ASSUME NEW v \in Range(Kids[u])
      PROVE  \A l, y : KidRank(<<v, l, y>>) < KidRank(c)
  <2>1. v \in Vertices /\ IsFiniteSet(Path[u]) /\ IsFiniteSet(Vertices)
    BY <1>1, <1>3, <1>4, GraphAssumption, FS_Subset
  <2>2. /\ Cardinality(Path[v]) = Cardinality(Path[u]) + 1
        /\ Cardinality(Path[u]) \in Nat /\ Cardinality(Vertices) \in Nat
    BY <1>1, <1>4, <2>1, KidsFurtherDown, FS_CardinalityType
  <2>3. Cardinality(Vertices) - Cardinality(Path[v]) < Cardinality(Vertices) - Cardinality(Path[u])
    BY <2>2
  <2>4. QED  BY <1>2, <2>3 DEF KidRank
<1>5. QED  BY <1>1, <1>2, <1>3, <1>4 DEF u, list, x, KidVisit

\* The walk does at every visit what is said of one, and makes others.
LEMMA WalkSolves ==
    ASSUME NEW at, NEW duration, \A v \in Vertices : Avail(v, at, duration) \in Nat
    PROVE  \A c \in Visits :
               DomDfv(at, duration)[c] =
                   VisitVertex(DomDfv(at, duration), c[1], c[2], c[3], at, duration)
<1> DEFINE A == Visits
           N == [v \in Vertices |-> Uses]
           X == VisitRecords(N)
           F == [A -> X]
           body(f, c) == VisitVertex(f, c[1], c[2], c[3], at, duration)
           Q(f) == f = [c \in A |-> body(f, c)]
           next == [f \in F |-> [c \in A |-> body(f, c)]]
           rank == [c \in A |-> KidRank(c)]
           start == [c \in A |-> Refused(Start)]
<1>1. MayTighten(N)
  BY DEF MayTighten, Uses
<1>2. ASSUME NEW f \in F, NEW c \in A
      PROVE  body(f, c) \in X
  <2> DEFINE u == c[1]
             list == c[2]
             x == c[3]
             r == VisitVertex(f, u, list, x, at, duration)
  <2>1. u \in Vertices /\ list \in ResourceLists /\ x \in BOOLEAN /\ c = <<u, list, x>>
    BY KidVisits
  <2>2. ASSUME NEW v \in Range(Kids[u])
        PROVE  Returns(f, KidVisit(<<u, list, x>>, v), N)
    <3> DEFINE d == KidVisit(c, v)
    <3>1. d \in A /\ d[1] = v /\ v \in Vertices
      BY KidVisits
    <3> HIDE DEF d
    <3>2. f[d] \in X
      BY <3>1
    <3>3. Use(f[d]) \in Uses
      BY <3>2 DEF VisitRecords, Use, Uses
    <3>4. Returns(f, d, N)
      BY <3>1, <3>2, <3>3 DEF Returns
    <3>5. QED  BY <2>1, <3>4 DEF d
  <2>3. [needs |-> Avail(u, at, duration), exclusive |-> x \/ Exclusivity(u, list)] \in N[u]
    <3>1. Avail(u, at, duration) \in Nat /\ N[u] = Uses
      BY <2>1
    <3>2. QED  BY <3>1 DEF Uses
  <2>4. Avail(u, at, duration) \in Nat /\ body(f, c) = r
    BY <2>1
  <2> HIDE DEF u, list, x, N
  <2>5. r \in VisitRecords(N)
    BY <1>1, <2>1, <2>2, <2>3, <2>4, VisitVertexType
  <2> HIDE DEF r, body
  <2>6. QED  BY <2>4, <2>5
<1>3. next \in [F -> F]
  <2> HIDE DEF body, A, X
  <2>1. QED  BY <1>2
<1>4. ASSUME NEW f, NEW g, NEW c \in A, \A b \in A : rank[b] < rank[c] => f[b] = g[b]
      PROVE  body(f, c) = body(g, c)
  <2> DEFINE u == c[1]
             list == c[2]
             x == c[3]
  <2>1. u \in Vertices /\ list \in ResourceLists /\ x \in BOOLEAN
    BY KidVisits
  <2>2. ASSUME NEW v \in Range(Kids[u]), NEW l \in ResourceLists, NEW y \in BOOLEAN
        PROVE  f[<<v, l, y>>] = g[<<v, l, y>>]
    <3> DEFINE b == <<v, l, y>>
    <3>1. b \in A /\ KidRank(b) < KidRank(c)
      BY KidVisits DEF Visits
    <3> HIDE DEF b
    <3>2. rank[b] < rank[c]
      BY <3>1
    <3>3. QED  BY <1>4, <3>1, <3>2 DEF b
  <2>3. AgreeBelow(u, f, g)
    BY <2>2 DEF AgreeBelow
  <2>4. /\ body(f, c) = VisitVertex(f, u, list, x, at, duration)
        /\ body(g, c) = VisitVertex(g, u, list, x, at, duration)
    OBVIOUS
  <2> HIDE DEF u, list, x, body
  <2>5. VisitVertex(f, u, list, x, at, duration) = VisitVertex(g, u, list, x, at, duration)
    BY ONLY <2>1, <2>3, VisitLooksAtKids
  <2>6. QED  BY <2>4, <2>5
<1>5. start \in F /\ rank \in [A -> Nat] /\ PointByPoint(F, A)
  <2>1. Refused(Start) \in X
    BY StartType, RefusedType
  <2>2. \A c \in A : KidRank(c) \in Nat
    BY KidVisits
  <2> HIDE DEF X, A
  <2>3. QED  BY <2>1, <2>2, AllPointByPoint
<1>6. \A f \in F : next[f] = [c \in A |-> body(f, c)]
  OBVIOUS
<1>7. \A f \in F : \A c \in A : next[f][c] = body(f, c)
  OBVIOUS
<1> HIDE DEF next, rank, start, F, A, X, body
<1>8. \E f : Q(f)
  <2>1. \A f, g \in F : \A a \in A :
            (\A b \in A : rank[b] < rank[a] => f[b] = g[b]) => next[f][a] = next[g][a]
    BY <1>4, <1>7
  <2>2. PICK f \in F : f = next[f]
    BY ONLY <1>3, <1>5, <2>1, RankedRecursion
  <2>3. QED  BY <1>6, <2>2
<1> DEFINE p == CHOOSE f : Q(f)
<1>9. p = [c \in A |-> body(p, c)]
  BY <1>8
<1>10. DomDfv(at, duration) = p
  BY DEF DomDfv, p, body, A
<1> HIDE DEF p
<1>11. \A c \in A : p[c] = body(p, c)
  BY <1>9
<1>12. QED  BY <1>10, <1>11 DEF body, A

\* The visits in R make only visits in R, and lead to uses in N only.
Walks(R, N, at, duration) ==
    /\ R \subseteq Visits /\ MayTighten(N)
    /\ \A c \in R : \A v \in Range(Kids[c[1]]) : KidVisit(c, v) \in R
    /\ \A c \in R : ~ Pruned(c[1], c[2], at, duration) =>
           [needs |-> Avail(c[1], at, duration), exclusive |-> c[3] \/ Exclusivity(c[1], c[2])]
               \in N[c[1]]

\* Then such uses are all that there is in what they return.
LEMMA WalkReturns ==
    ASSUME NEW at, NEW duration, \A v \in Vertices : Avail(v, at, duration) \in Nat,
           NEW R, NEW N, Walks(R, N, at, duration)
    PROVE  \A c \in R : Returns(DomDfv(at, duration), c, N)
<1> DEFINE p == DomDfv(at, duration)
           S == {n \in Nat : \A c \in R : KidRank(c) < n => Returns(p, c, N)}
<1>1. /\ R \subseteq Visits /\ MayTighten(N)
      /\ \A c \in R : \A v \in Range(Kids[c[1]]) : KidVisit(c, v) \in R
  BY DEF Walks
<1>2. \A c \in R : KidRank(c) \in Nat
  BY <1>1, KidVisits
<1>3. 0 \in S
  BY <1>2
<1>4. ASSUME NEW n \in Nat, n \in S, NEW c \in R, KidRank(c) < n + 1
      PROVE  Returns(p, c, N)
  <2> DEFINE u == c[1]
             list == c[2]
             x == c[3]
             r == VisitVertex(p, u, list, x, at, duration)
  <2>1. u \in Vertices /\ list \in ResourceLists /\ x \in BOOLEAN /\ c = <<u, list, x>>
        /\ c \in Visits
    BY <1>1, KidVisits
  <2>2. ASSUME NEW v \in Range(Kids[u])
        PROVE  Returns(p, KidVisit(<<u, list, x>>, v), N)
    <3> DEFINE d == KidVisit(c, v)
    <3>1. d \in R /\ KidRank(d) < KidRank(c)
      <4>1. d \in R
        BY <1>1
      <4>2. \A l, y : KidRank(<<v, l, y>>) < KidRank(c)
        BY <2>1, KidVisits
      <4>3. QED  BY <4>1, <4>2 DEF KidVisit
    <3> HIDE DEF d
    <3>2. KidRank(d) < n
      BY <1>2, <1>4, <3>1
    <3>3. Returns(p, d, N)
      BY <1>4, <3>1, <3>2
    <3>4. QED  BY <2>1, <3>3 DEF d
  <2>3. ~ Pruned(u, list, at, duration) =>
            [needs |-> Avail(u, at, duration), exclusive |-> x \/ Exclusivity(u, list)] \in N[u]
    BY DEF Walks
  <2>4. Avail(u, at, duration) \in Nat /\ p[c] = r
    BY <2>1, WalkSolves
  <2> HIDE DEF u, list, x, p
  <2>5. r \in VisitRecords(N) /\ (r.ok => Use(r) \in N[u])
    BY <1>1, <2>1, <2>2, <2>3, <2>4, VisitVertexType
  <2> HIDE DEF r
  <2>6. c[1] = u
    BY DEF u
  <2>7. QED  BY <2>4, <2>5, <2>6 DEF Returns
<1>5. \A n \in Nat : n \in S => n + 1 \in S
  <2> HIDE DEF p
  <2>1. QED  BY <1>4
<1>6. Nat \subseteq S
  <2> HIDE DEF S
  <2>1. QED  BY <1>3, <1>5, SetInduction
<1>7. ASSUME NEW c \in R PROVE Returns(p, c, N)
  <2>1. KidRank(c) + 1 \in S /\ KidRank(c) < KidRank(c) + 1
    BY <1>2, <1>6
  <2>2. QED  BY <2>1
<1>8. QED  BY <1>7

-----------------------------------------------------------------------------
(* select(). *)

LEMMA RootNeedsType ==
    ASSUME NEW N, NEW r \in VisitRecords(N), NEW resources \in ResourceLists,
           NEW free \in Nat, r.avail \in 1 .. free, RootNeeds(r, resources) > 0
    PROVE  RootNeeds(r, resources) \in 1 .. free
<1>1. r.avail \in Nat
  BY DEF VisitRecords
<1>2. CASE OfType(Root, resources) = {}
  <2>1. RootNeeds(r, resources) = 1
    BY <1>2 DEF RootNeeds
  <2>2. QED  BY <1>1, <2>1
<1>3. CASE OfType(Root, resources) # {}
  <2> DEFINE q == CHOOSE q \in OfType(Root, resources) : TRUE
             n == SelectCount(q, r.avail)
  <2>1. q \in OfType(Root, resources)
    BY <1>3
  <2>2. RootNeeds(r, resources) = n
    BY <1>3 DEF RootNeeds
  <2> HIDE DEF q
  <2>3. Countable(q)
    BY <2>1, RequestFacts DEF OfType
  <2>4. n \in 0 .. r.avail
    BY <1>1, <2>3, SelectsWhatQualifies
  <2> HIDE DEF n
  <2>5. QED  BY <1>1, <2>2, <2>4
<1>4. QED  BY <1>2, <1>3

\* Of the root less may be used than is free.
RootShares(N) ==
    \A a \in Nat : \A x \in BOOLEAN : [needs |-> a, exclusive |-> x] \in N[Root] =>
        a >= 1 /\ \A n \in 1 .. a : [needs |-> n, exclusive |-> x] \in N[Root]

RootVisit(resources) == <<Root, resources, Exclusivity(Root, resources)>>

\* What select leaves marked are uses that a visit leads to.
LEMMA SelectMarks ==
    ASSUME NEW at, NEW duration, \A v \in Vertices : Avail(v, at, duration) \in Nat,
           NEW R, NEW N, Walks(R, N, at, duration), RootShares(N),
           NEW resources \in ResourceLists, RootVisit(resources) \in R
    PROVE  Select(resources, at, duration).marks \in AllMarks(N)
<1> DEFINE c == <<Root, resources, Exclusivity(Root, resources)>>
           r == DomDfv(at, duration)[c]
           evals == RootEvals(r)
           needs == RootNeeds(r, resources)
           ok == r.ok /\ Satisfied(evals, resources) /\ needs > 0
           all == UNION {EdgesOf(evals[t]) : t \in Unconstrained(evals, resources)}
           root == [v \in {Root} |-> [needs |-> needs, exclusive |-> r.exclusive]]
           listed == With(r.marks, Enforced(evals, resources))
           taken == With(listed, Marked(all))
           marks == IF ~ok THEN r.marks ELSE With(taken, root)
<1>1. r \in VisitRecords(N) /\ (r.ok => Use(r) \in N[Root])
  <2>1. c \in R /\ c[1] = Root
    BY DEF RootVisit
  <2> HIDE DEF c
  <2>2. Returns(DomDfv(at, duration), c, N)
    BY <2>1, WalkReturns
  <2>3. QED  BY <2>1, <2>2 DEF Returns
<1>2. Select(resources, at, duration) = [ok |-> ok, overrun |-> r.overrun, marks |-> marks]
  <2> DEFINE result(x) ==
                 LET e == RootEvals(x)
                     o == x.ok /\ Satisfied(e, resources) /\ RootNeeds(x, resources) > 0
                     a == UNION {EdgesOf(e[t]) : t \in Unconstrained(e, resources)}
                 IN  [ok |-> o, overrun |-> x.overrun,
                      marks |-> IF ~o THEN x.marks
                                ELSE With(With(With(x.marks, Enforced(e, resources)), Marked(a)),
                                          [v \in {Root} |-> [needs |-> RootNeeds(x, resources),
                                                             exclusive |-> x.exclusive]])]
  <2>1. Select(resources, at, duration) = CHOOSE m \in {result(x) : x \in {r}} : TRUE
    BY DEF Select
  <2>2. result(r) = [ok |-> ok, overrun |-> r.overrun, marks |-> marks]
    OBVIOUS
  <2> HIDE DEF result, r
  <2>3. QED  BY <2>1, <2>2
<1> HIDE DEF r, c
<1>3. /\ r.evals \in EvalsIn(SolidGroup(N)) /\ r.marks \in AllMarks(N)
      /\ r.score \in Nat /\ r.avail \in Nat /\ r.exclusive \in BOOLEAN
  BY <1>1 DEF VisitRecords
<1>4. evals \in EvalsIn(AnyGroup(N))
  <2> DEFINE group == [score |-> r.score, count |-> r.avail, edges |-> <<>>]
  <2>1. group \in EdgeGroups(N)
    BY <1>3, EmptySeq DEF EdgeGroups
  <2>2. Type[Root] \in Types /\ AnyGroup(N)[Type[Root]] = EdgeGroups(N)
    BY GraphAssumption DEF Types, AnyGroup
  <2>3. evals = AddGroups(r.evals, Type[Root], <<group>>)
    BY DEF RootEvals
  <2> HIDE DEF group, evals
  <2>4. <<group>> \in Seq(AnyGroup(N)[Type[Root]])
    BY <2>1, <2>2
  <2>5. r.evals \in EvalsIn(AnyGroup(N))
    BY <1>3, SolidAreGroups
  <2>6. QED  BY <2>2, <2>3, <2>4, <2>5, GroupsAdded
<1> HIDE DEF evals
<1>5. listed \in AllMarks(N)
  <2>1. PICK S : resources \in Seq(S)
    BY RequestFacts
  <2>2. Enforced(evals, resources) \in AllMarks(N)
    BY <1>4, <2>1, EnforcedMarks
  <2>3. QED  BY <1>3, <2>2, MarksTogether
<1>6. taken \in AllMarks(N)
  <2>1. \A t \in Unconstrained(evals, resources) : EdgesOf(evals[t]) \subseteq Edges(N)
    <3>1. \A t \in DOMAIN evals : evals[t] = Groups(evals, t)
      BY DEF Groups
    <3>2. \A t : Groups(evals, t) \in Seq(EdgeGroups(N))
      BY <1>4, AnyGroups
    <3>3. QED  BY <3>1, <3>2, EdgesOfGroups DEF Unconstrained
  <2>2. all \in SUBSET Edges(N)
    BY <2>1
  <2> HIDE DEF all, listed
  <2>3. QED  BY <1>5, <2>2, EdgesMarked, MarksTogether
<1>7. ok => root \in AllMarks(N)
  <2> SUFFICES ASSUME ok PROVE root \in AllMarks(N)
    OBVIOUS
  <2>1. Root \in Vertices /\ r.avail \in Nat /\ r.exclusive \in BOOLEAN
    BY <1>3, GraphAssumption
  <2>2. [needs |-> r.avail, exclusive |-> r.exclusive] \in N[Root] /\ needs > 0
    BY <1>1 DEF Use
  <2>3. r.avail >= 1
        /\ \A n \in 1 .. r.avail : [needs |-> n, exclusive |-> r.exclusive] \in N[Root]
    BY <2>1, <2>2 DEF RootShares
  <2>4. needs \in Nat /\ [needs |-> needs, exclusive |-> r.exclusive] \in N[Root]
    <3>1. needs \in 1 .. r.avail
      <4>1. r.avail \in 1 .. r.avail
        BY <2>1, <2>3
      <4>2. QED  BY <1>1, <2>1, <2>2, <4>1, RootNeedsType
    <3> HIDE DEF needs
    <3>2. QED  BY <2>1, <2>3, <3>1
  <2> HIDE DEF needs
  <2>5. root = [v \in DOMAIN root |-> root[v]] /\ DOMAIN root = {Root}
        /\ root[Root] = [needs |-> needs, exclusive |-> r.exclusive]
    OBVIOUS
  <2> HIDE DEF root
  <2>6. root[Root] \in Uses /\ root[Root] \in N[Root]
    BY <2>1, <2>4, <2>5 DEF Uses
  <2>7. QED  BY <2>1, <2>5, <2>6, MarksMeans
<1>8. marks \in AllMarks(N)
  <2> HIDE DEF ok, taken, root
  <2>1. QED  BY <1>3, <1>6, <1>7, MarksTogether
<1> HIDE DEF marks
<1>9. QED  BY <1>2, <1>8

-----------------------------------------------------------------------------
(* The session. *)

\* The plan of a vertex never books more than the vertex has.
PlanWithin(p, size) ==
    /\ p.total = size
    /\ \A id \in DOMAIN p.spans : p.spans[id].planned \in 1 .. size
    /\ \A t \in Nat : Booked(p, t) <= size

LEMMA BookedType ==
    ASSUME NEW p, PlannerShape(p), \A id \in DOMAIN p.spans : p.spans[id].planned \in Nat, NEW t
    PROVE  Booked(p, t) \in Nat
<1>1. IsFiniteSet(SpansAt(p, t)) /\ SpansAt(p, t) \subseteq DOMAIN p.spans
  BY SpansFinite
<1>2. \A id \in SpansAt(p, t) : Planned(p)[id] \in Nat
  BY <1>1 DEF Planned
<1>3. QED  BY <1>1, <1>2, SumGrows, BookedIsSum

\* What is free of a plan is part of it.
LEMMA FreeIsPart ==
    ASSUME NEW p, PlannerShape(p), NEW size \in Nat, PlanWithin(p, size),
           NEW at \in Nat, NEW duration \in Nat \ {0}
    PROVE  AvailResourcesDuring(p, at, duration) \in 0 .. size
<1> DEFINE free(t) == size - Booked(p, t)
           W == at .. at + duration - 1
           S == {free(t) : t \in W}
<1>1. /\ \A i \in DOMAIN p.spans : p.spans[i].planned \in 1 .. size
      /\ p.total = size /\ \A t \in Nat : Booked(p, t) <= size
  BY DEF PlanWithin
<1>2. \A t \in Nat : Booked(p, t) \in Nat
  BY <1>1, BookedType
<1>3. \A t \in W : free(t) \in 0 .. size
  <2>1. \A t \in W : t \in Nat
    OBVIOUS
  <2>2. QED  BY <1>1, <1>2, <2>1
<1>4. S \in SUBSET Nat /\ S # {} /\ S \subseteq 0 .. size
  <2>1. at \in W
    OBVIOUS
  <2> HIDE DEF W, free
  <2>2. QED  BY <1>3, <2>1
<1>5. AvailResourcesDuring(p, at, duration) = Min(S)
  BY <1>1 DEF AvailResourcesDuring
<1> HIDE DEF S
<1>6. Min(S) \in S
  BY <1>4, LeastElement
<1>7. QED  BY <1>4, <1>5, <1>6

\* As long as no plan books more than its vertex has, what a match marks can
\* be booked.
LEMMA MarksCanBeBooked ==
    ASSUME IInv, \A v \in Vertices : PlanWithin(vtx[v].plans, Size[v])
    PROVE  MatchesFit
<1> SUFFICES ASSUME NEW j \in Jobspecs,
                    NEW at \in ScheduleTimes(j, "allocate_orelse_reserve") \ {NoTime},
                    NEW v \in Picked(Selection(j, at, SelectAt(j, at).marks))
             PROVE  LET m == Selection(j, at, SelectAt(j, at).marks)
                    IN  m.marks[v].needs \in 1 .. Size[v] /\ PlanAccepts(v, m)
  BY DEF MatchesFit
<1> DEFINE m == Selection(j, at, SelectAt(j, at).marks)
           duration == j.duration
           free == Avail(v, at, duration)
           N == [u \in Vertices |-> [needs : 1 .. Avail(u, at, duration), exclusive : BOOLEAN]]
<1>1. at \in Nat /\ duration \in Nat \ {0} /\ j.resources \in ResourceLists
  BY MatchTimes, JobspecAssumption
<1>2. ASSUME NEW u \in Vertices
      PROVE  Avail(u, at, duration) \in 0 .. Size[u] /\ Size[u] \in Nat
  <2>1. PlannerShape(vtx[u].plans) /\ Size[u] \in Nat
    BY SizeAssumption DEF IInv, VertexOK, VertexShape
  <2> HIDE DEF duration
  <2>2. QED  BY <1>1, <2>1, FreeIsPart DEF Avail
<1>3. v \in Vertices /\ v \in DOMAIN m.marks
  <2>1. v \in Vertices /\ Path[v] \subseteq DOMAIN m.marks
    BY DEF Picked, Reached
  <2>2. QED  BY <2>1, OnOwnPath
<1>4. /\ m.marks = Select(j.resources, at, duration).marks
      /\ m.at = at /\ m.duration = duration
  BY DEF Selection, SelectAt
<1>5. \A u \in Vertices : /\ Avail(u, at, duration) \in Nat
                          /\ N[u] = [needs : 1 .. Avail(u, at, duration), exclusive : BOOLEAN]
  <2>1. \A u \in Vertices : Avail(u, at, duration) \in Nat
    BY <1>2
  <2>2. QED  BY <2>1
<1> HIDE DEF N, m, duration
<1>6. m.marks \in AllMarks(N)
  <2>1. Walks(Visits, N, at, duration)
    <3>1. MayTighten(N)
      <4> SUFFICES ASSUME NEW u \in Vertices, NEW a \in Nat, NEW x \in BOOLEAN,
                          [needs |-> a, exclusive |-> x] \in N[u]
                   PROVE  [needs |-> a, exclusive |-> TRUE] \in N[u]
        BY DEF MayTighten
      <4> DEFINE S == 1 .. Avail(u, at, duration)
      <4>1. N[u] = [needs : S, exclusive : BOOLEAN]
        BY <1>5
      <4> HIDE DEF S
      <4>2. QED  BY <4>1
    <3>2. \A c \in Visits : \A w \in Range(Kids[c[1]]) : KidVisit(c, w) \in Visits
      BY KidVisits
    <3>3. ASSUME NEW c \in Visits, ~ Pruned(c[1], c[2], at, duration)
          PROVE  [needs |-> Avail(c[1], at, duration), exclusive |-> c[3] \/ Exclusivity(c[1], c[2])]
                     \in N[c[1]]
      <4> DEFINE u == c[1]
                 a == Avail(u, at, duration)
                 x == c[3] \/ Exclusivity(u, c[2])
      <4>1. u \in Vertices /\ a # 0 /\ x \in BOOLEAN
        BY <3>3, KidVisits DEF Pruned
      <4>2. a \in Nat /\ N[u] = [needs : 1 .. a, exclusive : BOOLEAN]
        BY <1>5, <4>1
      <4> HIDE DEF a, x, u
      <4>3. a \in 1 .. a
        BY <4>1, <4>2
      <4>4. [needs |-> a, exclusive |-> x] \in N[u]
        BY <4>1, <4>2, <4>3
      <4>5. QED  BY <4>4 DEF a, x, u
    <3>4. QED  BY <3>1, <3>2, <3>3 DEF Walks
  <2>2. RootShares(N)
    <3> DEFINE a == Avail(Root, at, duration)
    <3>1. N[Root] = [needs : 1 .. a, exclusive : BOOLEAN] /\ a \in Nat
      BY <1>5, GraphAssumption
    <3> HIDE DEF a
    <3>2. \A b \in 1 .. a : b >= 1 /\ 1 .. b \subseteq 1 .. a
      BY <3>1
    <3>3. QED  BY <3>1, <3>2 DEF RootShares
  <2>3. RootVisit(j.resources) \in Visits
    BY <1>1, GraphAssumption DEF RootVisit, Visits, Exclusivity
  <2>4. QED  BY <1>1, <1>4, <1>5, <2>1, <2>2, <2>3, SelectMarks
<1> DEFINE needs == m.marks[v].needs
<1>7. m.marks[v] \in N[v]
  BY <1>3, <1>6 DEF AllMarks
<1>8. free \in 0 .. Size[v] /\ Size[v] \in Nat /\ needs \in 1 .. free
  <2>1. N[v] = [needs : 1 .. free, exclusive : BOOLEAN]
    BY <1>3, <1>5
  <2> HIDE DEF free
  <2>2. needs \in 1 .. free
    BY <1>7, <2>1
  <2>3. QED  BY <1>2, <1>3, <2>2 DEF free
<1>9. free = AvailResourcesDuring(vtx[v].plans, m.at, m.duration)
  BY <1>4 DEF Avail
<1> HIDE DEF free, needs
<1>10. needs > 0 /\ needs <= free /\ needs \in 1 .. Size[v]
  BY <1>8
<1>11. PlanAccepts(v, m)
  BY <1>9, <1>10 DEF PlanAccepts, CanAdd, AvailDuring, needs
<1>12. QED  BY <1>10, <1>11 DEF needs, m
=============================================================================
