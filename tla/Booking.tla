------------------------------- MODULE Booking -------------------------------
(***************************************************************************)
(* The resource graph's schedule data, and what the depth-first walks of   *)
(* dfu_traverse_impl.cpp do to it: update() books a selection for a job,   *)
(* remove() takes a job out again.                                         *)
(*                                                                         *)
(* The graph is a tree (one subsystem, containment).  A walk touches the   *)
(* data of each vertex once, and only there, so the outcome is given       *)
(* vertex by vertex: what a vertex does depends on which vertices the walk *)
(* reaches, and on what its children hand up.                              *)
(***************************************************************************)
EXTENDS PlannerApi, Sequences, FiniteSets

CONSTANTS
    Vertices,        \* vertices of the containment subsystem
    Root,            \* its root
    Kids,            \* the out-edges of a vertex, without the one to its parent
    Path,            \* the vertices from the root to a vertex, both included
    Type, Size, Id,  \* fields of resource_pool_t
    Tracked,         \* the types whose amounts subtree plans track: {"core"}
    XCheckerNJobs    \* X_CHECKER_NJOBS

ASSUME GraphAssumption ==
    /\ IsFiniteSet(Vertices)
    /\ Root \in Vertices /\ Path \in [Vertices -> SUBSET Vertices]
    /\ Kids \in [Vertices -> Seq(Vertices)]
    /\ Path[Root] = {Root}
    /\ \A u \in Vertices : \A v \in Range(Kids[u]) :
           v \notin Path[u] /\ Path[v] = Path[u] \cup {v}
    /\ \A v \in Vertices \ {Root} : \E u \in Vertices : v \in Range(Kids[u])
\* The README: "there is no real slot resource vertex in the graph".
ASSUME VertexAssumption == \A u \in Vertices : Type[u] # "slot" /\ Id[u] \in Nat
ASSUME SizeAssumption == Size \in [Vertices -> Nat \ {0}] /\ XCheckerNJobs \in Nat \ {0}

VARIABLE vtx   \* for each vertex, its schedule_t and pool_infra_t

-----------------------------------------------------------------------------

NoEntry == [job \in {} |-> 0]

Put(table, job, span) ==
    [j \in DOMAIN table \cup {job} |-> IF j = job THEN span ELSE table[j]]

Without(table, job) == Restrict(table, DOMAIN table \ {job})

Below(u) == {v \in Vertices : u \in Path[v]} \ {u}

\* prime: the amount that the subtree plan of u tracks.
Aggregate(u) == MapThenSumSet(LAMBDA v : Size[v], {v \in Below(u) : Type[v] \in Tracked})

HasSubplan(u) == Aggregate(u) > 0

\* The schedule_t and the pool_infra_t of a vertex without jobs.
Unused(u) ==
    [plans |-> NewPlanner(Size[u]), x_checker |-> NewPlanner(XCheckerNJobs),
     subplan |-> NewPlanner(Aggregate(u)), tags |-> {}, x_spans |-> NoEntry,
     allocations |-> NoEntry, reservations |-> NoEntry, job2span |-> NoEntry]

InitVertices == vtx = [u \in Vertices |-> Unused(u)]

-----------------------------------------------------------------------------
(* update().  A selection m holds the time, the duration, whether it is an *)
(* allocation or a reservation, and the marks of enforce(): for the target *)
(* of a marked edge the needs and the exclusive flag of the edge.  The     *)
(* root has no in-edge; its needs and flag are arguments.                  *)

\* The vertices that upd_dfv reaches, those that it books, and those with
\* something booked at or below them (n > 0).
Reached(m)  == {v \in Vertices : Path[v] \subseteq DOMAIN m.marks}
Picked(m)   == {v \in Reached(m) : m.marks[v].exclusive}
InvolvedPicked(m) == Picked(m)   \* Faulty: not the vertices above.
Involved(m) == {u \in Vertices : \E v \in Picked(m) : u \in Path[v]}

\* upd_plan at v does not fail.
PlanAccepts(v, m) ==
    v \in Picked(m) => CanAdd(vtx[v].plans, m.at, m.duration, m.marks[v].needs)

\* Given the amount booked below v, the subtree plan of v takes it.
SubplanUsed(v, below) == HasSubplan(v) /\ below > 0
SubplanAccepts(v, m, below) ==
    SubplanUsed(v, below) => CanAdd(vtx[v].subplan, m.at, m.duration, below)

\* Faulty: what v itself books is not handed up.
ToParentBelow(v, m, below) == below

\* What upd_sched hands to the parent of v: its own amount and that below it.
ToParent(v, m, below) ==
    IF ~PlanAccepts(v, m) THEN 0
    ELSE (IF v \in Picked(m) /\ Type[v] \in Tracked THEN m.marks[v].needs ELSE 0)
         + (IF SubplanAccepts(v, m, below) THEN below ELSE 0)

\* For each vertex the amount booked below it, as its children hand it up.
HandedUp(m) ==
    LET dfu[u \in Vertices] ==
            MapThenSumSet(LAMBDA v : ToParent(v, m, dfu[v]), Range(Kids[u]) \cap Involved(m))
    IN  dfu

\* upd_plan: a span in the vertex's own plan.
UpdPlan(r, job, m, needs) ==
    LET span == AddedId(r.plans, m.at, m.duration, needs)
    IN  [r EXCEPT !.plans = Added(@, m.at, m.duration, needs),
                  !.allocations = IF m.allocate THEN Put(@, job, span) ELSE @,
                  !.reservations = IF m.allocate THEN @ ELSE Put(@, job, span)]

\* The tag, and one job less in the exclusivity checker.
UpdTag(r, job, m) ==
    [r EXCEPT !.tags = @ \cup {job},
              !.x_spans = Put(@, job, AddedId(r.x_checker, m.at, m.duration, 1)),
              !.x_checker = Added(@, m.at, m.duration, 1)]

\* A span in the subtree plan.
UpdSubplan(r, job, m, below) ==
    LET span == AddedId(r.subplan, m.at, m.duration, below)
    IN  [r EXCEPT !.subplan = Added(@, m.at, m.duration, below),
                  !.job2span = IF span = NoSpan THEN @ ELSE Put(@, job, span)]

\* upd_sched at v.
UpdSched(v, job, m, below) ==
    LET tagged == UpdTag(IF v \in Picked(m) THEN UpdPlan(vtx[v], job, m, m.marks[v].needs)
                                            ELSE vtx[v], job, m)
    IN  IF v \notin Involved(m) \/ ~PlanAccepts(v, m) THEN vtx[v]
        ELSE IF SubplanUsed(v, below) THEN UpdSubplan(tagged, job, m, below) ELSE tagged

\* upd_dfv from the root; update() succeeds if anything was to be booked.
UpdDfv(job, m) ==
    \E dfu \in {HandedUp(m)} : vtx' = [v \in Vertices |-> UpdSched(v, job, m, dfu[v])]

UpdateSucceeds(m) == Picked(m) # {}

-----------------------------------------------------------------------------
(* remove(). *)

\* The job's span in the plan of a vertex, if it has one.
PlanSpan(r, job) ==
    CASE job \in DOMAIN r.allocations -> r.allocations[job]
      [] job \notin DOMAIN r.allocations /\ job \in DOMAIN r.reservations ->
             r.reservations[job]
      [] OTHER -> NoSpan

\* rem_x_checker, rem_plan and rem_subtree_plan do not fail.
RemXCheckerOk(r, job) ==
    job \in DOMAIN r.x_spans /\ r.x_spans[job] \in DOMAIN r.x_checker.spans \cup {NoSpan}
RemPlanOk(r, job) == PlanSpan(r, job) \in DOMAIN r.plans.spans \cup {NoSpan}
RemSubplanOk(r, job) ==
    job \in DOMAIN r.job2span => r.job2span[job] \in DOMAIN r.subplan.spans
RemOk(r, job) == RemXCheckerOk(r, job) /\ RemPlanOk(r, job) /\ RemSubplanOk(r, job)

RemXChecker(r, job) ==
    IF job \notin DOMAIN r.x_spans THEN r
    ELSE [r EXCEPT !.x_checker = Removed(@, r.x_spans[job]), !.x_spans = Without(@, job)]

RemPlan(r, job) ==
    [r EXCEPT !.plans = Removed(@, PlanSpan(r, job)),
              !.allocations = Without(@, job),
              !.reservations = IF job \in DOMAIN r.allocations THEN @ ELSE Without(@, job)]

\* job2span keeps its entry.
RemSubplan(r, job) ==
    IF job \notin DOMAIN r.job2span THEN r
    ELSE [r EXCEPT !.subplan = Removed(@, r.job2span[job])]

\* Faulty: the exclusivity checker is not updated.
RemVertexKeepsX(r, job) == RemSubplan(RemPlan([r EXCEPT !.tags = @ \ {job}], job), job)

\* rem_dfv at one vertex: the steps up to the first that fails.
RemVertex(r, job) ==
    LET untagged  == [r EXCEPT !.tags = @ \ {job}]
        unchecked == RemXChecker(untagged, job)
    IN  CASE ~RemXCheckerOk(r, job) -> unchecked
          [] RemXCheckerOk(r, job) /\ ~RemPlanOk(r, job) -> RemPlan(unchecked, job)
          [] OTHER -> RemSubplan(RemPlan(unchecked, job), job)

\* Faulty: the walk stops below the first vertex that booked something itself.
RemReachedToBooked(job) ==
    {v \in Vertices : \A w \in Path[v] :
        /\ job \in vtx[w].tags
        /\ w # v => RemOk(vtx[w], job) /\ PlanSpan(vtx[w], job) = NoSpan}

\* The walk goes down through tagged vertices, and not below a failure.
RemReached(job) ==
    {v \in Vertices : \A w \in Path[v] :
        job \in vtx[w].tags /\ (w # v => RemOk(vtx[w], job))}

RemoveSucceeds(job) == \A v \in RemReached(job) : RemOk(vtx[v], job)

RemDfv(job) ==
    vtx' = [v \in Vertices |->
               IF v \in RemReached(job) THEN RemVertex(vtx[v], job) ELSE vtx[v]]
=============================================================================
