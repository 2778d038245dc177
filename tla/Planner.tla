------------------------------- MODULE Planner -------------------------------
(***************************************************************************)
(* The planner of planner/planner.c with its min-time resource tree taken  *)
(* for the set of the points in it.                                        *)
(*                                                                         *)
(* An availability iteration (planner_avail_time_first, then _next) takes  *)
(* the points it has looked at OUT of mt_resource_tree and parks them in   *)
(* avail_time_iter; the next call that is not _next puts them back.        *)
(*                                                                         *)
(* What the search of the tree returns depends on the order of the tree,   *)
(* which the updates do not always preserve (module PlannerTree).  So      *)
(* ExactSearch says what to assume of it: TRUE, it returns the earliest    *)
(* point of the tree that can take the request, as intended; FALSE, it may *)
(* return any point of the tree, or none.                                  *)
(***************************************************************************)
EXTENDS ScheduledPoints

CONSTANT ExactSearch   \* what is assumed of mintime_resource_mintime

ASSUME ExactSearchAssumption == ExactSearch \in BOOLEAN

VARIABLE mt_resource_tree   \* points in the min-time resource tree

vars == <<plan, points, spans, iter, mt_resource_tree>>

-----------------------------------------------------------------------------

Init ==
    \E base \in BaseTimes, length \in PlanLengths :
        InitBooks(base, length) /\ mt_resource_tree = {base}

Reset(base, length) == ResetBooks(base, length) /\ mt_resource_tree' = {base}

\* Faulty: parked points stay parked.
RestoreIgnoresTracker == mt_resource_tree

\* restore_track_points: the min-time tree with every tracked point back in it.
Restored == mt_resource_tree \cup avail_time_iter

\* Faulty: the points taken out are forgotten.
ReinsertNothing(mt, overlap, refs) == mt \ overlap

\* update_mintime_resource_tree: take the overlapping points out of `mt` and
\* put back those still referenced.
Reinsert(mt, overlap, refs) == (mt \ overlap) \cup {p \in overlap : refs[p] > 0}

\* New points go into the tree as they are made; those whose amount the span
\* changes are taken out and put back.
AddSpan(start, duration, count) ==
    LET made == {start, start + duration} \ sched_point_tree
    IN  /\ BookSpan(start, duration, count)
        /\ mt_resource_tree' =
               Reinsert(Restored \cup made,
                        Overlap(sched_point_tree', start, start + duration), ref_count')

RemSpan(id) ==
    LET span    == span_lookup[id]
        overlap == Overlap(sched_point_tree, span.start, span.last)
        refs    == Released(span.start, span.last)
    IN  /\ UnbookSpan(id)
        /\ mt_resource_tree' =
               Reinsert(Restored, overlap, refs) \ Dead(span.start, span.last, refs)

-----------------------------------------------------------------------------
(* planner_avail_time_first and planner_avail_time_next. *)

\* The points that avail_at looks at if the search is exact: those with the
\* amount free, in time order, up to and with the first at which it stops.
LookedAt(mt, request) ==
    LET fitting == {p \in mt : request.resources <= remaining[p]}
        good    == {p \in fitting : Stops(p, request)}
    IN  IF good = {} THEN fitting ELSE {p \in fitting : p <= Min(good)}

\* What avail_at may return after looking at these points: the one it stopped
\* at, if it did not run past the end of the plan; otherwise what `at` holds,
\* which is the point it rejected last, unless that one was too early.
Answers(looked, request) ==
    LET good == {p \in looked : Stops(p, request)}
        last == {p \in looked : ExactSearch => \A q \in looked : q <= p}
    IN  CASE looked = {} -> {None}
          [] good # {} -> {IF p + request.duration > plan_end THEN None ELSE p : p \in good}
          [] OTHER -> {IF p < request.on_or_after THEN None ELSE p : p \in last}

\* avail_at takes every point it looks at out of the tree and tracks it.
AvailAt(mt, tracked, request) ==
    \E looked \in IF ExactSearch THEN {LookedAt(mt, request)} ELSE SUBSET mt :
        /\ \A p, q \in looked : Stops(p, request) /\ Stops(q, request) => p = q
        /\ mt_resource_tree' = mt \ looked
        /\ avail_time_iter' = tracked \cup looked
        /\ answer' \in Answers(looked, request)

AvailTimeFirst(request) == AvailAt(Restored, {}, request) /\ OpenIteration(request)

AvailTimeNext ==
    AvailAt(mt_resource_tree, avail_time_iter, current_request) /\ ContinueIteration

AvailTimeNextFails == NoIteration /\ UNCHANGED mt_resource_tree

-----------------------------------------------------------------------------

Next ==
    \/ \E base \in BaseTimes, length \in PlanLengths : Reset(base, length)
    \/ \E start \in Times, duration \in Durations, count \in Counts :
           AddSpan(start, duration, count)
    \/ \E id \in DOMAIN span_lookup : RemSpan(id)
    \/ \E request \in Requests : AvailTimeFirst(request)
    \/ AvailTimeNext
    \/ AvailTimeNextFails

Spec == Init /\ [][Next]_vars

-----------------------------------------------------------------------------
(* Properties. *)

\* Types of all variables (planner.c:45-97).
TypeOK ==
    /\ plan_start \in Nat /\ plan_end \in Nat /\ plan_start < plan_end
    /\ sched_point_tree \in SUBSET Nat
    /\ scheduled \in [sched_point_tree -> Int]
    /\ remaining \in [sched_point_tree -> Int]
    /\ ref_count \in [sched_point_tree -> Nat]
    /\ mt_resource_tree \subseteq sched_point_tree
    /\ avail_time_iter \subseteq sched_point_tree
    /\ span_counter \in 0 .. MaxSpanId
    /\ DOMAIN span_lookup \subseteq 1 .. span_counter
    /\ span_lookup \in [DOMAIN span_lookup -> Span]
    /\ avail_time_iter_set \in BOOLEAN
    /\ current_request \in Request
    /\ answer \in Nat \cup {None, NotAsked}
    /\ answered \in SUBSET Nat

\* Every scheduled point is either in the min-time tree or parked by the open
\* iteration, never in both and never lost: a point that is in neither would
\* not be offered by any later planner_avail_time_first (restore_track_points
\* and update_mintime_resource_tree after any sequence of calls).
PointsIndexedOnce ==
    /\ mt_resource_tree \cup avail_time_iter = sched_point_tree
    /\ mt_resource_tree \cap avail_time_iter = {}
    /\ ~avail_time_iter_set => avail_time_iter = {}

\* Starts and ends of spans.
StartsAt(p) == {id \in DOMAIN span_lookup : span_lookup[id].start = p}
EndsAt(p)   == {id \in DOMAIN span_lookup : span_lookup[id].last = p}

\* ref_count says how many spans begin or end at a point, p0 counting once,
\* so that planner_rem_span frees a point exactly when nobody needs it.
RefCountExact ==
    \A p \in sched_point_tree :
        ref_count[p] = Cardinality(StartsAt(p)) + Cardinality(EndsAt(p))
                         + IF p = plan_start THEN 1 ELSE 0

\* start_p and last_p of every span point to live points (no use after free),
\* and there is no other point than these and p0 (no leak).
PointsAreSpanEnds ==
    sched_point_tree = {plan_start} \cup {span_lookup[id].start : id \in DOMAIN span_lookup}
                                    \cup {span_lookup[id].last : id \in DOMAIN span_lookup}

\* Every span lies in the plan and is not empty; only its last instant may
\* stick out, by one (not_feasable compares start + duration - 1).
SpansOrdered ==
    \A id \in DOMAIN span_lookup :
        /\ plan_start <= span_lookup[id].start
        /\ span_lookup[id].start < span_lookup[id].last
        /\ span_lookup[id].last <= plan_end + 1

\* No point is booked beyond the total, as long as callers keep their spans
\* inside the plan (planner.h:42-43), and what is booked and what is free
\* always make up the total.
PointsBalanced ==
    \A p \in sched_point_tree :
        /\ scheduled[p] + remaining[p] = Total
        /\ ~MayOverrun => remaining[p] >= 0

=============================================================================
