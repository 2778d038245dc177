----------------------------- MODULE PlannerTree -----------------------------
(***************************************************************************)
(* The planner of planner/planner.c with its min-time resource tree as it  *)
(* is: the red-black tree of module MinTimeTree, updated in the order in   *)
(* which the calls touch it.                                               *)
(*                                                                         *)
(* An update changes the amounts of all the points a span overlaps, then   *)
(* takes them out of the tree and puts them back ONE AT A TIME.  A point   *)
(* put back is compared with points whose amounts have changed but which   *)
(* are still where the old amounts put them, so the tree may end up out of *)
(* order, and the search of it may then miss points.                       *)
(***************************************************************************)
EXTENDS ScheduledPoints, MinTimeTree

VARIABLE mt_resource_tree   \* the tree

vars == <<plan, points, spans, iter, mt_resource_tree>>

-----------------------------------------------------------------------------

Init ==
    \E base \in BaseTimes, length \in PlanLengths :
        /\ InitBooks(base, length)
        /\ mt_resource_tree = Insert(EmptyTree, base, [p \in {base} |-> Total])

Reset(base, length) ==
    /\ ResetBooks(base, length)
    /\ mt_resource_tree' = Insert(EmptyTree, base, [p \in {base} |-> Total])

InsertAll(t, ps, key) == FoldLeft(LAMBDA s, p : Insert(s, p, key), t, ps)

\* restore_track_points, in the order `keys` of the hash table's keys.
RestoreTrackPoints(keys) == InsertAll(mt_resource_tree, keys, remaining)

\* The orders that a hash table may give to its keys.
KeyOrders == SetToSeqs(avail_time_iter)

\* update_mintime_resource_tree: each point of the list, in time order, is
\* taken out and, if still referenced, put back under its new amount.
UpdateMintimeResourceTree(t, list, key, refs) ==
    FoldLeft(LAMBDA s, p : IF refs[p] > 0 THEN Insert(Erase(s, p), p, key) ELSE Erase(s, p),
             t, list)

InTimeOrder(ps) == SetToSortSeq(ps, <)

AddSpan(start, duration, count) ==
    LET last == start + duration
        made == SelectSeq(<<start, last>>, LAMBDA p : p \notin sched_point_tree)
        list == InTimeOrder(Overlap(sched_point_tree', start, last))
    IN  /\ BookSpan(start, duration, count)
        /\ \E keys \in KeyOrders :
               mt_resource_tree' =
                   UpdateMintimeResourceTree(
                       InsertAll(RestoreTrackPoints(keys), made,
                                 CopiedState(remaining, sched_point_tree')),
                       list, remaining', ref_count')

RemSpan(id) ==
    LET span == span_lookup[id]
        list == InTimeOrder(Overlap(sched_point_tree, span.start, span.last))
        refs == Released(span.start, span.last)
        free == [p \in sched_point_tree |->
                    IF p \in sched_point_tree' THEN remaining'[p]
                    ELSE remaining[p] + IF p < span.last THEN span.planned ELSE 0]
        dead == Dead(span.start, span.last, refs)
    IN  /\ UnbookSpan(id)
        /\ \E keys \in KeyOrders :
               LET updated == UpdateMintimeResourceTree(RestoreTrackPoints(keys), list, free, refs)
               IN  mt_resource_tree' =
                       FoldLeft(LAMBDA s, p : IF p \in dead \cap Nodes(s) THEN Erase(s, p) ELSE s,
                                updated, <<span.start, span.last>>)

-----------------------------------------------------------------------------
(* planner_avail_time_first and planner_avail_time_next. *)

\* Faulty: a point that is too early is taken out and not tracked.
TrackedUnlessEarly(tracked, p, request) ==
    IF p < request.on_or_after THEN tracked ELSE tracked \cup {p}

\* track_points.
Tracked(tracked, p, request) == tracked \cup {p}

\* avail_at has looked at p: the tree and the tracker without and with it, and
\* what `at` holds.
LookedAt(walk, p, request) ==
    [tree    |-> Erase(walk.tree, p),
     tracked |-> Tracked(walk.tracked, p, request),
     at      |-> IF \/ p < request.on_or_after
                    \/ Stops(p, request) /\ p + request.duration > plan_end
                 THEN None ELSE p]

\* The loop of avail_at, until it stops at a point or the search has none left.
RECURSIVE Walk(_, _)
Walk(walk, request) ==
    LET p == Mintime(walk.tree, request.resources, remaining)
    IN  CASE p = Nil -> walk
          [] p # Nil /\ Stops(p, request) -> LookedAt(walk, p, request)
          [] OTHER -> Walk(LookedAt(walk, p, request), request)

AvailAt(t, tracked, request) ==
    \E walk \in {Walk([tree |-> t, tracked |-> tracked, at |-> None], request)} :
        /\ mt_resource_tree' = walk.tree
        /\ avail_time_iter' = walk.tracked
        /\ answer' = walk.at

AvailTimeFirst(request) ==
    /\ FirstAccepted(request)
    /\ \E keys \in KeyOrders : AvailAt(RestoreTrackPoints(keys), {}, request)
    /\ OpenIteration(request)

AvailTimeNext ==
    /\ avail_time_iter_set
    /\ AvailAt(mt_resource_tree, avail_time_iter, current_request)
    /\ ContinueIteration

AvailTimeNextFails == NoIteration /\ UNCHANGED mt_resource_tree

-----------------------------------------------------------------------------

Next ==
    \/ \E base \in BaseTimes, length \in PlanLengths : Reset(base, length)
    \/ \E start \in Times, duration \in Durations, count \in Counts :
           AddSpan(start, duration, count)
    \/ \E id \in DOMAIN span_lookup : RemSpan(id)
    \/ \E request \in Requests : AvailTimeFirst(request)
    \/ AvailTimeNext
    \/ AvailTimeNextFails

Spec == Init /\ [][Next]_vars

-----------------------------------------------------------------------------
(* Properties. *)

\* The tree is a red-black tree over live points after any sequence of calls:
\* rebalancing never depends on the order of the amounts.
TreeWellFormed ==
    /\ WellFormed(mt_resource_tree)
    /\ Nodes(mt_resource_tree) \subseteq sched_point_tree

\* The augmentation survives every insertion, removal and rotation: each node
\* has the least time of its subtree (planner.c:211-258).
SubtreeMinimaExact == MinimaExact(mt_resource_tree)

\* In a tree that is in order, the search finds the earliest point with the
\* amount free, or nothing when there is none (planner.c:303-384).
SearchExactWhenOrdered ==
    Ordered(mt_resource_tree, remaining) =>
        \A count \in 0 .. Total :
            LET fitting == {p \in Nodes(mt_resource_tree) : count <= remaining[p]}
            IN  Mintime(mt_resource_tree, count, remaining) =
                    IF fitting = {} THEN Nil ELSE Min(fitting)

\* The planner with a set for its tree, and any search of it.
AsSet == INSTANCE Planner WITH
    mt_resource_tree <- Nodes(mt_resource_tree), ExactSearch <- FALSE

\* Whatever the order of the tree, the planner is one of those that module
\* Planner describes for an arbitrary search: the points in the tree, the
\* tracked points and the answers are as there, and so are its theorems.
ImplementsPlanner == AsSet!Spec

\* planner.h: planner_avail_time_first returns the earliest time at or after
\* on_or_after at which the request can be satisfied.
FirstIsEarliest ==
    [][(avail_time_iter_set' /\ ~avail_time_iter_set /\ answer' # None) =>
           \A p \in sched_point_tree :
               (Stops(p, current_request') /\ p + current_request'.duration <= plan_end)
                   => answer' <= p]_vars
=============================================================================
