--------------------------- MODULE ScheduledPoints ---------------------------
(***************************************************************************)
(* The books of the planner of planner/planner.c: a calendar of resource   *)
(* amounts over integer time.  A span books an amount for the half-open    *)
(* interval [start, last).  The planner keeps one scheduled point per time *)
(* at which the free amount may change, and indexes the points twice:      *)
(*                                                                         *)
(*   sched_point_tree  by time, for the state at an arbitrary instant;     *)
(*   mt_resource_tree  by free amount, augmented with the least time of    *)
(*                     each subtree, for the earliest point that can take  *)
(*                     a request.                                          *)
(*                                                                         *)
(* This module has the points and spans, and what the calls do to them.    *)
(* Two modules add the second index and the search of it: Planner, where   *)
(* it is a set, and PlannerTree, where it is the red-black tree.           *)
(*                                                                         *)
(* Abstractions.  A point is named by its time, so the pointers start_p    *)
(* and last_p of a span are the times start and last, and sched_point_tree *)
(* is the set of the times in it.  There is one resource type, as in every *)
(* planner that resource-query builds (resource-query.cpp:406-412); for    *)
(* one type rescmp is a difference.  Times and durations are small enough  *)
(* for int64 sums not to wrap, and Total fits an int (rescmp accumulates   *)
(* in one).                                                                *)
(***************************************************************************)
EXTENDS Integers, FiniteSets, FiniteSetsExt

CONSTANTS
    Total,        \* total_resources[0]
    BaseTimes,    \* base times a planner is created or reset with
    PlanLengths,  \* and the durations it covers
    Times,        \* start times that spans are asked for,
    Durations,    \* their durations
    Counts,       \* and their amounts
    Requests,     \* requests that planner_avail_time_first is asked
    MayOverrun,   \* whether add_span callers may ask beyond plan_end
    MaxSpanId     \* BOUND on span_counter

ASSUME TotalAssumption  == Total \in Nat
ASSUME PlanAssumption   == BaseTimes \subseteq Nat /\ PlanLengths \subseteq Nat \ {0}
ASSUME RequestAssumption ==
    /\ Times \subseteq Nat /\ Durations \subseteq Nat /\ Counts \subseteq Nat
    /\ Requests \subseteq [on_or_after : Nat, duration : Nat, resources : Nat]
ASSUME MayOverrunAssumption == MayOverrun \in BOOLEAN
ASSUME MaxSpanIdAssumption  == MaxSpanId \in Nat

VARIABLES
    plan_start,          \* base time
    plan_end,            \* end of the plan
    sched_point_tree,    \* times of the scheduled points
    scheduled,           \* per point: amount booked from it on
    remaining,           \* per point: amount free from it on
    ref_count,           \* per point: how many span ends (and p0) hold it
    span_lookup,         \* span id -> [start, last, planned]
    span_counter,        \* last span id given out
    avail_time_iter,     \* points an iteration has taken out of the mt tree
    avail_time_iter_set, \* whether an iteration is open
    current_request,     \* the request the open iteration is about
    answer,              \* result of the last planner_avail_time_* call
    answered             \* ghost: times the open iteration has returned

points == <<sched_point_tree, scheduled, remaining, ref_count>>
plan   == <<plan_start, plan_end>>
spans  == <<span_lookup, span_counter>>
iter   == <<avail_time_iter, avail_time_iter_set, current_request, answer, answered>>
books  == <<plan, points, spans, iter>>

None     == -1    \* "no such time", the -1 that the calls return
NotAsked == -2    \* no planner_avail_time_* call since the last update

Span    == [start : Nat, last : Nat, planned : Nat]
Request == [on_or_after : Nat, duration : Nat, resources : Nat]

-----------------------------------------------------------------------------
(* Looking up the state of the plan. *)

\* scheduled_point_state: the latest scheduled point at or before t.
IsState(p, t) ==
    /\ p \in sched_point_tree /\ p <= t
    /\ \A q \in sched_point_tree : q <= t => q <= p

StatePoint(t) == CHOOSE p \in sched_point_tree : IsState(p, t)

\* Faulty: forgets the state already in force at `at`.
WindowFromNextPoint(at, duration) ==
    {p \in sched_point_tree : at <= p /\ p < at + duration}

\* Faulty: includes the point at at + duration.
WindowPastEnd(at, duration) ==
    {p \in sched_point_tree : p <= at + duration /\ (p >= at \/ IsState(p, at))}

\* The points that avail_during and span_ok walk over: the one in force at
\* `at` and every later one before at + duration.
Window(at, duration) ==
    {p \in sched_point_tree : p < at + duration /\ (p >= at \/ IsState(p, at))}

\* rescmp (request, remaining) > 0 somewhere in the window?
Fits(at, duration, count) ==
    \A p \in Window(at, duration) : count <= remaining[p]

\* avail_during.  A request that runs past plan_end takes the early
\* `return -1` of a function returning bool, which is true.
AvailDuring(at, duration, count) ==
    at + duration > plan_end \/ Fits(at, duration, count)

\* planner_avail_during, 0 or -1.
PlannerAvailDuring(at, duration, count) ==
    IF /\ duration >= 1 /\ count <= Total
       /\ AvailDuring(at, duration, count)
    THEN 0 ELSE -1

\* planner_avail_resources_at for a time at or after plan_start.
AvailResourcesAt(at) == remaining[StatePoint(at)]

\* Faulty: the amount free at the start only.
AvailResourcesAtStart(at, duration) == AvailResourcesAt(at)

\* planner_avail_resources_during on a window inside the plan: the smallest
\* `remaining` of the points it walks over.
AvailResourcesDuring(at, duration) ==
    Min({remaining[p] : p \in Window(at, duration)})

\* span_input_check and not_feasable.
SpanInputOk(start, duration, count) ==
    /\ start >= plan_start
    /\ duration >= 1
    /\ start + duration - 1 <= plan_end
    /\ count <= Total
    /\ count > 0

\* When planner_add_span takes a request.
AddAccepted(start, duration, count) ==
    AvailDuring(start, duration, count) /\ SpanInputOk(start, duration, count)

-----------------------------------------------------------------------------
(* What planner_new, planner_reset, planner_add_span and planner_rem_span    *)
(* do to points and spans.                                                 *)

NoRequest == [on_or_after |-> 0, duration |-> 0, resources |-> 0]

NoSpan    == [start |-> 0, last |-> 0, planned |-> 0]

\* initialize: one point, p0, holding the whole amount at base time.
InitBooks(base, length) ==
    /\ plan_start = base /\ plan_end = base + length
    /\ sched_point_tree = {base}
    /\ scheduled = [p \in {base} |-> 0]
    /\ remaining = [p \in {base} |-> Total]
    /\ ref_count = [p \in {base} |-> 1]
    /\ span_lookup = [id \in {} |-> NoSpan] /\ span_counter = 0
    /\ avail_time_iter = {} /\ avail_time_iter_set = FALSE
    /\ current_request = NoRequest
    /\ answer = NotAsked /\ answered = {}

\* planner_reset erases everything and initializes again; ids restart from 1.
ResetBooks(base, length) ==
    /\ plan_start' = base /\ plan_end' = base + length
    /\ sched_point_tree' = {base}
    /\ scheduled' = [p \in {base} |-> 0]
    /\ remaining' = [p \in {base} |-> Total]
    /\ ref_count' = [p \in {base} |-> 1]
    /\ span_lookup' = [id \in {} |-> NoSpan] /\ span_counter' = 0
    /\ avail_time_iter' = {} /\ avail_time_iter_set' = FALSE
    /\ current_request' = NoRequest
    /\ answer' = NotAsked /\ answered' = {}

\* What both updates do to an iteration: restore_track_points empties the
\* tracker, and avail_time_iter_set is cleared.
CloseIteration ==
    /\ avail_time_iter' = {} /\ avail_time_iter_set' = FALSE
    /\ answer' = NotAsked /\ answered' = {}
    /\ UNCHANGED current_request

\* fetch_overlap_points: those of `tree` at which [start, last) is booked.
Overlap(tree, start, last) == {p \in tree : start <= p /\ p < last}

\* Faulty: a new point starts from the state at base time.
CopiedFromBase(f, tree) ==
    [p \in tree |-> IF p \in sched_point_tree THEN f[p] ELSE f[plan_start]]

\* get_or_new_point: a new point starts from the state in force at its time.
\* (For span->last that state may be the point just made for span->start,
\* which carries the same amounts.)
CopiedState(f, tree) ==
    [p \in tree |-> IF p \in sched_point_tree THEN f[p] ELSE f[StatePoint(p)]]

\* The reference counts after both ends of a new span have been taken (a new
\* point starts from zero), and after those of an old one have been released.
Held(p) == IF p \in sched_point_tree THEN ref_count[p] ELSE 0
\* Faulty: the point at `last` is not counted.
AcquiredStartOnly(start, last, tree) ==
    [p \in tree |-> IF p = start THEN Held(p) + 1 ELSE Held(p)]
\* Faulty: a new point starts from one, then is counted.
AcquiredFromOne(start, last, tree) ==
    [p \in tree |-> IF p \notin sched_point_tree THEN 2
                    ELSE IF p \in {start, last} THEN Held(p) + 1 ELSE Held(p)]
Acquired(start, last, tree) ==
    [p \in tree |-> IF p \in {start, last} THEN Held(p) + 1 ELSE Held(p)]
Released(start, last) ==
    [p \in sched_point_tree |-> IF p \in {start, last} THEN ref_count[p] - 1 ELSE ref_count[p]]

\* Faulty: frees a point that one more span needs.
DeadTooEarly(start, last, refs) == {p \in {start, last} : refs[p] <= 1}

\* The ends of a removed span that nobody refers to any more are freed.
Dead(start, last, refs) == {p \in {start, last} : refs[p] = 0}

\* planner_add_span, but for the min-time tree.
BookSpan(start, duration, count) ==
    LET last    == start + duration
        tree    == sched_point_tree \cup {start, last}
        overlap == Overlap(tree, start, last)
        sched   == CopiedState(scheduled, tree)
        rem     == CopiedState(remaining, tree)
    IN  /\ AddAccepted(start, duration, count)
        /\ MayOverrun \/ last <= plan_end
        /\ span_counter < MaxSpanId
        /\ span_counter' = span_counter + 1
        /\ span_lookup' = [id \in DOMAIN span_lookup \cup {span_counter + 1} |->
                              IF id = span_counter + 1
                              THEN [start |-> start, last |-> last, planned |-> count]
                              ELSE span_lookup[id]]
        /\ sched_point_tree' = tree
        /\ scheduled' = [p \in tree |-> IF p \in overlap THEN sched[p] + count ELSE sched[p]]
        /\ remaining' = [p \in tree |-> IF p \in overlap THEN rem[p] - count ELSE rem[p]]
        /\ ref_count' = Acquired(start, last, tree)
        /\ CloseIteration
        /\ UNCHANGED plan

\* planner_rem_span, but for the min-time tree.
UnbookSpan(id) ==
    LET span    == span_lookup[id]
        overlap == Overlap(sched_point_tree, span.start, span.last)
        refs    == Released(span.start, span.last)
        dead    == Dead(span.start, span.last, refs)
        tree    == sched_point_tree \ dead
    IN  /\ id \in DOMAIN span_lookup
        /\ span_lookup' = Restrict(span_lookup, DOMAIN span_lookup \ {id})
        /\ sched_point_tree' = tree
        /\ scheduled' = [p \in tree |-> IF p \in overlap THEN scheduled[p] - span.planned
                                                         ELSE scheduled[p]]
        /\ remaining' = [p \in tree |-> IF p \in overlap THEN remaining[p] + span.planned
                                                         ELSE remaining[p]]
        /\ ref_count' = Restrict(refs, tree)
        /\ CloseIteration
        /\ UNCHANGED <<plan, span_counter>>

-----------------------------------------------------------------------------
(* What planner_avail_time_first and planner_avail_time_next check and set. *)

\* The request is one that planner_avail_time_first takes.
FirstAccepted(request) ==
    /\ request.on_or_after >= plan_start /\ request.on_or_after < plan_end
    /\ request.duration >= 1
    /\ request.resources <= Total

OpenIteration(request) ==
    /\ FirstAccepted(request)
    /\ avail_time_iter_set' = TRUE
    /\ current_request' = request
    /\ answered' = {answer'} \ {None}
    /\ UNCHANGED <<plan, points, spans>>

ContinueIteration ==
    /\ avail_time_iter_set
    /\ answered' = answered \cup ({answer'} \ {None})
    /\ UNCHANGED <<avail_time_iter_set, current_request, plan, points, spans>>

\* Without an open iteration planner_avail_time_next fails and returns -1.
NoIteration ==
    /\ ~avail_time_iter_set
    /\ answer' = None
    /\ UNCHANGED <<plan, points, spans, avail_time_iter, avail_time_iter_set,
                   current_request, answered>>

\* Faulty: looks at the starting point only, not at the whole span.
StopsAtStart(p, request) == p >= request.on_or_after /\ request.resources <= remaining[p]

\* avail_at stops at a point that is late enough and whose span is free.
Stops(p, request) ==
    /\ p >= request.on_or_after
    /\ Fits(p, request.duration, request.resources)

=============================================================================
