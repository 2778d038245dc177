---------------------------- MODULE PlannerPromise ----------------------------
(***************************************************************************)
(* What a planner promises its callers, in terms of the spans it was       *)
(* given: properties of module Planner that compare its points, instant by *)
(* instant, with the spans, and the refinement of module Calendar.         *)
(***************************************************************************)
EXTENDS Planner

\* The amount that the spans book at instant t, computed from the spans alone.
Usage(t) ==
    SumFunctionOnSet([id \in DOMAIN span_lookup |-> span_lookup[id].planned],
        {id \in DOMAIN span_lookup : span_lookup[id].start <= t /\ t < span_lookup[id].last})

\* The incremental bookkeeping of add_span and rem_span never drifts: at every
\* instant, not only at scheduled points, the point in force says what the
\* spans add up to.
LedgerExact ==
    \A t \in plan_start .. plan_end + 1 :
        LET p == StatePoint(t)
        IN  scheduled[p] = Usage(t) /\ remaining[p] = Total - Usage(t)

\* planner_avail_during says 0 exactly when the amount is free at every
\* instant asked for, whatever the points in between (planner.h:140-153).
\* (Past the end of the plan it says 0 of any amount.)
AvailDuringExact ==
    \A at \in Times, duration \in Durations, count \in Counts :
        (at >= plan_start /\ duration >= 1 /\ at + duration <= plan_end) =>
            (PlannerAvailDuring(at, duration, count) = 0 <=>
                \A t \in at .. at + duration - 1 : Usage(t) + count <= Total)

\* planner_avail_resources_during returns the least amount free in the window.
AvailResourcesExact ==
    \A at \in Times, duration \in Durations :
        (at >= plan_start /\ duration >= 1 /\ at + duration <= plan_end) =>
            AvailResourcesDuring(at, duration) =
                Min({Total - Usage(t) : t \in at .. at + duration - 1})

\* An answered time can be booked as asked, until the planner is updated:
\* avail_at never hands out a point it has rejected.
AnswersBookable ==
    \A p \in answered :
        /\ p >= current_request.on_or_after
        /\ p + current_request.duration <= plan_end
        /\ \A t \in p .. p + current_request.duration - 1 :
               Usage(t) + current_request.resources <= Total

\* The promise of module Calendar, from the concrete state.
Promise == INSTANCE Calendar WITH
    spans <- span_lookup, last_id <- span_counter, open <- avail_time_iter_set,
    request <- current_request

\* The planner implements the calendar: spans are booked only where they fit,
\* and an iteration returns the earliest fitting times, in order, skipping none.
ImplementsCalendar == Promise!Spec
=============================================================================
