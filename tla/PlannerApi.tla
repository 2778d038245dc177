------------------------------ MODULE PlannerApi ------------------------------
(***************************************************************************)
(* A planner as its callers see it: a value that holds the total and the   *)
(* spans booked, and what each call of planner.h returns for it.  Module   *)
(* Planner shows that planner.c keeps this contract as long as no span     *)
(* runs past the end of the plan; the plans of resource-query are          *)
(* INT64_MAX long, so none does.                                           *)
(***************************************************************************)
EXTENDS Integers, FiniteSetsExt, Functions

NoSpan == -1   \* what planner_add_span returns when it fails

NewPlanner(total) == [total |-> total, counter |-> 0, spans |-> [id \in {} |-> 0]]

SpansAt(p, t) == {id \in DOMAIN p.spans : p.spans[id].start <= t /\ t < p.spans[id].last}

\* What is booked at instant t.
Booked(p, t) == MapThenSumSet(LAMBDA id : p.spans[id].planned, SpansAt(p, t))

AvailResourcesDuring(p, at, duration) ==
    Min({p.total - Booked(p, t) : t \in at .. at + duration - 1})

AvailDuring(p, at, duration, count) == count <= AvailResourcesDuring(p, at, duration)

\* A span that does not fit, or of nothing, is refused.
CanAdd(p, at, duration, count) == count > 0 /\ AvailDuring(p, at, duration, count)

\* The id that planner_add_span returns, and the planner it leaves.
AddedId(p, at, duration, count) ==
    IF CanAdd(p, at, duration, count) THEN p.counter + 1 ELSE NoSpan

Added(p, at, duration, count) ==
    IF ~CanAdd(p, at, duration, count) THEN p
    ELSE LET id == p.counter + 1
         IN  [p EXCEPT !.counter = id,
                       !.spans = [i \in DOMAIN @ \cup {id} |->
                                     IF i = id
                                     THEN [start |-> at, last |-> at + duration,
                                           planned |-> count]
                                     ELSE @[i]]]

Removed(p, id) == [p EXCEPT !.spans = Restrict(@, DOMAIN @ \ {id})]

\* The times that an availability iteration may answer: those from
\* on_or_after on at which the bookings change and the request fits.
AvailTimes(p, on_or_after, duration, count) ==
    {t \in {0} \cup {p.spans[id].start : id \in DOMAIN p.spans}
               \cup {p.spans[id].last : id \in DOMAIN p.spans} :
        t >= on_or_after /\ AvailDuring(p, t, duration, count)}
=============================================================================
