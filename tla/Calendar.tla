------------------------------- MODULE Calendar -------------------------------
(***************************************************************************)
(* What a planner promises, with no scheduled points and no trees: a book  *)
(* of spans whose total never exceeds Total at any instant of the plan,    *)
(* and an iteration that answers a request with the earliest times, in     *)
(* order and without omission, at which the bookings change and the        *)
(* request fits.  Instants are the integers; a span holds its amount at    *)
(* start, ..., last - 1.                                                   *)
(***************************************************************************)
EXTENDS Integers, FiniteSets, FiniteSetsExt

CONSTANTS Total, BaseTimes, PlanLengths, Times, Durations, Counts, Requests, MaxSpanId

VARIABLES plan_start, plan_end, spans, last_id, open, request, answer, answered

vars == <<plan_start, plan_end, spans, last_id, open, request, answer, answered>>

None     == -1
NotAsked == -2

\* The amount booked at instant t.
Usage(t) ==
    SumFunctionOnSet([id \in DOMAIN spans |-> spans[id].planned],
                     {id \in DOMAIN spans : spans[id].start <= t /\ t < spans[id].last})

\* The whole request fits under the total, and inside the plan.
CanBook(start, duration, count) ==
    /\ start >= plan_start /\ start + duration <= plan_end
    /\ \A t \in start .. start + duration - 1 : Usage(t) + count <= Total

\* The instants at which the booked amount may change.
ChangeTimes ==
    {plan_start} \cup {spans[id].start : id \in DOMAIN spans}
                 \cup {spans[id].last : id \in DOMAIN spans}

\* The earliest change time, other than those in `given`, that answers r.
Earliest(r, given) ==
    LET times == {t \in ChangeTimes : /\ t >= r.on_or_after
                                      /\ CanBook(t, r.duration, r.resources)} \ given
    IN  IF times = {} THEN None ELSE Min(times)

-----------------------------------------------------------------------------

Init ==
    /\ \E base \in BaseTimes, length \in PlanLengths :
           plan_start = base /\ plan_end = base + length
    /\ spans = [id \in {} |-> {}] /\ last_id = 0
    /\ open = FALSE /\ request = [on_or_after |-> 0, duration |-> 0, resources |-> 0]
    /\ answer = NotAsked /\ answered = {}

\* Throw everything away and start over, with another plan.
Reset ==
    /\ \E base \in BaseTimes, length \in PlanLengths :
           plan_start' = base /\ plan_end' = base + length
    /\ spans' = [id \in {} |-> {}] /\ last_id' = 0
    /\ open' = FALSE /\ request' = [on_or_after |-> 0, duration |-> 0, resources |-> 0]
    /\ answer' = NotAsked /\ answered' = {}

Close == open' = FALSE /\ answer' = NotAsked /\ answered' = {}

Book(start, duration, count) ==
    /\ duration >= 1 /\ count >= 1
    /\ CanBook(start, duration, count)
    /\ last_id < MaxSpanId
    /\ last_id' = last_id + 1
    /\ spans' = [id \in DOMAIN spans \cup {last_id'} |->
                    IF id = last_id'
                    THEN [start |-> start, last |-> start + duration, planned |-> count]
                    ELSE spans[id]]
    /\ Close /\ UNCHANGED <<plan_start, plan_end, request>>

Cancel(id) ==
    /\ spans' = Restrict(spans, DOMAIN spans \ {id})
    /\ Close /\ UNCHANGED <<plan_start, plan_end, last_id, request>>

\* Open an iteration and give its first answer.
Ask(r) ==
    /\ open' = TRUE /\ request' = r
    /\ answer' = Earliest(r, {}) /\ answered' = {answer'} \ {None}
    /\ UNCHANGED <<plan_start, plan_end, spans, last_id>>

\* Give the next answer of the open iteration.
AskAgain ==
    /\ open
    /\ answer' = Earliest(request, answered)
    /\ answered' = answered \cup ({answer'} \ {None})
    /\ UNCHANGED <<plan_start, plan_end, spans, last_id, open, request>>

\* An updated calendar has no open iteration to continue.
AskInVain ==
    /\ ~open /\ answer' = None
    /\ UNCHANGED <<plan_start, plan_end, spans, last_id, open, request, answered>>

Next ==
    \/ Reset
    \/ \E start \in Times, duration \in Durations, count \in Counts :
           Book(start, duration, count)
    \/ \E id \in DOMAIN spans : Cancel(id)
    \/ \E r \in Requests : Ask(r)
    \/ AskAgain
    \/ AskInVain

Spec == Init /\ [][Next]_vars
=============================================================================
