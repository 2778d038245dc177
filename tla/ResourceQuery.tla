---------------------------- MODULE ResourceQuery ----------------------------
(***************************************************************************)
(* A session of resource-query: the match and cancel commands of           *)
(* command.cpp on top of the traverser.  The commands run one at a time.   *)
(***************************************************************************)
EXTENDS Matcher

CONSTANTS
    Jobspecs,       \* the jobspecs to match: records [resources, duration]
    MaxJobs,        \* bound: the number of match commands of a session
    PlannerExact    \* planner queries never skip a time (see module PlannerTree)

ASSUME JobspecAssumption ==
    /\ \A j \in Jobspecs : /\ j.resources \in ResourceLists /\ j.resources # <<>>
                           /\ j.duration \in Nat \ {0}
    /\ MaxJobs \in Nat /\ PlannerExact \in BOOLEAN

VARIABLES
    jobs,           \* job_info_t: the jobspec, state and time of each matched job
    allocations,    \* resource_context_t: the jobs allocated
    reservations,   \*   and the jobs reserved
    jobid_counter,
    undefined       \* the walk has read a vector out of its bounds

session == <<jobs, allocations, reservations>>
vars == <<vtx, session, jobid_counter, undefined>>

Init ==
    /\ InitVertices
    /\ jobs = [id \in {} |-> 0] /\ allocations = {} /\ reservations = {}
    /\ jobid_counter = 1 /\ undefined = FALSE

SelectAt(j, at) == Select(j.resources, at, j.duration)

\* The times after now at which the root's subtree plan has what j needs.
ReserveTimes(j) == AvailTimes(vtx[Root].subplan, 1, j.duration, Needed[j.resources])

\* Faulty: the first time that the root's plan offers is the only one tried.
FirstTime(j) ==
    LET first == {t \in ReserveTimes(j) : \A s \in ReserveTimes(j) : t <= s}
    IN  {t \in first : SelectAt(j, t).ok}

\* j matches or the walk goes astray.
EndsAt(j, t) == \E select \in {SelectAt(j, t)} : select.ok \/ select.overrun

\* The times at which the search for a reservation may end: the first at
\* which there is an end to it, any such if queries skip times.
EndTimes(j) ==
    LET ends == {t \in ReserveTimes(j) : EndsAt(j, t)}
    IN  {t \in ends : PlannerExact => \A s \in ends : t <= s}

NoTime == -1   \* no time is left to try

\* schedule(): the times at which it may end.
ScheduleTimes(j, op) ==
    IF EndsAt(j, 0) THEN {0}
    ELSE IF op = "allocate" THEN {NoTime}
    ELSE UNION {IF PlannerExact /\ ends # {} THEN ends ELSE ends \cup {NoTime} :
                   ends \in {EndTimes(j)}}

\* What update() gets.
Selection(j, at, marks) ==
    [at |-> at, duration |-> j.duration, allocate |-> at = 0, marks |-> marks]

\* Faulty: only the jobs that run now are remembered.
RecordAllocated(j, at) ==
    /\ jobs' = IF at > 0 THEN jobs
               ELSE Put(jobs, jobid_counter, [jobspec |-> j, at |-> at, state |-> "ALLOCATED"])
    /\ allocations' = IF at = 0 THEN allocations \cup {jobid_counter} ELSE allocations
    /\ reservations' = IF at = 0 THEN reservations ELSE reservations \cup {jobid_counter}

\* print_schedule_info for a match at time "at".
RecordJob(j, at) ==
    /\ jobs' = Put(jobs, jobid_counter,
                   [jobspec |-> j, at |-> at,
                    state |-> IF at = 0 THEN "ALLOCATED" ELSE "RESERVED"])
    /\ allocations' = IF at = 0 THEN allocations \cup {jobid_counter} ELSE allocations
    /\ reservations' = IF at = 0 THEN reservations ELSE reservations \cup {jobid_counter}

CanMatch == ~undefined /\ jobid_counter <= MaxJobs

\* cmd_match finds resources and books them.
CmdMatch(j, op) ==
    /\ CanMatch
    /\ \E at \in ScheduleTimes(j, op) \ {NoTime} : \E select \in {SelectAt(j, at)} :
        /\ ~select.overrun
        /\ UpdateSucceeds(Selection(j, at, select.marks))
        /\ UpdDfv(jobid_counter, Selection(j, at, select.marks))
        /\ RecordJob(j, at)
    /\ jobid_counter' = jobid_counter + 1
    /\ UNCHANGED undefined

\* cmd_match finds none, or none to book: the job id is used up.
CmdMatchFails(j, op) ==
    /\ CanMatch
    /\ \E at \in ScheduleTimes(j, op) :
        \/ at = NoTime
        \/ /\ at # NoTime
           /\ \E select \in {SelectAt(j, at)} :
                ~select.overrun /\ ~UpdateSucceeds(Selection(j, at, select.marks))
    /\ jobid_counter' = jobid_counter + 1
    /\ UNCHANGED <<vtx, session, undefined>>

\* A walk reads out of bounds; what the program does next is not defined,
\* and the session is not followed any further.
CmdMatchAstray(j, op) ==
    /\ CanMatch
    /\ \E at \in ScheduleTimes(j, op) \ {NoTime} : SelectAt(j, at).overrun
    /\ undefined' = TRUE
    /\ UNCHANGED <<vtx, session, jobid_counter>>

\* Faulty: the job stays in its table.
ForgetState(id) ==
    /\ jobs' = [jobs EXCEPT ![id].state = "CANCELLED"]
    /\ UNCHANGED <<allocations, reservations>>

\* do_remove, and the tables of cmd_cancel.
Forget(id) ==
    /\ jobs' = [jobs EXCEPT ![id].state = "CANCELLED"]
    /\ allocations' = allocations \ {id}
    /\ reservations' = IF id \in allocations THEN reservations ELSE reservations \ {id}

CmdCancel(id) ==
    /\ ~undefined /\ id \in allocations \cup reservations
    /\ RemDfv(id)
    /\ IF RemoveSucceeds(id) THEN Forget(id) ELSE UNCHANGED session
    /\ UNCHANGED <<jobid_counter, undefined>>

Next ==
    \/ \E j \in Jobspecs, op \in {"allocate", "allocate_orelse_reserve"} :
        CmdMatch(j, op) \/ CmdMatchFails(j, op) \/ CmdMatchAstray(j, op)
    \/ \E id \in DOMAIN jobs : CmdCancel(id)

Spec == Init /\ [][Next]_vars

-----------------------------------------------------------------------------

Active == allocations \cup reservations

SpanOK(total) == [start : Nat, last : Nat, planned : 1 .. total]

\* The types of the session and of each vertex's schedule data.
TypeOK ==
    /\ jobid_counter \in 1 .. MaxJobs + 1 /\ undefined \in BOOLEAN
    /\ DOMAIN jobs \subseteq 1 .. jobid_counter - 1 /\ Active \subseteq DOMAIN jobs
    /\ \A id \in DOMAIN jobs :
        jobs[id].state \in {"ALLOCATED", "RESERVED", "CANCELLED"} /\ jobs[id].at \in Nat
    /\ \A u \in Vertices :
        /\ Range(vtx[u].plans.spans) \subseteq SpanOK(Size[u])
        /\ Range(vtx[u].subplan.spans) \subseteq SpanOK(Aggregate(u))
        /\ Range(vtx[u].x_checker.spans) \subseteq SpanOK(1)
        /\ vtx[u].tags \subseteq DOMAIN jobs

\* The tables of a vertex tell the same story as its planners: every entry
\* has a live span of its own and every span an entry; no update has left
\* the entry of a failed call (job2span may keep entries of cancelled jobs).
VertexTablesAgree(r) ==
    LET plans   == [job \in DOMAIN r.allocations \cup DOMAIN r.reservations |->
                       PlanSpan(r, job)]
        subplan == Restrict(r.job2span, DOMAIN r.job2span \cap r.tags)
    IN  /\ DOMAIN r.allocations \cap DOMAIN r.reservations = {}
        /\ DOMAIN plans \subseteq r.tags
        /\ r.x_spans \in Bijection(r.tags, DOMAIN r.x_checker.spans)
        /\ plans \in Bijection(DOMAIN plans, DOMAIN r.plans.spans)
        /\ subplan \in Bijection(DOMAIN subplan, DOMAIN r.subplan.spans)
TablesAgree == \A u \in Vertices : VertexTablesAgree(vtx[u])

\* The session's tables and the graph know the same jobs: the root is tagged
\* with the jobs that are not cancelled, and a vertex books for a job as an
\* allocation or a reservation according to the job's state.
SessionAgrees ==
    /\ allocations = {id \in DOMAIN jobs : jobs[id].state = "ALLOCATED"}
    /\ reservations = {id \in DOMAIN jobs : jobs[id].state = "RESERVED"}
    /\ vtx[Root].tags = Active
    /\ \A u \in Vertices : /\ DOMAIN vtx[u].allocations \subseteq allocations
                           /\ DOMAIN vtx[u].reservations \subseteq reservations

HasBooking(u, job) == job \in DOMAIN vtx[u].allocations \cup DOMAIN vtx[u].reservations

\* What a match marks at a vertex is free there, now or at the time of the
\* reservation: the update that follows books all of it and none of it fails.
MatchesFit ==
    \A j \in Jobspecs : \A at \in ScheduleTimes(j, "allocate_orelse_reserve") \ {NoTime} :
        \E select \in {SelectAt(j, at)} : \E m \in {Selection(j, at, select.marks)} :
            ~select.overrun =>
                \A v \in Picked(m) : m.marks[v].needs \in 1 .. Size[v] /\ PlanAccepts(v, m)

\* A vertex is tagged with a job exactly if the job has something booked at
\* or below it, so that the walk of a cancel finds every booking.
TagsLeadToBookings ==
    \A u \in Vertices :
        vtx[u].tags = {job \in Active : \E v \in Vertices : u \in Path[v] /\ HasBooking(v, job)}

BookedFor(u, job) == vtx[u].plans.spans[PlanSpan(vtx[u], job)]

\* The subtree plan of a vertex accounts for each job with exactly what the
\* job has booked of the tracked types below the vertex, at the same time.
SubplansExact ==
    \A u \in Vertices : \A job \in vtx[u].tags :
        \E below \in {{v \in Below(u) : Type[v] \in Tracked /\ HasBooking(v, job)}} :
            /\ job \in DOMAIN vtx[u].job2span <=> below # {}
            /\ below # {} =>
                \E s \in {vtx[u].subplan.spans[vtx[u].job2span[job]]} :
                    /\ s.planned = MapThenSumSet(LAMBDA v : BookedFor(v, job).planned, below)
                    /\ \A v \in below : BookedFor(v, job).start = s.start
                                        /\ BookedFor(v, job).last = s.last

\* The vertices of a type that a job has, at or below u.
Has(job, u, type) ==
    {v \in Below(u) \cup {u} : Type[v] = type /\ job \in vtx[v].tags}

\* Below u the job has no less and no more of a request than the request
\* allows, the bounds being those of the slots around it (lo, hi); pools are
\* given in full, so only their number is bounded from above.
WithinRequest(job, u, r, lo, hi) ==
    /\ MapThenSumSet(LAMBDA v : Size[v], Has(job, u, r.type)) >= lo * r.min
    /\ Cardinality(Has(job, u, r.type)) <= hi * r.max

\* Each active job has, at every level of its jobspec, what it asks for.
JobsGetWhatTheyAsked ==
    LET got[job \in Active, u \in Vertices, resources \in ResourceLists] ==
            \A r \in Range(resources) :
                IF r.type = "slot"
                THEN \A q \in Range(r.with) :
                        /\ WithinRequest(job, u, q, r.min, r.max)
                        /\ \A v \in Has(job, u, q.type) : got[job, v, q.with]
                ELSE /\ WithinRequest(job, u, r, 1, 1)
                     /\ \A v \in Has(job, u, r.type) : got[job, v, r.with]
    IN  \A job \in Active : got[job, Root, jobs[job].jobspec.resources]

Overlap(a, b) ==
    /\ jobs[a].at < jobs[b].at + jobs[b].jobspec.duration
    /\ jobs[b].at < jobs[a].at + jobs[a].jobspec.duration

\* The types that a jobspec asks exclusive access to.
ExclusiveTypes(resources) ==
    LET types[rs \in ResourceLists] ==
            {r.type : r \in {q \in Range(rs) : q.exclusive}}
            \cup UNION {types[r.with] : r \in Range(rs)}
    IN  types[resources]

\* A job that asks for exclusive access to a type shares no vertex of that
\* type with a job of the same time, whichever of the two came first.
ExclusiveAlone ==
    \A a \in Active : \A u \in Vertices :
        a \in vtx[u].tags /\ Type[u] \in ExclusiveTypes(jobs[a].jobspec.resources) =>
            /\ HasBooking(u, a)
            /\ \A b \in vtx[u].tags \ {a} : ~Overlap(a, b)

\* A session keeps the promise of module Ledger: bookings come and go by
\* the job, a job's all at once, nobody else's with them, within capacity.
Bookings(job) ==
    {[resource |-> u, start |-> BookedFor(u, job).start, last |-> BookedFor(u, job).last,
      amount |-> BookedFor(u, job).planned] : u \in {v \in Vertices : HasBooking(v, job)}}
LedgerOfSession == INSTANCE Ledger WITH
    Resources <- Vertices, Capacity <- Size, next_job <- jobid_counter,
    held <- [job \in {id \in DOMAIN jobs : Bookings(id) # {}} |-> Bookings(job)]
ImplementsLedger == LedgerOfSession!Spec

\* Of the comment in resource_data.hpp on X_CHECKER_NJOBS: a vertex that
\* some job uses at a time is not given exclusively to another for that time.
ExclusiveNotShared ==
    \A u \in Vertices : \A a, b \in vtx[u].tags :
        a # b /\ HasBooking(u, a) => ~Overlap(a, b)

\* The times at which something that is booked anywhere ends, and now.
FreeingTimes ==
    {0} \cup UNION {{s.last : s \in Range(vtx[u].plans.spans)} : u \in Vertices}

\* Of the README on allocate_orelse_reserve: a job that is reserved, or
\* refused, could not have been scheduled any earlier.  It holds as long as
\* every job books some of a tracked type.
EarliestPoint ==
    [][/\ \A id \in DOMAIN jobs' \ DOMAIN jobs : \A t \in FreeingTimes :
            t < jobs'[id].at => ~SelectAt(jobs'[id].jobspec, t).ok
       /\ jobid_counter' > jobid_counter /\ jobs' = jobs =>
            \A j \in Jobspecs : CmdMatchFails(j, "allocate_orelse_reserve") =>
                \A t \in FreeingTimes : ~SelectAt(j, t).ok]_vars

\* Of the comment in cnt_slot: there are as many slots as the most
\* constrained type allows, so none goes past the last candidate.
SlotsStayWithin == ~undefined
=============================================================================
