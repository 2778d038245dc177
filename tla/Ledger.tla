------------------------------- MODULE Ledger -------------------------------
(***************************************************************************)
(* What a session of resource-query promises, without the traverser: jobs  *)
(* are granted bookings of resources, all for the same time and all at     *)
(* once, none beyond what a resource has; a job keeps exactly its bookings *)
(* until it is cancelled, and then all of them go at once.                 *)
(***************************************************************************)
EXTENDS Integers, FiniteSetsExt, Functions

CONSTANTS Resources, Capacity

VARIABLES
    held,       \* for each job, its bookings: [resource, start, last, amount]
    next_job    \* the id of the next job

ledger == <<held, next_job>>

\* What is booked of a resource at an instant.
Used(table, resource, t) ==
    MapThenSumSet(
        LAMBDA job : MapThenSumSet(LAMBDA b : b.amount,
            {b \in table[job] : b.resource = resource /\ b.start <= t /\ t < b.last}),
        DOMAIN table)

\* It can only be exceeded where some booking starts.
WithinCapacity(table) ==
    \A job \in DOMAIN table : \A b \in table[job] :
        Used(table, b.resource, b.start) <= Capacity[b.resource]

Init == held = [job \in {} |-> {}] /\ next_job = 1

Grant ==
    /\ DOMAIN held' = DOMAIN held \cup {next_job}
    /\ held'[next_job] # {}
    /\ \A b, c \in held'[next_job] :
        /\ b.amount > 0 /\ b.start < b.last
        /\ b.start = c.start /\ b.last = c.last
        /\ b.resource = c.resource => b = c
    /\ \A job \in DOMAIN held : held'[job] = held[job]
    /\ WithinCapacity(held')
    /\ next_job' = next_job + 1

Refuse == next_job' = next_job + 1 /\ UNCHANGED held

Release(job) == held' = Restrict(held, DOMAIN held \ {job}) /\ UNCHANGED next_job

Next == Grant \/ Refuse \/ \E job \in DOMAIN held : Release(job)

Spec == Init /\ [][Next]_ledger
=============================================================================
