------------------------------ MODULE MCPlanner ------------------------------
(***************************************************************************)
(* Module Planner, and what it promises, for the model checker.            *)
(***************************************************************************)
EXTENDS PlannerPromise

\* Whatever a span may be asked for may be asked about.
AllRequests ==
    [on_or_after : {0, 1, 2, 3}, duration : {1, 2}, resources : {1, 2, 3}]
FewRequests ==
    [on_or_after : {0, 1, 2, 3}, duration : {1, 2}, resources : {1, 2}]
=============================================================================
