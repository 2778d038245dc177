---------------------------- MODULE MCPlannerTree ----------------------------
(***************************************************************************)
(* Module PlannerTree for the model checker.  Three spans are enough to    *)
(* disorder the tree: two that leave points with one unit free, and one    *)
(* across them that takes it.                                              *)
(***************************************************************************)
EXTENDS PlannerTree

\* A short request from the start, and a long one from the middle.
ShortAndLong ==
    {[on_or_after |-> 0, duration |-> 1, resources |-> 1],
     [on_or_after |-> 1, duration |-> 2, resources |-> 1]}
=============================================================================
