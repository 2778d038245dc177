--------------------------- MODULE SelectCountLoop ---------------------------
(***************************************************************************)
(* A call of matcher_data_t::select_count, round by round and at the width *)
(* of its unsigned integers, compared with the operator SelectCount that   *)
(* the traverser's model uses and with the largest quantity that the       *)
(* request allows.                                                         *)
(***************************************************************************)
EXTENDS SelectCount, Words

VARIABLES
    request, qc,   \* the arguments
    cur, count,    \* the local variables
    returned

call == <<request, qc, cur, count, returned>>

Idle ==
    /\ request = [min |-> 0, max |-> 0, oper |-> "+", operand |-> 1] /\ qc = 0
    /\ cur = 0 /\ count = 0 /\ returned = TRUE

Call(r, quantity) ==
    /\ request' = r /\ qc' = quantity
    /\ cur' = r.min /\ count' = 0 /\ returned' = FALSE

TooFew == request.min > request.max \/ request.min > qc

Within == cur <= qc /\ cur <= request.max

SmallPower == request.oper = "^" /\ request.operand < 2

\* The request cannot be met.
Refuse ==
    /\ ~returned /\ TooFew
    /\ returned' = TRUE
    /\ UNCHANGED <<request, qc, cur, count>>

\* "^" with an operand below two: no loop.
TakeMin ==
    /\ ~returned /\ ~TooFew /\ SmallPower
    /\ count' = cur /\ returned' = TRUE
    /\ UNCHANGED <<request, qc, cur>>

\* Faulty: the count is taken after the step.
RoundLate ==
    /\ ~returned /\ ~TooFew /\ ~SmallPower /\ Within
    /\ cur' = Grown(request, cur) % Word /\ count' = cur'
    /\ UNCHANGED <<request, qc, returned>>

\* Faulty: "cur" does not move on.
RoundInPlace ==
    /\ ~returned /\ ~TooFew /\ ~SmallPower /\ Within
    /\ count' = cur
    /\ UNCHANGED <<request, qc, cur, returned>>

\* One round of the loop.
Round ==
    /\ ~returned /\ ~TooFew /\ ~SmallPower /\ Within
    /\ count' = cur /\ cur' = Grown(request, cur) % Word
    /\ UNCHANGED <<request, qc, returned>>

\* The loop ends.
Leave ==
    /\ ~returned /\ ~TooFew /\ ~SmallPower /\ ~Within
    /\ returned' = TRUE
    /\ UNCHANGED <<request, qc, cur, count>>

LoopStep == Refuse \/ TakeMin \/ Round \/ Leave

-----------------------------------------------------------------------------

\* The quantities up to a limit that a request allows: its minimum, and with
\* each of them the one that the operator and the operand make of it.
Allowed(c, limit) ==
    LET allowed[q \in c.min .. limit] ==
            \/ q = c.min
            \/ /\ ~ (c.oper = "^" /\ c.operand < 2)
               /\ \E p \in c.min .. q - 1 : q = Grown(c, p) /\ allowed[p]
    IN  {q \in c.min .. limit : allowed[q]}

\* No quantity that the loop may come to grows out of its word.
Fits(c, quantity) ==
    \/ c.oper = "^" /\ c.operand < 2
    \/ \A q \in c.min .. Min({c.max, quantity}) : Grown(c, q) < Word

Largest(c, quantity) == Max({0} \cup Allowed(c, Min({c.max, quantity})))

\* A call whose loop grows within its word returns the largest quantity that
\* the request allows and that qualifies, 0 if there is none, and so does the
\* operator SelectCount.  (Out of its word it may return less than the minimum.)
SelectsLargest ==
    returned /\ Grows(request) /\ Fits(request, qc) =>
        count = Largest(request, qc) /\ count = SelectCount(request, qc)
=============================================================================
