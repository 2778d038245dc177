----------------------------- MODULE SelectCount -----------------------------
(***************************************************************************)
(* matcher_data_t::select_count: from a request's count (min, max,         *)
(* operator, operand) and the quantity that qualifies, the quantity to     *)
(* select, or 0 if the request cannot be met.                              *)
(***************************************************************************)
EXTENDS Integers, FiniteSetsExt

\* cur times itself, operand - 1 times over.
Power(cur, operand) ==
    LET power[i \in Nat] == IF i <= 1 THEN cur ELSE cur * power[i - 1]
    IN  power[operand]

\* One round of the loop: the next larger quantity the request allows.
Grown(count, cur) ==
    CASE count.oper = "+" -> cur + count.operand
      [] count.oper = "*" -> cur * count.operand
      [] count.oper = "^" -> Power(cur, count.operand)

\* The loop makes progress: the operand and the least quantity let it grow.
Grows(count) ==
    CASE count.oper = "+" -> count.operand >= 1
      [] count.oper = "*" -> count.operand >= 2
      [] count.oper = "^" -> count.operand < 2 \/ count.min >= 2

\* The last quantity of the loop that is still within the limit.
LastWithin(count, limit) ==
    LET last[cur \in count.min .. limit] ==
            IF Grown(count, cur) > limit THEN cur ELSE last[Grown(count, cur)]
    IN  last[count.min]

SelectCount(count, qc) ==
    LET limit == Min({qc, count.max})
    IN  CASE count.min > limit -> 0
          [] count.min <= limit /\ count.oper = "^" /\ count.operand < 2 -> count.min
          [] OTHER -> LastWithin(count, limit)
=============================================================================
