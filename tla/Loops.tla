-------------------------------- MODULE Loops --------------------------------
(***************************************************************************)
(* A loop over a sequence as an expression, and maps as functions: what    *)
(* the modules that build data step by step are written in.                *)
(***************************************************************************)
EXTENDS Integers, Sequences

\* op(value), for which TLC evaluates the value once.
Of(op(_), value) == CHOOSE y \in {op(x) : x \in {value}} : TRUE

\* What is left of base once every member of seq, in order, has changed it.
Folded(op(_, _), base, seq) ==
    LET upto[n \in 0 .. Len(seq)] == IF n = 0 THEN base ELSE Of(LAMBDA x : op(x, seq[n]), upto[n - 1])
    IN  upto[Len(seq)]

\* The members that pass the test, in their order.
Where(test(_), seq) == Folded(LAMBDA kept, x : IF test(x) THEN Append(kept, x) ELSE kept, <<>>, seq)

Product(seq) == Folded(LAMBDA a, b : a * b, 1, seq)

NoMap == [key \in {} |-> 0]
Put(map, key, value) == [k \in DOMAIN map \cup {key} |-> IF k = key THEN value ELSE map[k]]
Over(map, below) == [k \in DOMAIN map \cup DOMAIN below |-> IF k \in DOMAIN map THEN map[k] ELSE below[k]]
=============================================================================
