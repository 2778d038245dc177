------------------------------ MODULE Policies ------------------------------
(***************************************************************************)
(* Choosing among the candidates of a type: the orders that the policies   *)
(* of dfu_match_id_based.hpp put them in, and choose_best_k of             *)
(* scoring_api.hpp.  Candidates are a sequence of groups with at least the *)
(* fields score and count.                                                 *)
(***************************************************************************)
EXTENDS Integers, Sequences, SequencesExt

Total(groups) == SumFunction([i \in DOMAIN groups |-> groups[i].count])

Scores(groups) == {groups[i].score : i \in DOMAIN groups}

\* The interval of an interval_set that a score lies in, as the set of the
\* scores in it: intervals that touch are joined.
RunOf(score, scores) ==
    {s \in scores : \A t \in s .. score \cup score .. s : t \in scores}

\* Faulty: the policy low does not pass its comparator on.
RankDefault(policy, seen, group) ==
    IF policy = "locality" THEN Min(RunOf(group.score, seen)) ELSE group.score

\* What the comparator of a policy compares, the greater before the less.
\* "seen" are the scores in the interval_set of the policy locality, whose
\* intervals are compared by where they start.
Rank(policy, seen, group) ==
    CASE policy = "high" -> group.score
      [] policy = "low" -> -group.score
      [] policy = "locality" -> Min(RunOf(group.score, seen))

\* std::sort; it keeps short sequences stable: a group comes after those that
\* rank higher and those that rank the same and came before it.
Ranked(policy, seen, groups) ==
    LET rank == [i \in DOMAIN groups |-> Rank(policy, seen, groups[i])]
        before(i) == {j \in DOMAIN groups : rank[j] > rank[i] \/ (rank[j] = rank[i] /\ j < i)}
    IN  [k \in DOMAIN groups |->
            groups[CHOOSE i \in DOMAIN groups : Cardinality(before(i)) = k - 1]]

\* Faulty: one group, whatever it holds.
BestOne(groups, k) == SubSeq(groups, 1, 1)

\* choose_best_k: group by group, as long as those before do not hold k.
BestK(groups, k) ==
    SubSeq(groups, 1, Cardinality({i \in DOMAIN groups : Total(SubSeq(groups, 1, i - 1)) < k}))

\* Faulty: the last group is not cut.
Uncut(groups, k) == [i \in DOMAIN groups |-> groups[i].count]

\* What is needed of each of them: all, and of the last what is left.
Needs(groups, k) ==
    [i \in DOMAIN groups |-> Min({groups[i].count, k - Total(SubSeq(groups, 1, i - 1))})]
=============================================================================
