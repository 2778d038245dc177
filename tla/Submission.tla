------------------------------ MODULE Submission ------------------------------
(***************************************************************************)
(* One match command from the text of its jobspec to the candidates chosen *)
(* for it: the parser of jobspec.cpp, run() of dfu_traverse.cpp and        *)
(* jobmeta_t::build, select_count as the loop it is, and dom_finish_graph  *)
(* of the three policies.  What the walk over the graph finds is given as  *)
(* the candidates of each type; module Matcher is about the walk.          *)
(***************************************************************************)
EXTENDS Jobspec, Policies, SelectCountLoop

CONSTANTS
    Submissions,   \* records [document, candidates, policy]
    PlanEnd,       \* the end of the vertices' plans, which begin at 0
    LongWord,      \* 2^w for the w bits of a duration
    DefaultDuration

ASSUME SubmissionAssumption ==
    /\ PlanEnd \in Nat /\ LongWord \in Nat /\ PlanEnd < LongWord
    /\ DefaultDuration \in 1 .. PlanEnd
    /\ \A s \in Submissions :
        /\ s.policy \in {"high", "low", "locality"} /\ s.document \in Nodes
        /\ \A type \in DOMAIN s.candidates :
            /\ s.candidates[type] \in Seq([score : Nat, count : Nat \ {0}])
            /\ IsInjective(s.candidates[type])

VARIABLES
    submission,   \* the command
    stage,        \* how far it has come, or how it has ended
    jobspec,      \* what the parser has returned
    duration,     \* meta.duration
    at_request,   \* the request whose turn it is
    chosen        \* of each request before it, the groups chosen with their needs

rest == <<submission, jobspec, duration, at_request, chosen>>
vars == <<rest, stage, call>>

NoJobspec == [resources |-> <<>>, attributes |-> [key \in {} |-> 0]]

Init ==
    /\ submission \in Submissions /\ stage = "parse"
    /\ jobspec = NoJobspec /\ duration = DefaultDuration
    /\ at_request = 1 /\ chosen = <<>> /\ Idle

\* Jobspec::Jobspec returns.
Parse ==
    /\ stage = "parse" /\ JobspecAccepted(submission.document)
    /\ jobspec' = JobspecOf(submission.document) /\ stage' = "run"
    /\ UNCHANGED <<submission, duration, at_request, chosen, call>>

\* It throws a parse_error.
ParseError ==
    /\ stage = "parse" /\ ~JobspecAccepted(submission.document)
    /\ stage' = "rejected"
    /\ UNCHANGED <<rest, call>>

\* run(): a jobspec without resources.
RunInvalid ==
    /\ stage = "run" /\ jobspec.resources = <<>>
    /\ stage' = "unmet"
    /\ UNCHANGED <<rest, call>>

\* atoll of an attribute; a text that is no number counts as 0.
Atoll(text) ==
    LET numbers == {n \in -LongWord .. LongWord : ToString(n) = text}
    IN  IF numbers = {} THEN 0 ELSE CHOOSE n \in numbers : TRUE

\* Faulty: the duration keeps its sign.
BuildSigned ==
    /\ stage = "run" /\ jobspec.resources # <<>> /\ "system" \in DOMAIN jobspec.attributes
    /\ duration' = IF "duration" \in DOMAIN jobspec.attributes["system"]
                   THEN Atoll(jobspec.attributes["system"]["duration"])
                   ELSE duration
    /\ stage' = "prune"
    /\ UNCHANGED <<submission, jobspec, at_request, chosen, call>>

\* jobmeta_t::build
Build ==
    /\ stage = "run" /\ jobspec.resources # <<>> /\ "system" \in DOMAIN jobspec.attributes
    /\ duration' = IF "duration" \in DOMAIN jobspec.attributes["system"]
                   THEN Atoll(jobspec.attributes["system"]["duration"]) % LongWord
                   ELSE duration
    /\ stage' = "prune"
    /\ UNCHANGED <<submission, jobspec, at_request, chosen, call>>

\* The same without an entry "system": the end of the map is dereferenced.
BuildAstray ==
    /\ stage = "run" /\ jobspec.resources # <<>> /\ "system" \notin DOMAIN jobspec.attributes
    /\ stage' = "undefined"
    /\ UNCHANGED <<rest, call>>

\* by_avail at the root asks its plan for the window [0, duration): too short
\* a one is an error, too long a one a null pointer that is dereferenced.
PruneRoot ==
    /\ stage = "prune"
    /\ stage' = CASE duration < 1 -> "unmet"
                  [] duration \in 1 .. PlanEnd -> "select"
                  [] duration > PlanEnd -> "undefined"
    /\ UNCHANGED <<rest, call>>

Request(k) == jobspec.resources[k]

CandidatesOf(k) ==
    IF Request(k).type \in DOMAIN submission.candidates
    THEN submission.candidates[Request(k).type] ELSE <<>>

\* dom_finish_graph: one round of its loop calls select_count ...
CountCandidates ==
    /\ stage = "select"
    /\ Call(Request(at_request).count, Total(CandidatesOf(at_request)))
    /\ stage' = "count"
    /\ UNCHANGED rest

SelectCountStep == stage = "count" /\ LoopStep /\ UNCHANGED <<rest, stage>>

\* ... and ends the search if it returns 0 ...
Unmet ==
    /\ stage = "count" /\ returned /\ count = 0
    /\ stage' = "unmet"
    /\ UNCHANGED <<rest, call>>

\* The interval_set of the policy locality, which lives through all rounds.
SeenUpTo(k) == UNION {Scores(CandidatesOf(q)) : q \in 1 .. k}

\* ... or else takes the best.
ChooseBest ==
    /\ stage = "count" /\ returned /\ count > 0
    /\ \E groups \in {BestK(Ranked(submission.policy, SeenUpTo(at_request),
                                   CandidatesOf(at_request)), count)} :
        chosen' = Append(chosen, [groups |-> groups, needs |-> Needs(groups, count)])
    /\ at_request' = at_request + 1
    /\ stage' = IF at_request < Len(jobspec.resources) THEN "select" ELSE "met"
    /\ UNCHANGED <<submission, jobspec, duration, call>>

Next ==
    \/ Parse \/ ParseError
    \/ RunInvalid \/ Build \/ BuildAstray \/ PruneRoot
    \/ CountCandidates \/ SelectCountStep \/ Unmet \/ ChooseBest

Spec == Init /\ [][Next]_vars /\ WF_vars(Next)

-----------------------------------------------------------------------------

\* The types of what a command computes.
TypeOK ==
    /\ stage \in {"parse", "run", "prune", "select", "count",
                  "rejected", "unmet", "met", "undefined"}
    /\ duration \in 0 .. LongWord - 1 /\ at_request = Len(chosen) + 1
    /\ qc \in Nat /\ cur \in 0 .. Word - 1 /\ count \in 0 .. Word - 1 /\ returned \in BOOLEAN

\* All resources of a list of a document, at any depth.
Nested(list) ==
    LET nested[n \in Nodes] ==
            IF n.kind # "seq" THEN {}
            ELSE UNION {{m} \cup (IF Has(m, "with") THEN nested[m.at["with"]] ELSE {}) : m \in Range(n.items)}
    IN  nested[list]

\* One resource as the parser's messages describe it: the keys it must and
\* may have, and the kinds of their values.
WellFormed(n) ==
    /\ n.kind = "map"
    /\ {"type", "count"} \subseteq Keys(n) /\ Keys(n) \subseteq {"type", "count"} \cup OptionalKeys
    /\ \A key \in Keys(n) \ {"count", "with"} : IsScalar(n.at[key])
    /\ Has(n, "with") => n.at["with"].kind = "seq"
    /\ Has(n, "exclusive") => Text(n.at["exclusive"]) \in {"true", "false"}
    /\ Text(n.at["type"]) = "slot" => Has(n, "label")
    /\ CountAccepted(n.at["count"])

\* The parser accepts a document exactly if its four parts are there, its
\* tasks and attributes are accepted, and the resources at every depth are
\* well-formed one by one: counting the fields read finds every unknown key.
AcceptsGrammar ==
    stage # "parse" =>
        \E d \in {submission.document} :
            stage # "rejected" <=>
                /\ Keys(d) = {"version", "resources", "tasks", "attributes"}
                /\ IsUnsigned(d.at["version"]) /\ d.at["version"].v = 1
                /\ TasksAccepted(d.at["tasks"]) /\ AttributesAccepted(d.at["attributes"])
                /\ d.at["resources"].kind = "seq"
                /\ \A n \in Nested(d.at["resources"]) : WellFormed(n)

\* The requests of a list, down to a depth.
Requests(list, depth) ==
    LET upto[d \in 0 .. depth] ==
            IF d = 0 THEN Range(list) ELSE UNION {{r} \cup Range(r.with) : r \in upto[d - 1]}
    IN  upto[depth]

\* A jobspec is no deeper than its document.
AllRequests == Requests(jobspec.resources, Height[submission.document])

\* What the traverser is given is what module Matcher assumes of requests,
\* at every depth: their bounds are ordered and positive, or 0 of a scalar
\* count; every resource of the document is there, with its own type.
RequestsUsable ==
    /\ \A r \in AllRequests :
        /\ r.count.min <= r.count.max
        /\ r.count.min >= 1 \/ r.count = [min |-> 0, max |-> 0, oper |-> "+", operand |-> 1]
    /\ stage \notin {"parse", "rejected"} =>
        {r.type : r \in AllRequests} =
            {Text(n.at["type"]) : n \in Nested(submission.document.at["resources"])}

Amount(needs) == SumFunction(needs)

\* For every request that is dealt with, the groups chosen are different
\* candidates of its type that hold, with what is needed of each, exactly
\* the largest quantity that the request allows and the candidates have.
ChosenHoldCount ==
    \A k \in DOMAIN chosen :
        /\ Range(chosen[k].groups) \subseteq Range(CandidatesOf(k))
        /\ IsInjective(chosen[k].groups)
        /\ \A i \in DOMAIN chosen[k].needs : chosen[k].needs[i] \in 1 .. chosen[k].groups[i].count
        /\ Grows(Request(k).count) /\ Fits(Request(k).count, Total(CandidatesOf(k))) =>
            Amount(chosen[k].needs) = Largest(Request(k).count, Total(CandidatesOf(k)))

\* The candidates of the k-th request that are left.
Left(k) == Range(CandidatesOf(k)) \ Range(chosen[k].groups)

\* The policies "high" and "low" leave no candidate that they prefer to one
\* they choose.  Of the candidates of the first request the policy
\* "locality" breaks at most one run of ids: the others it takes whole or
\* not at all.
PolicyHonoured ==
    \A k \in DOMAIN chosen :
        CASE submission.policy = "high" ->
                \A g \in Range(chosen[k].groups), h \in Left(k) : g.score >= h.score
          [] submission.policy = "low" ->
                \A g \in Range(chosen[k].groups), h \in Left(k) : g.score <= h.score
          [] submission.policy = "locality" ->
                k = 1 =>
                    Cardinality({RunOf(g.score, Scores(CandidatesOf(1))) :
                        g \in {g \in Range(chosen[1].groups) : \E h \in Left(1) :
                            h.score \in RunOf(g.score, Scores(CandidatesOf(1)))}}) <= 1

\* run() comes to an answer for every jobspec whose counts can grow and do not
\* grow out of the integers they are kept in.
Answers ==
    stage = "run" /\ (\A k \in DOMAIN jobspec.resources :
                          Grows(Request(k).count) /\ Fits(Request(k).count, Total(CandidatesOf(k))))
        ~> stage \in {"unmet", "met", "undefined"}

\* Of the comment in Jobspec::Jobspec: attributes may be present and empty.
AttributesMayBeEmpty ==
    Keys(submission.document) # {} /\ stage = "undefined" =>
        Keys(submission.document.at["attributes"]) # {}
=============================================================================
