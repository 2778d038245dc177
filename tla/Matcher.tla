------------------------------- MODULE Matcher -------------------------------
(***************************************************************************)
(* select() of dfu_traverse_impl.cpp: the depth-first walk that looks for  *)
(* the resources of a jobspec at one time, with the scoring of             *)
(* scoring_api.hpp and the policies of dfu_match_id_based.hpp, and the     *)
(* marks it leaves for update().                                           *)
(*                                                                         *)
(* The walk reads the schedule data and changes none of it, so it is a     *)
(* function of that data.  A request is a record [type, min, max, oper,    *)
(* operand, exclusive, with], with the requests below it in "with".  The   *)
(* eval_egroup_t of a type are a sequence of groups [score, count, edges], *)
(* an edge a record [to, needs, exclusive].                                *)
(***************************************************************************)
EXTENDS Booking, SelectCount, Policies

CONSTANTS
    Policy,          \* "high", "low" or "locality"
    ResourceLists    \* the lists of requests in the jobspecs, with all below them

\* The README asks that a type be named once at a level; jobspec.cpp that
\* counts be positive, and a slot has a shape.
ASSUME ResourceAssumption ==
    /\ Policy \in {"high", "low", "locality"}
    /\ ResourceLists \subseteq Seq(UNION {Range(resources) : resources \in ResourceLists})
    /\ \A resources \in ResourceLists : \A i \in DOMAIN resources :
        /\ resources[i].with \in ResourceLists
        /\ {resources[i].min, resources[i].max, resources[i].operand} \subseteq Nat
        /\ resources[i].oper \in {"+", "*", "^"}
        /\ resources[i].min >= 1 /\ resources[i].max >= resources[i].min
        /\ Grows(resources[i])
        /\ resources[i].type = "slot" => resources[i].with # <<>>
        /\ \A k \in DOMAIN resources : resources[k].type = resources[i].type => k = i

-----------------------------------------------------------------------------
(* What the visit of a vertex asks of the requests at hand. *)

OfType(u, resources) == {r \in Range(resources) : r.type = Type[u]}

Exclusivity(u, resources) == \E r \in OfType(u, resources) : r.exclusive

\* prime: the tracked amount that a list of requests needs at least.
Needed[resources \in ResourceLists] ==
    MapThenSumSet(LAMBDA r : r.min * ((IF r.type \in Tracked THEN 1 ELSE 0) + Needed[r.with]),
                  Range(resources))

\* The requests that u satisfies, if any: those below the one of its type.
Asked(u, resources) ==
    IF OfType(u, resources) = {} THEN <<>>
    ELSE (CHOOSE r \in OfType(u, resources) : TRUE).with

\* match: the slot to look for at u, if any; of the requests the first that
\* is of its type or a slot decides.
SlotAt(u, resources) ==
    LET named == {i \in DOMAIN resources : resources[i].type \in {Type[u], "slot"}}
        first == {resources[i] : i \in {k \in named : \A l \in named : k <= l}}
    IN  {r \in first \cup UNION {Range(r.with) : r \in {q \in first : q.type # "slot"}} :
            r.type = "slot"}

Neighbours(u) == Range(Kids[u]) \cup {v \in Vertices : u \in Range(Kids[v])}

\* test, slot_match: the slots whose every type is next to u.
SlotMatched(u, resources) ==
    {s \in SlotAt(u, resources) :
        \A r \in Range(s.with) : \E v \in Neighbours(u) : Type[v] = r.type}

\* match, when a slot of the list comes before the type of u.
Matched(u, resources) ==
    OfType(u, resources) # {} /\ {s \in SlotAt(u, resources) : s \in Range(resources)} = {}

\* test: the requests to go on with below u when no slot matches.
NextResources(u, resources) ==
    IF Matched(u, resources) THEN Asked(u, resources) ELSE resources

Avail(u, at, duration) == AvailResourcesDuring(vtx[u].plans, at, duration)

\* Faulty: exclusive requests are not held against the jobs already there.
PrunedByPlans(u, resources, at, duration) == Avail(u, at, duration) = 0

\* Faulty: a vertex of which nothing is left is looked at all the same.
PrunedByCounts(u, resources, at, duration) ==
    \E r \in OfType(u, resources) :
        \/ r.exclusive /\ ~AvailDuring(vtx[u].x_checker, at, duration, XCheckerNJobs)
        \/ HasSubplan(u) /\ ~AvailDuring(vtx[u].subplan, at, duration, Needed[r.with])

\* prune: by the vertex's plan, its exclusivity checker and its subtree plan.
Pruned(u, resources, at, duration) ==
    \/ Avail(u, at, duration) = 0
    \/ \E r \in OfType(u, resources) :
        \/ r.exclusive /\ ~AvailDuring(vtx[u].x_checker, at, duration, XCheckerNJobs)
        \/ HasSubplan(u) /\ ~AvailDuring(vtx[u].subplan, at, duration, Needed[r.with])

-----------------------------------------------------------------------------
(* Scoring: groups of candidates, by type. *)

NoEvals == [type \in {} |-> <<>>]
Groups(evals, type) == IF type \in DOMAIN evals THEN evals[type] ELSE <<>>

QualifiedCount(evals, type) == Total(Groups(evals, type))

\* The quantity of a request to select among the candidates, 0 if too few.
Chosen(evals, r) == SelectCount(r, QualifiedCount(evals, r.type))

AddGroups(evals, type, groups) ==
    [t \in DOMAIN evals \cup {type} |->
        IF t = type THEN Groups(evals, t) \o groups ELSE evals[t]]

MergeEvals(evals, other) ==
    [t \in DOMAIN evals \cup DOMAIN other |-> Groups(evals, t) \o Groups(other, t)]

\* enforce: the marks of the edges in some groups, and further marks.
EdgesOf(groups) == UNION {Range(groups[i].edges) : i \in DOMAIN groups}
Marked(edges) ==
    [v \in {e.to : e \in edges} |->
        LET e == CHOOSE e \in edges : e.to = v
        IN  [needs |-> e.needs, exclusive |-> e.exclusive]]
With(marks, other) ==
    [v \in DOMAIN marks \cup DOMAIN other |-> IF v \in DOMAIN other THEN other[v] ELSE marks[v]]

Satisfied(evals, resources) == \A r \in Range(resources) : Chosen(evals, r) > 0

\* The scores in the interval_set when it is the turn of the i-th request:
\* those of the earlier requests stay in it.
Seen(evals, resources, i) ==
    UNION {Scores(Groups(evals, resources[k].type)) : k \in 1 .. i}

\* The groups chosen for the i-th request.
ChosenGroups(evals, resources, i) ==
    LET groups == Groups(evals, resources[i].type)
    IN  BestK(Ranked(Policy, Seen(evals, resources, i), groups), Chosen(evals, resources[i]))

\* The marks for a list of requests.
Enforced(evals, resources) ==
    Marked(UNION {EdgesOf(ChosenGroups(evals, resources, i)) : i \in DOMAIN resources})

-----------------------------------------------------------------------------
(* The walk.  Of a visit: whether the vertex is a candidate, its score,    *)
(* what is available of it and in which mode; the groups it hands up; the  *)
(* marks below it; and whether a slot ran past the end of its candidates,  *)
(* where the program reads a vector out of its bounds.                     *)

Start == [evals |-> NoEvals, marks |-> NoEntry, overrun |-> FALSE]

Refused(dfu) ==
    [ok |-> FALSE, score |-> 0, avail |-> 0, exclusive |-> FALSE,
     evals |-> NoEvals, marks |-> dfu.marks, overrun |-> dfu.overrun]

\* explore: what the kids of u add.
Gather(dfu, v, r) ==
    [evals |-> IF ~r.ok THEN dfu.evals
               ELSE AddGroups(MergeEvals(dfu.evals, r.evals), Type[v],
                      <<[score |-> r.score, count |-> r.avail,
                         edges |-> <<[to |-> v, needs |-> r.avail,
                                      exclusive |-> r.exclusive]>>]>>),
     marks |-> With(dfu.marks, r.marks), overrun |-> dfu.overrun \/ r.overrun]

Explore(visit, u, resources, exclusive) ==
    FoldLeft(LAMBDA dfu, v : Gather(dfu, v, visit[<<v, resources, exclusive>>]), Start, Kids[u])

\* Where the candidates of one slot end: the cursor after n slots of "need".
CursorAfter(groups, need, n) ==
    LET cursor[k \in Nat] ==
            IF k = 0 THEN 0
            ELSE Min({i \in cursor[k - 1] .. Len(groups) :
                         Total(SubSeq(groups, cursor[k - 1] + 1, i)) >= need}
                     \cup {Len(groups) + 1})
    IN  cursor[n]

\* dom_finish_slot: only the high policy's orders the candidates; those of
\* the others have another signature and are never called.
SlotRanked(groups) == IF Policy = "high" THEN Ranked(Policy, {}, groups) ELSE groups

\* cnt_slot: as many slots as the scarcest type allows.
QualifiedSlots(evals, shape) ==
    Min({IF Chosen(evals, r) = 0 THEN 0
         ELSE QualifiedCount(evals, r.type) \div Chosen(evals, r) : r \in Range(shape)})

\* The candidates that go into the n-th slot for one request of the shape.
SlotPart(evals, r, n) ==
    LET groups == SlotRanked(Groups(evals, r.type))
    IN  SubSeq(groups, CursorAfter(groups, Chosen(evals, r), n - 1) + 1,
                       CursorAfter(groups, Chosen(evals, r), n))

SlotGroup(parts) ==
    [score |-> 1 + SumFunction([i \in DOMAIN parts |-> parts[i].score]), count |-> 1,
     edges |-> [i \in DOMAIN parts |-> [parts[i].edges[1] EXCEPT !.exclusive = TRUE]]]

\* Faulty: slots do not advance over the candidates.
SlotsAlike(evals, shape, n) ==
    [i \in 1 .. n |-> SlotGroup(FlattenSeq([k \in DOMAIN shape |-> SlotPart(evals, shape[k], 1)]))]

Slots(evals, shape, n) ==
    [i \in 1 .. n |-> SlotGroup(FlattenSeq([k \in DOMAIN shape |-> SlotPart(evals, shape[k], i)]))]

\* dom_slot, on what explore found below u.
DomSlot(dfu, shape) ==
    LET n == QualifiedSlots(dfu.evals, shape)
        past == \E r \in Range(shape) :
                    \E groups \in {Groups(dfu.evals, r.type)} :
                        CursorAfter(SlotRanked(groups), Chosen(dfu.evals, r), n) > Len(groups)
    IN  CASE n = 0 -> [dfu EXCEPT !.evals = NoEvals]
          [] n > 0 /\ past -> [dfu EXCEPT !.evals = NoEvals, !.overrun = TRUE]
          [] OTHER -> [dfu EXCEPT !.evals =
                          AddGroups(NoEvals, "slot", Slots(dfu.evals, shape, n))]

\* dom_finish_vtx and resolve: what u satisfies is marked and not handed up.
Finish(u, resources, exclusive, avail, dfu) ==
    IF ~Satisfied(dfu.evals, Asked(u, resources)) THEN Refused(dfu)
    ELSE [ok |-> TRUE, score |-> Id[u] + 2, avail |-> avail, exclusive |-> exclusive,
          evals |-> IF Asked(u, resources) = <<>> THEN dfu.evals ELSE NoEvals,
          marks |-> With(dfu.marks, Enforced(dfu.evals, Asked(u, resources))),
          overrun |-> dfu.overrun]

\* dom_slot or dom_exp.
BelowVertex(visit, u, resources, exclusive) ==
    IF SlotMatched(u, resources) = {}
    THEN Explore(visit, u, NextResources(u, resources), exclusive)
    ELSE LET slot == CHOOSE s \in SlotMatched(u, resources) : TRUE
         IN  DomSlot(Explore(visit, u, slot.with, TRUE), slot.with)

\* dom_dfv at u, in the mode that its parent leaves it in.
VisitVertex(visit, u, resources, x, at, duration) ==
    LET exclusive == x \/ Exclusivity(u, resources)
    IN  IF Pruned(u, resources, at, duration) THEN Refused(Start)
        ELSE Finish(u, resources, exclusive, Avail(u, at, duration),
                    BelowVertex(visit, u, resources, exclusive))

Visits == Vertices \X ResourceLists \X BOOLEAN

\* dom_dfv, for every vertex, list of requests and mode of the parent.
DomDfv(at, duration) ==
    LET visit[c \in Visits] == VisitVertex(visit, c[1], c[2], c[3], at, duration)
    IN  visit

-----------------------------------------------------------------------------
(* select and resolve at the root. *)

\* The root's own group has no edge to mark.
RootEvals(r) == AddGroups(r.evals, Type[Root], <<[score |-> r.score, count |-> r.avail,
                                                  edges |-> <<>>]>>)

RootNeeds(r, resources) ==
    IF OfType(Root, resources) = {} THEN 1
    ELSE SelectCount(CHOOSE q \in OfType(Root, resources) : TRUE, r.avail)

\* The types that the jobspec does not name at its top are taken in full.
Unconstrained(evals, resources) ==
    DOMAIN evals \ {r.type : r \in Range(resources)}

\* [ok, marks, overrun] of select for the requests of a jobspec.
Select(resources, at, duration) ==
    CHOOSE m \in
      {LET evals == RootEvals(r)
           ok == r.ok /\ Satisfied(evals, resources) /\ RootNeeds(r, resources) > 0
           all == UNION {EdgesOf(evals[t]) : t \in Unconstrained(evals, resources)}
       IN  [ok |-> ok, overrun |-> r.overrun,
            marks |-> IF ~ok THEN r.marks
                      ELSE With(With(With(r.marks, Enforced(evals, resources)), Marked(all)),
                                [v \in {Root} |-> [needs |-> RootNeeds(r, resources),
                                                   exclusive |-> r.exclusive]])] :
       r \in {DomDfv(at, duration)[<<Root, resources, Exclusivity(Root, resources)>>]}} : TRUE
=============================================================================
