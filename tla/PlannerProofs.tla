---------------------------- MODULE PlannerProofs -----------------------------
(*****************************************************************************)
(* Proofs about module Planner, for every total, plan, set of requests and   *)
(* bound on span ids. The inductive invariant is IInv: types, the index of   *)
(* points, the reference counts and the extent of spans depend on one        *)
(* another (a count stays in Nat because it counts the spans that hold the   *)
(* point; a span end can be looked up because its count kept it alive), so   *)
(* they are proved together. The second part is about what the points say,   *)
(* the third about the availability iteration.                               *)
(*****************************************************************************)
EXTENDS PlannerPromise, DataLemmas

IInv ==
    /\ TypeOK
    /\ PointsIndexedOnce
    /\ RefCountExact
    /\ PointsAreSpanEnds
    /\ SpansOrdered

-----------------------------------------------------------------------------
\* The state in force exists at every time at or after the base time, and
\* StatePoint returns it (scheduled_point_state never returns NULL there).
LEMMA StatePointExists ==
    ASSUME TypeOK, plan_start \in sched_point_tree,
           NEW t \in Nat, plan_start <= t
    PROVE  IsState(StatePoint(t), t)
<1> DEFINE S == {p \in sched_point_tree : p <= t}
<1>1. S \in SUBSET Nat /\ S # {} /\ \A x \in S : x <= t
  BY DEF TypeOK
<1>2. \E m \in S : \A x \in S : x <= m
  BY <1>1, GreatestElement
<1>3. \E m \in sched_point_tree : IsState(m, t)
  BY <1>2 DEF IsState
<1>4. QED  BY <1>3 DEF StatePoint

\* Finitely many spans begin or end at a time.
LEMMA HoldersFinite ==
    ASSUME TypeOK, NEW p
    PROVE  /\ IsFiniteSet(StartsAt(p)) /\ Cardinality(StartsAt(p)) \in Nat
           /\ IsFiniteSet(EndsAt(p)) /\ Cardinality(EndsAt(p)) \in Nat
<1>1. IsFiniteSet(1 .. span_counter)
  <2>1. span_counter \in Int
    BY MaxSpanIdAssumption DEF TypeOK
  <2>2. QED  BY <2>1, FS_Interval
<1>2. StartsAt(p) \in SUBSET (1 .. span_counter) /\ EndsAt(p) \in SUBSET (1 .. span_counter)
  BY DEF TypeOK, StartsAt, EndsAt
<1>3. IsFiniteSet(StartsAt(p)) /\ IsFiniteSet(EndsAt(p))
  BY <1>1, <1>2, FS_Subset
<1>4. QED  BY <1>3, FS_CardinalityType

\* Every scheduled point is held by somebody.
LEMMA RefCountPositive ==
    ASSUME TypeOK, RefCountExact, PointsAreSpanEnds,
           NEW p \in sched_point_tree
    PROVE  ref_count[p] >= 1
<1> DEFINE s == Cardinality(StartsAt(p))
           e == Cardinality(EndsAt(p))
<1>1. s \in Nat /\ e \in Nat
  BY HoldersFinite
<1>2. ref_count[p] = s + e + IF p = plan_start THEN 1 ELSE 0
  BY DEF RefCountExact
<1>3. CASE p = plan_start
  BY <1>1, <1>2, <1>3
<1>4. CASE StartsAt(p) # {}
  <2>1. s # 0
    BY <1>4, HoldersFinite, FS_EmptySet
  <2>2. QED  BY <1>1, <1>2, <2>1
<1>5. CASE EndsAt(p) # {}
  <2>1. e # 0
    BY <1>5, HoldersFinite, FS_EmptySet
  <2>2. QED  BY <1>1, <1>2, <2>1
<1>6. p = plan_start \/ StartsAt(p) # {} \/ EndsAt(p) # {}
  BY DEF PointsAreSpanEnds, StartsAt, EndsAt
<1>7. QED  BY <1>3, <1>4, <1>5, <1>6

-----------------------------------------------------------------------------
(* The invariant holds initially and after a reset. *)

LEMMA NothingBooked ==
    ASSUME NEW f, DOMAIN f = {}, NEW p
    PROVE  /\ Cardinality({id \in DOMAIN f : f[id].start = p}) = 0
           /\ Cardinality({id \in DOMAIN f : f[id].last = p}) = 0
<1>1. {id \in DOMAIN f : f[id].start = p} = {} /\ {id \in DOMAIN f : f[id].last = p} = {}
  OBVIOUS
<1>2. QED  BY <1>1, FS_EmptySet

LEMMA InitIInv == Init => IInv
<1> SUFFICES ASSUME Init PROVE IInv
  OBVIOUS
<1>1. PICK base \in BaseTimes, length \in PlanLengths :
          InitBooks(base, length) /\ mt_resource_tree = {base}
  BY DEF Init
<1>2. base \in Nat /\ length \in Nat /\ length > 0
  BY PlanAssumption
<1>3. TypeOK
  <2>1. span_lookup \in [DOMAIN span_lookup -> Span] /\ DOMAIN span_lookup = {}
    BY <1>1 DEF InitBooks
  <2>2. /\ scheduled \in [sched_point_tree -> Int]
        /\ remaining \in [sched_point_tree -> Int]
        /\ ref_count \in [sched_point_tree -> Nat]
    BY <1>1, TotalAssumption DEF InitBooks
  <2>3. current_request \in Request
    BY <1>1 DEF InitBooks, NoRequest, Request
  <2>4. plan_start \in Nat /\ plan_end \in Nat /\ plan_start < plan_end
    BY <1>1, <1>2 DEF InitBooks
  <2>5. span_counter \in 0 .. MaxSpanId /\ DOMAIN span_lookup \subseteq 1 .. span_counter
    BY <1>1, <2>1, MaxSpanIdAssumption DEF InitBooks
  <2>6. /\ sched_point_tree \in SUBSET Nat /\ answered \in SUBSET Nat
        /\ mt_resource_tree \subseteq sched_point_tree
        /\ avail_time_iter \subseteq sched_point_tree
        /\ avail_time_iter_set \in BOOLEAN /\ answer \in Nat \cup {None, NotAsked}
    BY <1>1, <1>2 DEF InitBooks
  <2>7. QED
    BY <2>1, <2>2, <2>3, <2>4, <2>5, <2>6 DEF TypeOK
<1>4. PointsIndexedOnce /\ PointsAreSpanEnds /\ SpansOrdered
  BY <1>1 DEF PointsIndexedOnce, PointsAreSpanEnds, SpansOrdered, InitBooks
<1>5. RefCountExact
  <2>1. (DOMAIN span_lookup = {})
    BY <1>1 DEF InitBooks
  <2>2. \A p : (Cardinality(StartsAt(p)) = 0 /\ Cardinality(EndsAt(p)) = 0)
    BY <2>1, NothingBooked DEF StartsAt, EndsAt
  <2>3. (sched_point_tree = {base} /\ ref_count = [p \in {base} |-> 1] /\ plan_start = base)
    BY <1>1 DEF InitBooks
  <2>4. QED  BY <2>2, <2>3 DEF RefCountExact
<1>6. QED  BY <1>3, <1>4, <1>5 DEF IInv

LEMMA ResetIInv ==
    ASSUME NEW base \in BaseTimes, NEW length \in PlanLengths, Reset(base, length)
    PROVE  IInv'
<1>1. base \in Nat /\ length \in Nat /\ length > 0
  BY PlanAssumption
<1>2. TypeOK'
  <2>1. (span_lookup \in [DOMAIN span_lookup -> Span] /\ DOMAIN span_lookup = {})'
    BY DEF Reset, ResetBooks
  <2>2. (/\ scheduled \in [sched_point_tree -> Int]
         /\ remaining \in [sched_point_tree -> Int]
         /\ ref_count \in [sched_point_tree -> Nat])'
    BY TotalAssumption DEF Reset, ResetBooks
  <2>3. current_request' \in Request
    BY DEF Reset, ResetBooks, NoRequest, Request
  <2>4. (plan_start \in Nat /\ plan_end \in Nat /\ plan_start < plan_end)'
    BY <1>1 DEF Reset, ResetBooks
  <2>5. (span_counter \in 0 .. MaxSpanId /\ DOMAIN span_lookup \subseteq 1 .. span_counter)'
    BY <2>1, MaxSpanIdAssumption DEF Reset, ResetBooks
  <2>6. (/\ sched_point_tree \in SUBSET Nat /\ answered \in SUBSET Nat
         /\ mt_resource_tree \subseteq sched_point_tree
         /\ avail_time_iter \subseteq sched_point_tree
         /\ avail_time_iter_set \in BOOLEAN /\ answer \in Nat \cup {None, NotAsked})'
    BY <1>1 DEF Reset, ResetBooks
  <2>7. QED
    BY <2>1, <2>2, <2>3, <2>4, <2>5, <2>6 DEF TypeOK
<1>3. (PointsIndexedOnce /\ PointsAreSpanEnds /\ SpansOrdered)'
  BY DEF Reset, ResetBooks, PointsIndexedOnce, PointsAreSpanEnds, SpansOrdered
<1>4. RefCountExact'
  <2>1. (DOMAIN span_lookup = {})'
    BY DEF Reset, ResetBooks
  <2>2. \A p : (Cardinality(StartsAt(p)) = 0 /\ Cardinality(EndsAt(p)) = 0)'
    BY <2>1, NothingBooked DEF StartsAt, EndsAt
  <2>3. (sched_point_tree = {base} /\ ref_count = [p \in {base} |-> 1] /\ plan_start = base)'
    BY DEF Reset, ResetBooks
  <2>4. QED  BY <2>2, <2>3 DEF RefCountExact
<1>5. QED  BY <1>2, <1>3, <1>4 DEF IInv

-----------------------------------------------------------------------------
(* Adding a span. *)

LEMMA AddSpanIInv ==
    ASSUME IInv, NEW start \in Times, NEW duration \in Durations, NEW count \in Counts,
           AddSpan(start, duration, count)
    PROVE  IInv'
<1> DEFINE last  == start + duration
           tree  == sched_point_tree \cup {start, last}
           new   == span_counter + 1
<1>1. /\ start \in Nat /\ last \in Nat /\ count \in Nat
      /\ plan_start <= start /\ start < last /\ last <= plan_end + 1
  BY RequestAssumption DEF AddSpan, BookSpan, AddAccepted, SpanInputOk, IInv, TypeOK
<1>2. /\ TypeOK /\ PointsIndexedOnce /\ RefCountExact /\ PointsAreSpanEnds /\ SpansOrdered
      /\ plan_start \in sched_point_tree
  BY DEF IInv, PointsAreSpanEnds
<1>3. sched_point_tree' = tree /\ UNCHANGED <<plan_start, plan_end>>
  BY DEF AddSpan, BookSpan, plan
<1>4. tree \in SUBSET Nat
  BY <1>1, <1>2 DEF TypeOK
<1>5. \A p \in tree : p \notin sched_point_tree => StatePoint(p) \in sched_point_tree
  <2>1. plan_start \in Nat /\ plan_start <= last
    BY <1>1, <1>2 DEF TypeOK
  <2>2. ASSUME NEW p \in {start, last} PROVE IsState(StatePoint(p), p)
    BY <1>1, <1>2, <2>1, <2>2, StatePointExists
  <2>3. QED  BY <2>2 DEF IsState
<1>6. /\ CopiedState(scheduled, tree) \in [tree -> Int]
      /\ CopiedState(remaining, tree) \in [tree -> Int]
  BY <1>2, <1>5 DEF TypeOK, CopiedState
<1>7. scheduled' \in [tree -> Int] /\ remaining' \in [tree -> Int]
  <2> DEFINE overlap == {p \in tree : start <= p /\ p < last}
             sched   == CopiedState(scheduled, tree)
             rem     == CopiedState(remaining, tree)
  <2>1. /\ scheduled' = [p \in tree |-> IF p \in overlap THEN sched[p] + count ELSE sched[p]]
        /\ remaining' = [p \in tree |-> IF p \in overlap THEN rem[p] - count ELSE rem[p]]
    BY DEF AddSpan, BookSpan, Overlap
  <2>2. sched \in [tree -> Int] /\ rem \in [tree -> Int] /\ count \in Int
    BY <1>1, <1>6
  <2> HIDE DEF overlap, sched, rem, tree
  <2>3. QED  BY <2>1, <2>2
<1>8. /\ ref_count' = [p \in tree |->
             (IF p \in sched_point_tree THEN ref_count[p] ELSE 0)
             + (IF p \in {start, last} THEN 1 ELSE 0)]
      /\ ref_count' \in [tree -> Nat]
      /\ \A p \in tree : ref_count'[p] >= 1
  <2>1. ref_count' = [p \in tree |-> IF p \in {start, last} THEN Held(p) + 1 ELSE Held(p)]
    BY DEF AddSpan, BookSpan, Acquired
  <2>2. \A p \in tree : Held(p) \in Nat
    BY <1>2 DEF TypeOK, Held
  <2>3. \A p \in sched_point_tree : Held(p) >= 1
    BY <1>2, RefCountPositive DEF Held
  <2>4. QED  BY <2>1, <2>2, <2>3 DEF Held
<1>9. /\ new \notin DOMAIN span_lookup
      /\ DOMAIN span_lookup' = DOMAIN span_lookup \cup {new}
      /\ span_lookup'[new] = [start |-> start, last |-> last, planned |-> count]
      /\ \A id \in DOMAIN span_lookup : span_lookup'[id] = span_lookup[id]
      /\ span_counter' = new /\ new \in 0 .. MaxSpanId
      /\ span_counter \in Nat
      /\ DOMAIN span_lookup \subseteq 1 .. span_counter
  <2>1. span_counter \in Nat /\ DOMAIN span_lookup \subseteq 1 .. span_counter
    BY <1>2, MaxSpanIdAssumption DEF TypeOK
  <2>2. new \notin DOMAIN span_lookup
    BY <2>1
  <2>3. span_counter' = new /\ new \in 0 .. MaxSpanId
    BY <2>1, MaxSpanIdAssumption DEF AddSpan, BookSpan
  <2>4. span_lookup' = [id \in DOMAIN span_lookup \cup {new} |->
              IF id = new THEN [start |-> start, last |-> last, planned |-> count]
                          ELSE span_lookup[id]]
    BY DEF AddSpan, BookSpan
  <2>5. QED  BY <2>1, <2>2, <2>3, <2>4
<1>10. mt_resource_tree' = tree /\ avail_time_iter' = {} /\ avail_time_iter_set' = FALSE
  <2> DEFINE overlap == {p \in tree : start <= p /\ p < last}
             restored == Restored \cup (tree \ sched_point_tree)
  <2>1. mt_resource_tree' = Reinsert(restored, overlap, ref_count')
    BY DEF AddSpan, BookSpan, Overlap
  <2>2. restored = tree
    BY <1>2 DEF PointsIndexedOnce, Restored
  <2>3. \A p \in overlap : ref_count'[p] > 0
    BY <1>8
  <2>4. Reinsert(tree, overlap, ref_count') = tree
    BY <2>3 DEF Reinsert
  <2>5. QED  BY <2>1, <2>2, <2>4 DEF AddSpan, BookSpan, CloseIteration
<1>11. TypeOK'
  <2>1. span_lookup' \in [DOMAIN span_lookup' -> Span]
    <3>1. [start |-> start, last |-> last, planned |-> count] \in Span
      BY <1>1 DEF Span
    <3>2. \A id \in DOMAIN span_lookup' : span_lookup'[id] \in Span
      BY <1>2, <1>9, <3>1 DEF TypeOK
    <3>3. span_lookup' = [id \in DOMAIN span_lookup' |-> span_lookup'[id]]
      BY DEF AddSpan, BookSpan
    <3>4. QED  BY <3>2, <3>3
  <2>2. DOMAIN span_lookup' \subseteq 1 .. span_counter'
    BY <1>9
  <2>3. /\ answer' = NotAsked /\ answered' = {} /\ current_request' = current_request
    BY DEF AddSpan, BookSpan, CloseIteration
  <2>4. QED
    BY <1>2, <1>3, <1>4, <1>7, <1>8, <1>9, <1>10, <2>1, <2>2, <2>3 DEF TypeOK
<1>12. PointsIndexedOnce'
  BY <1>3, <1>10 DEF PointsIndexedOnce
<1>13. SpansOrdered'
  BY <1>1, <1>2, <1>3, <1>9 DEF SpansOrdered
<1>14. PointsAreSpanEnds'
  <2>1. {span_lookup'[id].start : id \in DOMAIN span_lookup'}
          = {span_lookup[id].start : id \in DOMAIN span_lookup} \cup {start}
    BY <1>9
  <2>2. {span_lookup'[id].last : id \in DOMAIN span_lookup'}
          = {span_lookup[id].last : id \in DOMAIN span_lookup} \cup {last}
    BY <1>9
  <2>3. QED  BY <1>2, <1>3, <2>1, <2>2 DEF PointsAreSpanEnds
<1>15. RefCountExact'
  <2> SUFFICES ASSUME NEW p \in tree
               PROVE  ref_count'[p] = Cardinality(StartsAt(p)') + Cardinality(EndsAt(p)')
                                        + IF p = plan_start THEN 1 ELSE 0
    BY <1>3 DEF RefCountExact
  <2> DEFINE s == Cardinality(StartsAt(p))
             e == Cardinality(EndsAt(p))
  <2>1. s \in Nat /\ e \in Nat /\ IsFiniteSet(StartsAt(p)) /\ IsFiniteSet(EndsAt(p))
    BY <1>2, HoldersFinite
  <2>2. new \notin StartsAt(p) /\ new \notin EndsAt(p)
    BY <1>9 DEF StartsAt, EndsAt
  <2>3. Cardinality(StartsAt(p)') = s + IF p = start THEN 1 ELSE 0
    <3>1. StartsAt(p)' = IF p = start THEN StartsAt(p) \cup {new} ELSE StartsAt(p)
      BY <1>9 DEF StartsAt
    <3>2. Cardinality(StartsAt(p) \cup {new}) = s + 1
      BY <2>1, <2>2, FS_AddElement
    <3>3. QED  BY <2>1, <3>1, <3>2
  <2>4. Cardinality(EndsAt(p)') = e + IF p = last THEN 1 ELSE 0
    <3>1. EndsAt(p)' = IF p = last THEN EndsAt(p) \cup {new} ELSE EndsAt(p)
      BY <1>9 DEF EndsAt
    <3>2. Cardinality(EndsAt(p) \cup {new}) = e + 1
      BY <2>1, <2>2, FS_AddElement
    <3>3. QED  BY <2>1, <3>1, <3>2
  <2>5. (IF p \in sched_point_tree THEN ref_count[p] ELSE 0)
          = s + e + IF p = plan_start THEN 1 ELSE 0
    <3>1. CASE p \in sched_point_tree
      BY <1>2, <3>1 DEF RefCountExact
    <3>2. CASE p \notin sched_point_tree
      <4>1. StartsAt(p) = {} /\ EndsAt(p) = {} /\ p # plan_start
        BY <1>2, <3>2 DEF PointsAreSpanEnds, StartsAt, EndsAt
      <4>2. QED  BY <3>2, <4>1, FS_EmptySet
    <3>3. QED  BY <3>1, <3>2
  <2>6. QED  BY <1>1, <1>8, <2>1, <2>3, <2>4, <2>5
<1>16. QED  BY <1>11, <1>12, <1>13, <1>14, <1>15 DEF IInv

-----------------------------------------------------------------------------
(* Removing a span. *)

LEMMA RemSpanIInv ==
    ASSUME IInv, NEW id \in DOMAIN span_lookup, RemSpan(id)
    PROVE  IInv'
<1> DEFINE span  == span_lookup[id]
           start == span.start
           last  == span.last
           ends  == {start, last}
           refs  == [p \in sched_point_tree |->
                        IF p \in ends THEN ref_count[p] - 1 ELSE ref_count[p]]
           dead  == {p \in ends : refs[p] = 0}
           tree  == sched_point_tree \ dead
<1>1. /\ TypeOK /\ PointsIndexedOnce /\ RefCountExact /\ PointsAreSpanEnds /\ SpansOrdered
      /\ plan_start \in sched_point_tree
  BY DEF IInv, PointsAreSpanEnds
<1>2. /\ start \in Nat /\ last \in Nat /\ span.planned \in Nat /\ start # last
      /\ start \in sched_point_tree /\ last \in sched_point_tree
  <2>1. span \in Span
    BY <1>1 DEF TypeOK
  <2>2. start < last
    BY <1>1 DEF SpansOrdered
  <2>3. QED  BY <1>1, <2>1, <2>2 DEF Span, PointsAreSpanEnds
<1>3. /\ sched_point_tree' = tree /\ UNCHANGED <<plan_start, plan_end>>
      /\ span_counter' = span_counter
  BY DEF RemSpan, UnbookSpan, Released, Dead, plan
<1>4. /\ DOMAIN span_lookup' = DOMAIN span_lookup \ {id}
      /\ \A i \in DOMAIN span_lookup' : span_lookup'[i] = span_lookup[i]
      /\ span_lookup' = [i \in DOMAIN span_lookup' |-> span_lookup'[i]]
  <2>1. span_lookup' = [i \in DOMAIN span_lookup \ {id} |-> span_lookup[i]]
    BY DEF RemSpan, UnbookSpan, Restrict
  <2>2. QED  BY <2>1
<1>5. \A p \in sched_point_tree :
          refs[p] = Cardinality(StartsAt(p)') + Cardinality(EndsAt(p)')
                      + IF p = plan_start THEN 1 ELSE 0
  <2> TAKE p \in sched_point_tree
  <2> DEFINE s == Cardinality(StartsAt(p))
             e == Cardinality(EndsAt(p))
  <2>1. s \in Nat /\ e \in Nat /\ IsFiniteSet(StartsAt(p)) /\ IsFiniteSet(EndsAt(p))
    BY <1>1, HoldersFinite
  <2>2. Cardinality(StartsAt(p)') = s - IF p = start THEN 1 ELSE 0
    <3>1. StartsAt(p)' = IF p = start THEN StartsAt(p) \ {id} ELSE StartsAt(p)
      BY <1>4 DEF StartsAt
    <3>2. p = start => id \in StartsAt(p)
      BY DEF StartsAt
    <3>3. p = start => Cardinality(StartsAt(p) \ {id}) = s - 1
      BY <2>1, <3>2, FS_RemoveElement
    <3>4. QED  BY <2>1, <3>1, <3>3
  <2>3. Cardinality(EndsAt(p)') = e - IF p = last THEN 1 ELSE 0
    <3>1. EndsAt(p)' = IF p = last THEN EndsAt(p) \ {id} ELSE EndsAt(p)
      BY <1>4 DEF EndsAt
    <3>2. p = last => id \in EndsAt(p)
      BY DEF EndsAt
    <3>3. p = last => Cardinality(EndsAt(p) \ {id}) = e - 1
      BY <2>1, <3>2, FS_RemoveElement
    <3>4. QED  BY <2>1, <3>1, <3>3
  <2>4. ref_count[p] = s + e + IF p = plan_start THEN 1 ELSE 0
    BY <1>1 DEF RefCountExact
  <2>5. refs[p] = ref_count[p] - (IF p = start THEN 1 ELSE 0) - (IF p = last THEN 1 ELSE 0)
    BY <1>2, <2>1, <2>4
  <2> HIDE DEF refs, s, e
  <2>6. QED  BY <2>1, <2>2, <2>3, <2>4, <2>5
<1>6. \A p : /\ IsFiniteSet(StartsAt(p)') /\ Cardinality(StartsAt(p)') \in Nat
             /\ IsFiniteSet(EndsAt(p)') /\ Cardinality(EndsAt(p)') \in Nat
  <2> TAKE p
  <2>1. StartsAt(p)' \in SUBSET StartsAt(p) /\ EndsAt(p)' \in SUBSET EndsAt(p)
    BY <1>4 DEF StartsAt, EndsAt
  <2>2. IsFiniteSet(StartsAt(p)') /\ IsFiniteSet(EndsAt(p)')
    BY <1>1, <2>1, HoldersFinite, FS_Subset
  <2>3. QED  BY <2>2, FS_CardinalityType
<1>7. \A p \in sched_point_tree :
          /\ refs[p] \in Nat
          /\ refs[p] = 0 <=> p # plan_start /\ StartsAt(p)' = {} /\ EndsAt(p)' = {}
  <2> TAKE p \in sched_point_tree
  <2>1. /\ Cardinality(StartsAt(p)') = 0 <=> StartsAt(p)' = {}
        /\ Cardinality(EndsAt(p)') = 0 <=> EndsAt(p)' = {}
    BY <1>6, FS_EmptySet
  <2> HIDE DEF refs
  <2>2. QED  BY <1>5, <1>6, <2>1
<1>8. ref_count' = [p \in tree |-> refs[p]]
  BY DEF RemSpan, UnbookSpan, Released, Dead, Restrict
<1>9. mt_resource_tree' = tree /\ avail_time_iter' = {} /\ avail_time_iter_set' = FALSE
  <2> DEFINE overlap  == {p \in sched_point_tree : start <= p /\ p < last}
  <2>1. mt_resource_tree' = Reinsert(Restored, overlap, refs) \ dead
    BY DEF RemSpan, UnbookSpan, Released, Dead, Overlap
  <2>2. Restored = sched_point_tree
    BY <1>1 DEF PointsIndexedOnce, Restored
  <2>3. \A p \in sched_point_tree : p \notin ends => refs[p] > 0
    BY <1>1, RefCountPositive DEF TypeOK
  <2>4. \A p \in sched_point_tree : p \notin dead => refs[p] > 0
    <3> HIDE DEF refs
    <3>1. QED  BY <1>7, <2>3
  <2>5. Reinsert(sched_point_tree, overlap, refs) \ dead = tree
    <3> HIDE DEF refs
    <3>1. QED  BY <2>4 DEF Reinsert
  <2>6. QED  BY <2>1, <2>2, <2>5 DEF RemSpan, UnbookSpan, CloseIteration
<1>10. TypeOK'
  <2>1. scheduled' \in [tree -> Int] /\ remaining' \in [tree -> Int]
    <3>1. \A p \in tree : /\ scheduled[p] \in Int /\ remaining[p] \in Int
                          /\ scheduled[p] - span.planned \in Int
                          /\ remaining[p] + span.planned \in Int
      BY <1>1, <1>2 DEF TypeOK
    <3>2. /\ scheduled' = [p \in tree |->
                  IF p \in {q \in sched_point_tree : start <= q /\ q < last}
                  THEN scheduled[p] - span.planned ELSE scheduled[p]]
          /\ remaining' = [p \in tree |->
                  IF p \in {q \in sched_point_tree : start <= q /\ q < last}
                  THEN remaining[p] + span.planned ELSE remaining[p]]
      BY DEF RemSpan, UnbookSpan, Released, Dead, Overlap
    <3> HIDE DEF tree, span, start, last
    <3>3. QED  BY <3>1, <3>2
  <2>2. ref_count' \in [tree -> Nat]
    <3> HIDE DEF refs
    <3>1. QED  BY <1>7, <1>8
  <2>3. /\ span_lookup' \in [DOMAIN span_lookup' -> Span]
        /\ DOMAIN span_lookup' \subseteq 1 .. span_counter'
    BY <1>1, <1>3, <1>4 DEF TypeOK
  <2>4. tree \in SUBSET Nat
    BY <1>1 DEF TypeOK
  <2>5. answer' = NotAsked /\ answered' = {} /\ current_request' = current_request
    BY DEF RemSpan, UnbookSpan, CloseIteration
  <2> HIDE DEF tree
  <2>6. QED
    BY <1>1, <1>3, <1>9, <2>1, <2>2, <2>3, <2>4, <2>5 DEF TypeOK
<1>11. PointsIndexedOnce'
  BY <1>3, <1>9 DEF PointsIndexedOnce
<1>12. SpansOrdered'
  BY <1>1, <1>3, <1>4 DEF SpansOrdered
<1>13. RefCountExact'
  <2> HIDE DEF refs
  <2>1. QED  BY <1>3, <1>5, <1>8 DEF RefCountExact
<1>14. PointsAreSpanEnds'
  <2>1. \A p \in sched_point_tree :
            p \in tree <=> p = plan_start \/ StartsAt(p)' # {} \/ EndsAt(p)' # {}
    <3>1. \A p \in sched_point_tree : refs[p] = 0 => p \in ends
      <4>1. \A p \in sched_point_tree : p \notin ends => refs[p] >= 1
        BY <1>1, RefCountPositive
      <4>2. QED  BY <4>1
    <3> HIDE DEF refs
    <3>2. QED  BY <1>7, <3>1
  <2>2. \A p : /\ StartsAt(p)' # {} => p \in sched_point_tree
               /\ EndsAt(p)' # {} => p \in sched_point_tree
    BY <1>1, <1>4 DEF PointsAreSpanEnds, StartsAt, EndsAt
  <2>3. \A p : /\ StartsAt(p)' # {} <=> p \in {span_lookup'[i].start : i \in DOMAIN span_lookup'}
               /\ EndsAt(p)' # {} <=> p \in {span_lookup'[i].last : i \in DOMAIN span_lookup'}
    BY DEF StartsAt, EndsAt
  <2> HIDE DEF tree
  <2>4. tree \subseteq sched_point_tree
    BY DEF tree
  <2>5. tree = {plan_start} \cup {span_lookup'[i].start : i \in DOMAIN span_lookup'}
                            \cup {span_lookup'[i].last : i \in DOMAIN span_lookup'}
    BY <1>1, <2>1, <2>2, <2>3, <2>4
  <2>6. QED  BY <1>3, <2>5 DEF PointsAreSpanEnds
<1>15. QED  BY <1>10, <1>11, <1>12, <1>13, <1>14 DEF IInv

-----------------------------------------------------------------------------
(* Iterating over available times. *)

\* Whatever the search returns, avail_at only moves points from the tree to the
\* tracker, and returns a time of the calendar or -1.
LEMMA AvailAtMoves ==
    ASSUME IInv, NEW mt, NEW tracked, NEW request \in Request,
           mt \cup tracked = sched_point_tree, mt \cap tracked = {},
           AvailAt(mt, tracked, request)
    PROVE  /\ mt_resource_tree' \cup avail_time_iter' = sched_point_tree
           /\ mt_resource_tree' \cap avail_time_iter' = {}
           /\ answer' \in Nat \cup {None}
<1>1. LookedAt(mt, request) \subseteq mt
  BY DEF LookedAt
<1>2. PICK looked \in SUBSET mt :
          /\ mt_resource_tree' = mt \ looked
          /\ avail_time_iter' = tracked \cup looked
          /\ answer' \in Answers(looked, request)
  BY <1>1 DEF AvailAt
<1>3. looked \in SUBSET Nat
  BY DEF IInv, TypeOK
<1>4. Answers(looked, request) \subseteq looked \cup {None}
  BY DEF Answers
<1>5. QED  BY <1>2, <1>3, <1>4

\* What does not depend on the iteration.
LEMMA BooksUnchanged ==
    ASSUME IInv, UNCHANGED <<plan, points, spans>>
    PROVE  /\ RefCountExact' /\ PointsAreSpanEnds' /\ SpansOrdered'
           /\ (mt_resource_tree' \cup avail_time_iter' = sched_point_tree
                /\ avail_time_iter_set' \in BOOLEAN /\ current_request' \in Request
                /\ answer' \in Nat \cup {None, NotAsked} /\ answered' \in SUBSET Nat) => TypeOK'
<1> USE DEF plan, points, spans
<1>1. RefCountExact'
  BY DEF IInv, RefCountExact, StartsAt, EndsAt
<1>2. PointsAreSpanEnds' /\ SpansOrdered'
  BY DEF IInv, PointsAreSpanEnds, SpansOrdered
<1>3. QED  BY <1>1, <1>2 DEF IInv, TypeOK

LEMMA AvailTimeFirstIInv ==
    ASSUME IInv, NEW request \in Requests, AvailTimeFirst(request)
    PROVE  IInv'
<1>1. request \in Request
  BY RequestAssumption DEF Request
<1>2. Restored \cup {} = sched_point_tree /\ Restored \cap {} = {}
  BY DEF IInv, PointsIndexedOnce, Restored
<1>3. /\ AvailAt(Restored, {}, request)
      /\ avail_time_iter_set' = TRUE /\ current_request' = request
      /\ answered' = {answer'} \ {None}
      /\ UNCHANGED <<plan, points, spans>>
  BY DEF AvailTimeFirst, OpenIteration
<1>4. /\ mt_resource_tree' \cup avail_time_iter' = sched_point_tree
      /\ mt_resource_tree' \cap avail_time_iter' = {}
      /\ answer' \in Nat \cup {None}
  BY <1>1, <1>2, <1>3, AvailAtMoves
<1>5. PointsIndexedOnce'
  BY <1>3, <1>4 DEF PointsIndexedOnce, points
<1>6. QED  BY <1>1, <1>3, <1>4, <1>5, BooksUnchanged DEF IInv

LEMMA AvailTimeNextIInv ==
    ASSUME IInv, AvailTimeNext
    PROVE  IInv'
<1>1. current_request \in Request
  BY DEF IInv, TypeOK
<1>2. /\ mt_resource_tree \cup avail_time_iter = sched_point_tree
      /\ mt_resource_tree \cap avail_time_iter = {}
      /\ answered \in SUBSET Nat /\ avail_time_iter_set \in BOOLEAN
  BY DEF IInv, PointsIndexedOnce, TypeOK
<1>3. /\ AvailAt(mt_resource_tree, avail_time_iter, current_request)
      /\ avail_time_iter_set /\ avail_time_iter_set' = avail_time_iter_set
      /\ current_request' = current_request
      /\ answered' = answered \cup ({answer'} \ {None})
      /\ UNCHANGED <<plan, points, spans>>
  BY DEF AvailTimeNext, ContinueIteration
<1>4. /\ mt_resource_tree' \cup avail_time_iter' = sched_point_tree
      /\ mt_resource_tree' \cap avail_time_iter' = {}
      /\ answer' \in Nat \cup {None}
  BY <1>1, <1>2, <1>3, AvailAtMoves
<1>5. PointsIndexedOnce'
  BY <1>3, <1>4 DEF PointsIndexedOnce, points
<1>6. QED  BY <1>1, <1>2, <1>3, <1>4, <1>5, BooksUnchanged DEF IInv

LEMMA IdleIInv ==
    ASSUME IInv, AvailTimeNextFails \/ UNCHANGED vars
    PROVE  IInv'
<1>1. /\ UNCHANGED <<plan, points, spans, mt_resource_tree, avail_time_iter>>
      /\ UNCHANGED <<avail_time_iter_set, current_request, answered>>
      /\ answer' \in {answer, None}
  BY DEF AvailTimeNextFails, NoIteration, vars, iter
<1>2. PointsIndexedOnce'
  BY <1>1 DEF IInv, PointsIndexedOnce, points
<1>3. TypeOK'
  BY <1>1, <1>2, BooksUnchanged DEF IInv, TypeOK, PointsIndexedOnce
<1>4. QED  BY <1>1, <1>2, <1>3, BooksUnchanged DEF IInv

-----------------------------------------------------------------------------
(* The theorems. *)

LEMMA NextIInv == IInv /\ [Next]_vars => IInv'
<1> SUFFICES ASSUME IInv, [Next]_vars PROVE IInv'
  OBVIOUS
<1>1. ASSUME NEW base \in BaseTimes, NEW length \in PlanLengths, Reset(base, length)
      PROVE  IInv'
  BY <1>1, ResetIInv
<1>2. ASSUME NEW start \in Times, NEW duration \in Durations, NEW count \in Counts,
             AddSpan(start, duration, count)
      PROVE  IInv'
  BY <1>2, AddSpanIInv
<1>3. ASSUME NEW id \in DOMAIN span_lookup, RemSpan(id)
      PROVE  IInv'
  BY <1>3, RemSpanIInv
<1>4. ASSUME NEW request \in Requests, AvailTimeFirst(request)
      PROVE  IInv'
  BY <1>4, AvailTimeFirstIInv
<1>5. CASE AvailTimeNext
  BY <1>5, AvailTimeNextIInv
<1>6. CASE AvailTimeNextFails \/ UNCHANGED vars
  BY <1>6, IdleIInv
<1>7. QED
  BY <1>1, <1>2, <1>3, <1>4, <1>5, <1>6 DEF Next

\* The inductive invariant holds in every reachable state.
THEOREM Invariance == Spec => []IInv
BY InitIInv, NextIInv, PTL DEF Spec

\* The variables of the planner keep their types.
THEOREM TypeCorrect == Spec => []TypeOK
<1>1. IInv => TypeOK
  BY DEF IInv
<1>2. QED  BY <1>1, Invariance, PTL

\* No point is lost to a search or found by two indexes, whatever the order of
\* updates and iterations.
THEOREM NoPointLost == Spec => []PointsIndexedOnce
<1>1. IInv => PointsIndexedOnce
  BY DEF IInv
<1>2. QED  BY <1>1, Invariance, PTL

\* Reference counts are exact: a point is freed when its last span goes.
THEOREM CountsAreExact == Spec => []RefCountExact
<1>1. IInv => RefCountExact
  BY DEF IInv
<1>2. QED  BY <1>1, Invariance, PTL

\* No span points to a freed point, and no point outlives its spans.
THEOREM NoDanglingPoint == Spec => []PointsAreSpanEnds
<1>1. IInv => PointsAreSpanEnds
  BY DEF IInv
<1>2. QED  BY <1>1, Invariance, PTL

-----------------------------------------------------------------------------
(* Nothing is overbooked by callers that stay inside the plan. *)

LEMMA AddSpanBalanced ==
    ASSUME IInv, PointsBalanced,
           NEW start \in Times, NEW duration \in Durations, NEW count \in Counts,
           AddSpan(start, duration, count)
    PROVE  PointsBalanced'
<1> DEFINE last    == start + duration
           tree    == sched_point_tree \cup {start, last}
           overlap == {p \in tree : start <= p /\ p < last}
           from(p) == IF p \in sched_point_tree THEN p ELSE StatePoint(p)
<1>1. /\ start \in Nat /\ duration \in Nat /\ last \in Nat /\ count \in Nat
      /\ plan_start <= start /\ start < last
      /\ TypeOK /\ plan_start \in sched_point_tree
  BY RequestAssumption
  DEF AddSpan, BookSpan, AddAccepted, SpanInputOk, IInv, TypeOK, PointsAreSpanEnds
<1>2. \A p \in tree : /\ from(p) \in sched_point_tree
                      /\ p \notin sched_point_tree => IsState(from(p), p)
  <2>1. plan_start \in Nat /\ plan_start <= last
    BY <1>1 DEF TypeOK
  <2>2. ASSUME NEW p \in {start, last} PROVE IsState(StatePoint(p), p)
    BY <1>1, <2>1, <2>2, StatePointExists
  <2>3. QED  BY <2>2 DEF IsState
<1>3. \A p \in tree : /\ scheduled[from(p)] \in Int /\ remaining[from(p)] \in Int
                      /\ scheduled[from(p)] + remaining[from(p)] = Total
                      /\ ~MayOverrun => remaining[from(p)] >= 0
  <2> HIDE DEF from, tree
  <2>1. QED  BY <1>1, <1>2 DEF PointsBalanced, TypeOK
<1>4. /\ sched_point_tree' = tree
      /\ \A p \in tree :
             /\ scheduled'[p] = IF p \in overlap THEN scheduled[from(p)] + count
                                                 ELSE scheduled[from(p)]
             /\ remaining'[p] = IF p \in overlap THEN remaining[from(p)] - count
                                                 ELSE remaining[from(p)]
  <2>1. \A p \in tree : /\ CopiedState(scheduled, tree)[p] = scheduled[from(p)]
                        /\ CopiedState(remaining, tree)[p] = remaining[from(p)]
    BY DEF CopiedState
  <2>2. /\ scheduled' = [p \in tree |-> IF p \in overlap
                                          THEN CopiedState(scheduled, tree)[p] + count
                                          ELSE CopiedState(scheduled, tree)[p]]
        /\ remaining' = [p \in tree |-> IF p \in overlap
                                          THEN CopiedState(remaining, tree)[p] - count
                                          ELSE CopiedState(remaining, tree)[p]]
        /\ sched_point_tree' = tree
    BY DEF AddSpan, BookSpan, Overlap
  <2> HIDE DEF from, tree, overlap
  <2>3. QED  BY <2>1, <2>2
<1>5. ASSUME ~MayOverrun, NEW p \in overlap
      PROVE  count <= remaining[from(p)]
  <2>1. Fits(start, duration, count)
    <3>1. last <= plan_end /\ plan_end \in Nat
      BY <1>1, <1>5 DEF AddSpan, BookSpan, TypeOK
    <3>2. AvailDuring(start, duration, count)
      BY DEF AddSpan, BookSpan, AddAccepted
    <3>3. QED  BY <1>1, <3>1, <3>2 DEF AvailDuring
  <2>2. from(p) \in Window(start, duration)
    <3>1. CASE p \in sched_point_tree
      BY <1>5, <3>1 DEF Window
    <3>2. CASE p \notin sched_point_tree
      <4>1. p = start
        BY <1>1, <1>5, <3>2
      <4>2. IsState(from(p), start)
        BY <1>2, <3>2, <4>1
      <4>3. from(p) \in sched_point_tree /\ from(p) < start + duration
        BY <1>1, <4>2 DEF IsState, TypeOK
      <4>4. QED  BY <4>2, <4>3 DEF Window
    <3>3. QED  BY <3>1, <3>2
  <2>3. QED  BY <2>1, <2>2 DEF Fits
<1>6. ASSUME NEW p \in tree
      PROVE  /\ scheduled'[p] + remaining'[p] = Total
             /\ ~MayOverrun => remaining'[p] >= 0
  <2> HIDE DEF from, tree, overlap
  <2>1. QED  BY <1>1, <1>3, <1>4, <1>5, <1>6
<1>7. QED  BY <1>4, <1>6 DEF PointsBalanced

LEMMA NextBalanced == IInv /\ PointsBalanced /\ [Next]_vars => PointsBalanced'
<1> SUFFICES ASSUME IInv, PointsBalanced, [Next]_vars PROVE PointsBalanced'
  OBVIOUS
<1>1. ASSUME NEW base \in BaseTimes, NEW length \in PlanLengths, Reset(base, length)
      PROVE  PointsBalanced'
  BY <1>1, TotalAssumption DEF Reset, ResetBooks, PointsBalanced
<1>2. ASSUME NEW start \in Times, NEW duration \in Durations, NEW count \in Counts,
             AddSpan(start, duration, count)
      PROVE  PointsBalanced'
  BY <1>2, AddSpanBalanced
<1>3. ASSUME NEW id \in DOMAIN span_lookup, RemSpan(id)
      PROVE  PointsBalanced'
  <2> DEFINE planned == span_lookup[id].planned
  <2>1. planned \in Nat
    BY DEF IInv, TypeOK, Span
  <2>2. sched_point_tree' \subseteq sched_point_tree
    BY <1>3 DEF RemSpan, UnbookSpan
  <2>3. \A p \in sched_point_tree' :
            \/ scheduled'[p] = scheduled[p] /\ remaining'[p] = remaining[p]
            \/ scheduled'[p] = scheduled[p] - planned /\ remaining'[p] = remaining[p] + planned
    BY <1>3 DEF RemSpan, UnbookSpan
  <2>4. \A p \in sched_point_tree : scheduled[p] \in Int /\ remaining[p] \in Int
    BY DEF IInv, TypeOK
  <2> HIDE DEF planned
  <2>5. QED  BY <2>1, <2>2, <2>3, <2>4, TotalAssumption DEF PointsBalanced
<1>4. CASE UNCHANGED points
  BY <1>4 DEF PointsBalanced, points
<1>5. CASE \/ AvailTimeNext \/ AvailTimeNextFails \/ UNCHANGED vars
           \/ \E request \in Requests : AvailTimeFirst(request)
  BY <1>4, <1>5 DEF AvailTimeNext, AvailTimeNextFails, AvailTimeFirst,
                    NoIteration, OpenIteration, ContinueIteration, vars
<1>6. QED
  BY <1>1, <1>2, <1>3, <1>5 DEF Next

\* What is booked and what is free make up the total at every point, and when
\* callers keep their spans inside the plan no point is ever overbooked.
THEOREM NeverOverbooked == Spec => []PointsBalanced
<1>1. Init => PointsBalanced
  BY TotalAssumption DEF Init, InitBooks, PointsBalanced
<1>2. QED  BY <1>1, NextBalanced, Invariance, PTL DEF Spec

-----------------------------------------------------------------------------
(*****************************************************************************)
(* That the planner keeps its promise: the points say, for every instant of  *)
(* the plan, what the spans add up to, and the planner implements module     *)
(* Calendar. PointsExact adds to IInv that every point has been charged with *)
(* exactly the spans that are in force at it.                                *)
(*****************************************************************************)

\* The spans in force at instant t, and their amounts.
InForce(t) == {id \in DOMAIN span_lookup : span_lookup[id].start <= t /\ t < span_lookup[id].last}
Amounts    == [id \in DOMAIN span_lookup |-> span_lookup[id].planned]

PointsExact == \A p \in sched_point_tree : scheduled[p] = Usage(p)

-----------------------------------------------------------------------------
(* The spans in force. *)

LEMMA UsageIsSum == \A t : Usage(t) = Sum(Amounts, InForce(t))
BY DEF Usage, Sum, Amounts, InForce

LEMMA InForceFinite ==
    ASSUME TypeOK
    PROVE  /\ IsFiniteSet(DOMAIN span_lookup)
           /\ \A t : IsFiniteSet(InForce(t))
           /\ \A id \in DOMAIN span_lookup : Amounts[id] \in Nat
<1>1. span_counter \in Int
  BY MaxSpanIdAssumption DEF TypeOK
<1>2. IsFiniteSet(DOMAIN span_lookup)
  <2>1. DOMAIN span_lookup \in SUBSET (1 .. span_counter)
    BY DEF TypeOK
  <2>2. IsFiniteSet(1 .. span_counter)
    BY <1>1, FS_Interval
  <2>3. QED  BY <2>1, <2>2, FS_Subset
<1>3. \A t : IsFiniteSet(InForce(t))
  BY <1>2, FS_Subset DEF InForce
<1>4. \A id \in DOMAIN span_lookup : Amounts[id] \in Nat
  BY DEF TypeOK, Span, Amounts
<1>5. QED  BY <1>2, <1>3, <1>4

LEMMA UsageType == ASSUME TypeOK PROVE \A t : Usage(t) \in Nat
<1> SUFFICES ASSUME NEW t PROVE Usage(t) \in Nat
  OBVIOUS
<1>1. IsFiniteSet(InForce(t)) /\ \A id \in InForce(t) : Amounts[id] \in Nat
  BY InForceFinite DEF InForce
<1>2. Sum(Amounts, InForce(t)) \in Nat
  BY <1>1, SumGrows
<1>3. QED  BY <1>2, UsageIsSum

\* Between two points nothing begins and nothing ends, so what is in force at
\* an instant is what is in force at the latest point before it.
LEMMA SameAtStatePoint ==
    ASSUME TypeOK, PointsAreSpanEnds, SpansOrdered,
           NEW t \in Nat, NEW p \in Nat, IsState(p, t)
    PROVE  InForce(t) = InForce(p) /\ Usage(t) = Usage(p)
<1>1. p \in sched_point_tree /\ p <= t /\ \A q \in sched_point_tree : q <= t => q <= p
  BY DEF IsState
<1>2. ASSUME NEW id \in DOMAIN span_lookup
      PROVE  id \in InForce(t) <=> id \in InForce(p)
  <2> DEFINE s == span_lookup[id].start
             l == span_lookup[id].last
  <2>1. s \in sched_point_tree /\ l \in sched_point_tree /\ s \in Nat /\ l \in Nat
    BY DEF PointsAreSpanEnds, TypeOK, Span
  <2> HIDE DEF s, l
  <2>2. s <= t /\ t < l <=> s <= p /\ p < l
    BY <1>1, <2>1
  <2>3. QED  BY <2>2 DEF InForce, s, l
<1>3. InForce(t) = InForce(p)
  BY <1>2 DEF InForce
<1>4. QED  BY <1>3, UsageIsSum

-----------------------------------------------------------------------------
(* Every point is charged with the spans in force at it. *)

\* What a point shows after planner_add_span: what the point it copies, or is,
\* showed before, and the new span if that is in force.
LEMMA AddSpanPoints ==
    ASSUME IInv, NEW start \in Times, NEW duration \in Durations, NEW count \in Counts,
           AddSpan(start, duration, count)
    PROVE  /\ sched_point_tree' = sched_point_tree \cup {start, start + duration}
           /\ \A p \in sched_point_tree' : \E q \in sched_point_tree :
                  /\ IsState(q, p)
                  /\ scheduled'[p] = scheduled[q] + IF start <= p /\ p < start + duration
                                                    THEN count ELSE 0
                  /\ remaining'[p] = remaining[q] - IF start <= p /\ p < start + duration
                                                    THEN count ELSE 0
<1> DEFINE last    == start + duration
           tree    == sched_point_tree \cup {start, last}
           overlap == {p \in tree : start <= p /\ p < last}
           from(p) == IF p \in sched_point_tree THEN p ELSE StatePoint(p)
<1>1. /\ start \in Nat /\ duration \in Nat /\ last \in Nat /\ count \in Nat
      /\ plan_start <= start /\ start < last
      /\ TypeOK /\ plan_start \in sched_point_tree
  BY RequestAssumption
  DEF AddSpan, BookSpan, AddAccepted, SpanInputOk, IInv, TypeOK, PointsAreSpanEnds
<1>2. \A p \in tree : from(p) \in sched_point_tree /\ IsState(from(p), p)
  <2>1. plan_start \in Nat /\ plan_start <= last
    BY <1>1 DEF TypeOK
  <2>2. ASSUME NEW p \in {start, last} PROVE IsState(StatePoint(p), p)
    BY <1>1, <2>1, <2>2, StatePointExists
  <2>3. ASSUME NEW p \in sched_point_tree PROVE IsState(p, p)
    BY <1>1 DEF IsState, TypeOK
  <2>4. QED  BY <2>2, <2>3 DEF IsState
<1>3. /\ sched_point_tree' = tree
      /\ \A p \in tree :
             /\ scheduled'[p] = IF p \in overlap THEN scheduled[from(p)] + count
                                                 ELSE scheduled[from(p)]
             /\ remaining'[p] = IF p \in overlap THEN remaining[from(p)] - count
                                                 ELSE remaining[from(p)]
  <2>1. \A p \in tree : /\ CopiedState(scheduled, tree)[p] = scheduled[from(p)]
                        /\ CopiedState(remaining, tree)[p] = remaining[from(p)]
    BY DEF CopiedState
  <2>2. /\ scheduled' = [p \in tree |-> IF p \in overlap
                                          THEN CopiedState(scheduled, tree)[p] + count
                                          ELSE CopiedState(scheduled, tree)[p]]
        /\ remaining' = [p \in tree |-> IF p \in overlap
                                          THEN CopiedState(remaining, tree)[p] - count
                                          ELSE CopiedState(remaining, tree)[p]]
        /\ sched_point_tree' = tree
    BY DEF AddSpan, BookSpan, Overlap
  <2> HIDE DEF from, tree, overlap
  <2>3. QED  BY <2>1, <2>2
<1>4. \A q \in sched_point_tree : scheduled[q] \in Int /\ remaining[q] \in Int
  BY <1>1 DEF TypeOK
<1>5. ASSUME NEW p \in tree
      PROVE  \E q \in sched_point_tree :
                  /\ IsState(q, p)
                  /\ scheduled'[p] = scheduled[q] + IF start <= p /\ p < last THEN count ELSE 0
                  /\ remaining'[p] = remaining[q] - IF start <= p /\ p < last THEN count ELSE 0
  <2> DEFINE q == from(p)
  <2>1. /\ q \in sched_point_tree /\ IsState(q, p)
        /\ scheduled[q] \in Int /\ remaining[q] \in Int
    BY <1>2, <1>4
  <2>2. p \in overlap <=> start <= p /\ p < last
    OBVIOUS
  <2>3. /\ scheduled'[p] = IF p \in overlap THEN scheduled[q] + count ELSE scheduled[q]
        /\ remaining'[p] = IF p \in overlap THEN remaining[q] - count ELSE remaining[q]
    BY <1>3
  <2> HIDE DEF q, overlap, last
  <2>4. QED  BY <1>1, <2>1, <2>2, <2>3
<1>6. QED  BY <1>3, <1>5

\* The spans after planner_add_span.
LEMMA AddSpanSpans ==
    ASSUME IInv, NEW start \in Times, NEW duration \in Durations, NEW count \in Counts,
           AddSpan(start, duration, count)
    PROVE  LET new == span_counter + 1
           IN  /\ new \notin DOMAIN span_lookup /\ span_counter' = new
               /\ span_lookup' = [id \in DOMAIN span_lookup \cup {new} |->
                      IF id = new THEN [start |-> start, last |-> start + duration,
                                        planned |-> count]
                                  ELSE span_lookup[id]]
<1>1. span_counter \in Nat /\ DOMAIN span_lookup \subseteq 1 .. span_counter
  BY MaxSpanIdAssumption DEF IInv, TypeOK
<1>2. span_counter + 1 \notin DOMAIN span_lookup
  BY <1>1
<1>3. QED  BY <1>2 DEF AddSpan, BookSpan

LEMMA AddSpanUsage ==
    ASSUME IInv, NEW start \in Times, NEW duration \in Durations, NEW count \in Counts,
           AddSpan(start, duration, count), NEW t \in Nat
    PROVE  Usage(t)' = Usage(t) + IF start <= t /\ t < start + duration THEN count ELSE 0
<1> DEFINE new == span_counter + 1
<1>1. /\ TypeOK /\ count \in Nat /\ new \notin DOMAIN span_lookup
      /\ DOMAIN span_lookup' = DOMAIN span_lookup \cup {new}
      /\ span_lookup'[new] = [start |-> start, last |-> start + duration, planned |-> count]
      /\ \A id \in DOMAIN span_lookup : span_lookup'[id] = span_lookup[id]
  BY AddSpanSpans, RequestAssumption DEF IInv
<1> HIDE DEF new
<1>2. /\ \A id \in DOMAIN span_lookup : Amounts'[id] = Amounts[id]
      /\ Amounts'[new] = count
  BY <1>1 DEF Amounts
<1>3. /\ IsFiniteSet(InForce(t)) /\ new \notin InForce(t) /\ InForce(t) \subseteq DOMAIN span_lookup
      /\ \A id \in InForce(t) : Amounts'[id] = Amounts[id] /\ Amounts'[id] \in Int
  <2>1. IsFiniteSet(InForce(t)) /\ InForce(t) \subseteq DOMAIN span_lookup
    BY <1>1, InForceFinite DEF InForce
  <2>2. \A id \in DOMAIN span_lookup : Amounts[id] \in Int
    BY <1>1, InForceFinite
  <2>3. \A id \in InForce(t) : Amounts'[id] = Amounts[id] /\ Amounts'[id] \in Int
    BY <1>2, <2>1, <2>2
  <2>4. QED  BY <1>1, <2>1, <2>3
<1>4. Sum(Amounts', InForce(t)) = Sum(Amounts, InForce(t))
  BY <1>3, SumSame
<1>5. InForce(t)' = IF start <= t /\ t < start + duration THEN InForce(t) \cup {new}
                                                          ELSE InForce(t)
  BY <1>1 DEF InForce
<1>6. Sum(Amounts', InForce(t) \cup {new}) = Sum(Amounts', InForce(t)) + count
  <2>1. \A id \in InForce(t) \cup {new} : Amounts'[id] \in Int
    BY <1>1, <1>2, <1>3
  <2>2. QED  BY <1>2, <1>3, <2>1, SumAdd
<1>7. Usage(t)' = Sum(Amounts', InForce(t)') /\ Usage(t) = Sum(Amounts, InForce(t))
  <2>1. Usage(t)' = Sum(Amounts, InForce(t))'
    BY DEF Usage, Sum, Amounts, InForce
  <2>2. QED  BY <2>1, UsageIsSum
<1>8. Usage(t) \in Nat
  BY <1>1, UsageType
<1>9. QED  BY <1>4, <1>5, <1>6, <1>7, <1>8

\* What a point shows after planner_rem_span.
LEMMA RemSpanPoints ==
    ASSUME NEW id \in DOMAIN span_lookup, RemSpan(id)
    PROVE  LET span == span_lookup[id]
           IN  /\ sched_point_tree' \subseteq sched_point_tree
               /\ \A p \in sched_point_tree' :
                     scheduled'[p] = IF span.start <= p /\ p < span.last
                                     THEN scheduled[p] - span.planned ELSE scheduled[p]
               /\ span_lookup' = Restrict(span_lookup, DOMAIN span_lookup \ {id})
<1> DEFINE span == span_lookup[id]
<1>1. sched_point_tree' \subseteq sched_point_tree
  BY DEF RemSpan, UnbookSpan
<1>2. scheduled' = [p \in sched_point_tree' |->
          IF p \in {q \in sched_point_tree : span.start <= q /\ q < span.last}
          THEN scheduled[p] - span.planned ELSE scheduled[p]]
  BY DEF RemSpan, UnbookSpan, Overlap
<1>3. span_lookup' = Restrict(span_lookup, DOMAIN span_lookup \ {id})
  BY DEF RemSpan, UnbookSpan
<1> HIDE DEF span
<1>4. QED  BY <1>1, <1>2, <1>3 DEF span

LEMMA RemSpanUsage ==
    ASSUME IInv, NEW id \in DOMAIN span_lookup, RemSpan(id), NEW t \in Nat
    PROVE  LET span == span_lookup[id]
           IN  Usage(t)' = Usage(t) - IF span.start <= t /\ t < span.last THEN span.planned ELSE 0
<1> DEFINE span == span_lookup[id]
<1>1. /\ TypeOK /\ DOMAIN span_lookup' = DOMAIN span_lookup \ {id}
      /\ \A i \in DOMAIN span_lookup' : span_lookup'[i] = span_lookup[i]
  BY RemSpanPoints DEF Restrict, IInv
<1>2. \A i \in DOMAIN span_lookup' : Amounts'[i] = Amounts[i]
  BY <1>1 DEF Amounts
<1>3. InForce(t)' = InForce(t) \ {id}
  BY <1>1 DEF InForce
<1>4. /\ IsFiniteSet(InForce(t)) /\ IsFiniteSet(InForce(t)')
      /\ \A i \in InForce(t) : Amounts[i] \in Int
      /\ \A i \in InForce(t)' : Amounts'[i] = Amounts[i]
  <2>1. IsFiniteSet(InForce(t)) /\ InForce(t) \subseteq DOMAIN span_lookup
    BY <1>1, InForceFinite DEF InForce
  <2>2. \A i \in DOMAIN span_lookup : Amounts[i] \in Int
    BY <1>1, InForceFinite
  <2>3. InForce(t)' \subseteq DOMAIN span_lookup'
    BY DEF InForce
  <2>4. IsFiniteSet(InForce(t)')
    BY <1>3, <2>1, FS_Subset
  <2>5. QED  BY <1>2, <2>1, <2>2, <2>3, <2>4
<1>5. Sum(Amounts', InForce(t)') = Sum(Amounts, InForce(t)')
  BY <1>4, SumSame
<1>6. Usage(t)' = Sum(Amounts', InForce(t)') /\ Usage(t) = Sum(Amounts, InForce(t))
  <2>1. Usage(t)' = Sum(Amounts, InForce(t))'
    BY DEF Usage, Sum, Amounts, InForce
  <2>2. QED  BY <2>1, UsageIsSum
<1>7. Amounts[id] = span.planned /\ span.planned \in Nat
  BY <1>1 DEF Amounts, TypeOK, Span
<1>8. CASE id \in InForce(t)
  <2>1. Sum(Amounts, InForce(t)) = Amounts[id] + Sum(Amounts, InForce(t) \ {id})
    BY <1>4, <1>8, SumRemove
  <2>2. Sum(Amounts, InForce(t) \ {id}) \in Int
    <3>1. \A i \in InForce(t)' : Amounts[i] \in Int
      BY <1>3, <1>4
    <3>2. Sum(Amounts, InForce(t)') \in Int
      BY <1>4, <3>1, SumType
    <3>3. QED  BY <1>3, <3>2
  <2>3. span.start <= t /\ t < span.last
    BY <1>8 DEF InForce
  <2>4. Usage(t)' = Sum(Amounts, InForce(t) \ {id})
    BY <1>3, <1>5, <1>6
  <2> HIDE DEF span
  <2>5. QED  BY <1>6, <1>7, <2>1, <2>2, <2>3, <2>4 DEF span
<1>9. CASE id \notin InForce(t)
  <2>1. InForce(t)' = InForce(t)
    BY <1>3, <1>9
  <2>2. ~ (span.start <= t /\ t < span.last)
    BY <1>9 DEF InForce
  <2>3. Usage(t)' = Usage(t) /\ Usage(t) \in Nat
    BY <1>1, <1>5, <1>6, <2>1, UsageType
  <2>4. QED  BY <2>2, <2>3
<1>10. QED  BY <1>8, <1>9

LEMMA NextExact == IInv /\ PointsExact /\ [Next]_vars => PointsExact'
<1> SUFFICES ASSUME IInv, PointsExact, [Next]_vars PROVE PointsExact'
  OBVIOUS
<1>1. ASSUME NEW base \in BaseTimes, NEW length \in PlanLengths, Reset(base, length)
      PROVE  PointsExact'
  <2>1. InForce(base)' = {}
    BY <1>1 DEF Reset, ResetBooks, InForce
  <2>2. Usage(base)' = Sum(Amounts', InForce(base)')
    BY DEF Usage, Sum, Amounts, InForce
  <2>3. Usage(base)' = 0
    BY <2>1, <2>2, SumEmpty
  <2>4. QED  BY <1>1, <2>3 DEF Reset, ResetBooks, PointsExact
<1>2. ASSUME NEW start \in Times, NEW duration \in Durations, NEW count \in Counts,
             AddSpan(start, duration, count)
      PROVE  PointsExact'
  <2> SUFFICES ASSUME NEW p \in sched_point_tree' PROVE scheduled'[p] = Usage(p)'
    BY DEF PointsExact
  <2>1. PICK q \in sched_point_tree :
            /\ IsState(q, p)
            /\ scheduled'[p] = scheduled[q] + IF start <= p /\ p < start + duration THEN count ELSE 0
    BY <1>2, AddSpanPoints
  <2>2. p \in Nat /\ q \in Nat /\ TypeOK /\ PointsAreSpanEnds /\ SpansOrdered
    <3>1. sched_point_tree' = sched_point_tree \cup {start, start + duration}
      BY <1>2, AddSpanPoints
    <3>2. QED  BY <3>1, RequestAssumption DEF IInv, TypeOK
  <2>3. Usage(p) = Usage(q)
    BY <2>1, <2>2, SameAtStatePoint
  <2>4. Usage(p)' = Usage(p) + IF start <= p /\ p < start + duration THEN count ELSE 0
    BY <1>2, <2>2, AddSpanUsage
  <2>5. scheduled[q] = Usage(q)
    BY DEF PointsExact
  <2>6. QED  BY <2>1, <2>3, <2>4, <2>5
<1>3. ASSUME NEW id \in DOMAIN span_lookup, RemSpan(id)
      PROVE  PointsExact'
  <2> SUFFICES ASSUME NEW p \in sched_point_tree' PROVE scheduled'[p] = Usage(p)'
    BY DEF PointsExact
  <2> DEFINE span == span_lookup[id]
  <2>1. /\ p \in sched_point_tree
        /\ scheduled'[p] = IF span.start <= p /\ p < span.last
                           THEN scheduled[p] - span.planned ELSE scheduled[p]
    BY <1>3, RemSpanPoints
  <2>2. p \in Nat /\ TypeOK
    BY <2>1 DEF IInv, TypeOK
  <2>3. Usage(p)' = Usage(p) - IF span.start <= p /\ p < span.last THEN span.planned ELSE 0
    BY <1>3, <2>2, RemSpanUsage
  <2>4. scheduled[p] = Usage(p) /\ Usage(p) \in Nat
    BY <2>1, <2>2, UsageType DEF PointsExact
  <2> HIDE DEF span
  <2>5. QED  BY <2>1, <2>3, <2>4
<1>4. CASE UNCHANGED <<points, spans>>
  <2>1. UNCHANGED <<sched_point_tree, scheduled, span_lookup>>
    BY <1>4 DEF points, spans
  <2>2. \A p : Usage(p)' = Usage(p)
    BY <2>1 DEF Usage
  <2>3. QED  BY <2>1, <2>2 DEF PointsExact
<1>5. CASE \/ AvailTimeNext \/ AvailTimeNextFails \/ UNCHANGED vars
           \/ \E request \in Requests : AvailTimeFirst(request)
  BY <1>4, <1>5 DEF AvailTimeNext, AvailTimeNextFails, AvailTimeFirst,
                    NoIteration, OpenIteration, ContinueIteration, vars
<1>6. QED
  BY <1>1, <1>2, <1>3, <1>5 DEF Next

LEMMA InitExact == Init => PointsExact
<1> SUFFICES ASSUME Init PROVE PointsExact
  OBVIOUS
<1>1. PICK base \in BaseTimes : /\ sched_point_tree = {base} /\ scheduled = [p \in {base} |-> 0]
                                /\ DOMAIN span_lookup = {}
  BY DEF Init, InitBooks
<1>2. InForce(base) = {}
  BY <1>1 DEF InForce
<1>3. Usage(base) = 0
  BY <1>2, UsageIsSum, SumEmpty
<1>4. QED  BY <1>1, <1>3 DEF PointsExact

LEMMA PointsStayExact == Spec => []PointsExact
BY InitExact, NextExact, Invariance, PTL DEF Spec

\* Incremental bookkeeping never drifts from the spans: at every instant of the
\* plan the point in force shows what the spans add up to.
THEOREM LedgerNeverDrifts == Spec => []LedgerExact
<1>1. IInv /\ PointsExact /\ PointsBalanced => LedgerExact
  <2> SUFFICES ASSUME IInv, PointsExact, PointsBalanced,
                      NEW t \in plan_start .. plan_end + 1
               PROVE  /\ scheduled[StatePoint(t)] = Usage(t)
                      /\ remaining[StatePoint(t)] = Total - Usage(t)
    BY DEF LedgerExact
  <2> DEFINE p == StatePoint(t)
  <2>1. /\ TypeOK /\ PointsAreSpanEnds /\ SpansOrdered /\ plan_start \in sched_point_tree
        /\ t \in Nat /\ plan_start <= t
    BY DEF IInv, TypeOK, PointsAreSpanEnds
  <2>2. IsState(p, t)
    BY <2>1, StatePointExists
  <2>3. p \in sched_point_tree /\ p \in Nat
    BY <2>1, <2>2 DEF IsState, TypeOK
  <2>4. Usage(t) = Usage(p)
    BY <2>1, <2>2, <2>3, SameAtStatePoint
  <2>5. /\ scheduled[p] = Usage(p) /\ scheduled[p] + remaining[p] = Total
        /\ scheduled[p] \in Int /\ remaining[p] \in Int
    BY <2>1, <2>3 DEF PointsExact, PointsBalanced, TypeOK
  <2> HIDE DEF p
  <2>6. remaining[p] = Total - Usage(t)
    BY <2>4, <2>5, TotalAssumption
  <2>7. QED  BY <2>4, <2>5, <2>6 DEF p
<1>2. QED  BY <1>1, PointsStayExact, Invariance, NeverOverbooked, PTL

-----------------------------------------------------------------------------
(* Looking at a window of time through the points in it. *)

\* avail_during and planner_avail_resources_during walk over a few points; what
\* these have left is what the instants of the window have left, no amount
\* more and none less, wherever the window begins between two points.
LEMMA WindowAmounts ==
    ASSUME IInv, PointsExact, PointsBalanced,
           NEW at \in Nat, plan_start <= at, NEW duration \in Nat, duration >= 1
    PROVE  {remaining[p] : p \in Window(at, duration)}
               = {Total - Usage(t) : t \in at .. at + duration - 1}
<1>1. /\ TypeOK /\ PointsAreSpanEnds /\ SpansOrdered /\ plan_start \in sched_point_tree
      /\ plan_start \in Nat
  BY DEF IInv, TypeOK, PointsAreSpanEnds
<1>2. \A p \in sched_point_tree : p \in Nat /\ remaining[p] = Total - Usage(p)
  <2> SUFFICES ASSUME NEW p \in sched_point_tree
               PROVE  p \in Nat /\ remaining[p] = Total - Usage(p)
    OBVIOUS
  <2>1. /\ p \in Nat /\ scheduled[p] \in Int /\ remaining[p] \in Int
        /\ scheduled[p] = Usage(p) /\ scheduled[p] + remaining[p] = Total
    BY <1>1 DEF TypeOK, PointsExact, PointsBalanced
  <2>2. QED  BY <2>1, TotalAssumption
<1>3. ASSUME NEW t \in at .. at + duration - 1
      PROVE  \E p \in Window(at, duration) : remaining[p] = Total - Usage(t)
  <2> DEFINE p == StatePoint(t)
  <2>1. t \in Nat /\ plan_start <= t /\ at <= t /\ t < at + duration
    BY <1>1
  <2>2. IsState(p, t)
    BY <1>1, <2>1, StatePointExists
  <2>3. p \in sched_point_tree /\ p \in Nat
    BY <1>2, <2>2 DEF IsState
  <2>4. Usage(t) = Usage(p)
    BY <1>1, <2>1, <2>2, <2>3, SameAtStatePoint
  <2> HIDE DEF p
  <2>5. p < at + duration /\ (p >= at \/ IsState(p, at))
    BY <1>2, <2>1, <2>2, <2>3 DEF IsState
  <2>6. QED  BY <1>2, <2>3, <2>4, <2>5 DEF Window
<1>4. ASSUME NEW p \in Window(at, duration)
      PROVE  \E t \in at .. at + duration - 1 : remaining[p] = Total - Usage(t)
  <2>1. p \in sched_point_tree /\ p \in Nat /\ p < at + duration /\ (p >= at \/ IsState(p, at))
    BY <1>2 DEF Window
  <2>2. CASE p >= at
    BY <1>2, <2>1, <2>2
  <2>3. CASE IsState(p, at)
    <3>1. Usage(at) = Usage(p)
      BY <1>1, <2>1, <2>3, SameAtStatePoint
    <3>2. at \in at .. at + duration - 1
      OBVIOUS
    <3>3. QED  BY <1>2, <2>1, <3>1, <3>2
  <2>4. QED  BY <2>1, <2>2, <2>3
<1>5. QED  BY <1>3, <1>4

\* avail_during finds the amount free exactly when every instant has it.
LEMMA FitsExact ==
    ASSUME IInv, PointsExact, PointsBalanced,
           NEW at \in Nat, plan_start <= at, NEW duration \in Nat, duration >= 1,
           NEW count \in Nat
    PROVE  Fits(at, duration, count) <=>
               \A t \in at .. at + duration - 1 : Usage(t) + count <= Total
<1>1. Fits(at, duration, count) <=>
          \A r \in {remaining[p] : p \in Window(at, duration)} : count <= r
  BY DEF Fits
<1>2. Fits(at, duration, count) <=>
          \A t \in at .. at + duration - 1 : count <= Total - Usage(t)
  <2> DEFINE free == {Total - Usage(t) : t \in at .. at + duration - 1}
  <2>1. {remaining[p] : p \in Window(at, duration)} = free
    BY WindowAmounts
  <2>2. Fits(at, duration, count) <=> \A r \in free : count <= r
    BY <1>1, <2>1
  <2>3. QED  BY <2>2
<1>3. \A t : Usage(t) \in Nat
  BY UsageType DEF IInv
<1>4. \A t : count <= Total - Usage(t) <=> Usage(t) + count <= Total
  BY <1>3, TotalAssumption
<1>5. QED  BY <1>2, <1>4

\* planner_avail_during says 0 exactly when the amount is free at every instant
\* asked for (planner.h:140-153), for every plan, total and set of spans.
THEOREM AvailDuringIsExact == Spec => []AvailDuringExact
<1>1. IInv /\ PointsExact /\ PointsBalanced => AvailDuringExact
  <2> SUFFICES ASSUME IInv, PointsExact, PointsBalanced,
                      NEW at \in Times, NEW duration \in Durations, NEW count \in Counts,
                      at >= plan_start, duration >= 1, at + duration <= plan_end
               PROVE  PlannerAvailDuring(at, duration, count) = 0 <=>
                          \A t \in at .. at + duration - 1 : Usage(t) + count <= Total
    BY DEF AvailDuringExact
  <2>1. at \in Nat /\ duration \in Nat /\ count \in Nat /\ plan_start \in Nat /\ plan_end \in Nat
    BY RequestAssumption DEF IInv, TypeOK
  <2>2. PlannerAvailDuring(at, duration, count) = 0 <=>
            count <= Total /\ Fits(at, duration, count)
    BY <2>1 DEF PlannerAvailDuring, AvailDuring
  <2>3. (\A t \in at .. at + duration - 1 : Usage(t) + count <= Total) => count <= Total
    <3>1. at \in at .. at + duration - 1
      BY <2>1
    <3>2. Usage(at) \in Nat
      BY UsageType DEF IInv
    <3>3. Usage(at) + count <= Total => count <= Total
      BY <2>1, <3>2, TotalAssumption
    <3>4. QED  BY <3>1, <3>3
  <2>4. Fits(at, duration, count) <=>
            \A t \in at .. at + duration - 1 : Usage(t) + count <= Total
    BY <2>1, FitsExact
  <2>5. QED  BY <2>2, <2>3, <2>4
<1>2. QED  BY <1>1, PointsStayExact, Invariance, NeverOverbooked, PTL

\* planner_avail_resources_during answers with the least amount free at any
\* instant of the window, although it looks at points only.
THEOREM AvailResourcesIsExact == Spec => []AvailResourcesExact
<1>1. IInv /\ PointsExact /\ PointsBalanced => AvailResourcesExact
  BY WindowAmounts, RequestAssumption DEF AvailResourcesExact, AvailResourcesDuring
<1>2. QED  BY <1>1, PointsStayExact, Invariance, NeverOverbooked, PTL

-----------------------------------------------------------------------------
(*****************************************************************************)
(* The availability iteration, and that the planner implements module        *)
(* Calendar. A search that takes the points it looks at out of the min-time  *)
(* tree returns the earliest answer again and again because it has looked at *)
(* everything up to its last answer and at nothing beyond: that is           *)
(* IterationExact.                                                           *)
(*                                                                           *)
(* The theorems of this part assume ExactSearch: that                        *)
(* mintime_resource_mintime finds the earliest point with the amount free.   *)
(* Module PlannerTree has a run in which the tree is disordered and it does  *)
(* not.                                                                      *)
(*****************************************************************************)

\* The point answers the request: planner_avail_time_* may return it.
Answerable(p, r) == Stops(p, r) /\ p + r.duration <= plan_end

\* The points looked at have the amount free, and come before every other point
\* that has.
InOrder(mt, tracked, r) ==
    \A p \in tracked :
        /\ r.resources <= remaining[p]
        /\ \A q \in mt : r.resources <= remaining[q] => p < q

\* An open iteration is about a request that was accepted, has looked at points
\* in time order, and has returned all answers among them.
IterationExact ==
    IF avail_time_iter_set
    THEN /\ FirstAccepted(current_request)
         /\ InOrder(mt_resource_tree, avail_time_iter, current_request)
         /\ answered = {p \in avail_time_iter : Answerable(p, current_request)}
    ELSE answered = {}

\* What the proofs of the iteration start from.
Exact == IInv /\ PointsExact /\ PointsBalanced

-----------------------------------------------------------------------------
(* The last point of the plan. *)

\* After the last scheduled point nothing is booked, so it has the total free
\* and an accepted request fits there.
LEMMA LastPointFree ==
    ASSUME Exact
    PROVE  \E z \in sched_point_tree :
               /\ \A q \in sched_point_tree : q <= z
               /\ remaining[z] = Total
               /\ \A r \in Request : FirstAccepted(r) /\ z >= r.on_or_after => Stops(z, r)
<1>1. /\ TypeOK /\ PointsAreSpanEnds /\ SpansOrdered /\ plan_start \in sched_point_tree
      /\ sched_point_tree \in SUBSET Nat /\ plan_end \in Nat /\ plan_start \in Nat
      /\ plan_start < plan_end
  BY DEF Exact, IInv, TypeOK, PointsAreSpanEnds
<1>2. \A q \in sched_point_tree : q <= plan_end + 1
  <2>1. \A id \in DOMAIN span_lookup : /\ span_lookup[id].start \in Nat
                                       /\ span_lookup[id].last \in Nat
    BY <1>1 DEF TypeOK, Span
  <2>2. \A id \in DOMAIN span_lookup : /\ span_lookup[id].start <= plan_end + 1
                                       /\ span_lookup[id].last <= plan_end + 1
    BY <1>1, <2>1 DEF SpansOrdered
  <2>3. QED  BY <1>1, <2>2 DEF PointsAreSpanEnds
<1>3. PICK z \in sched_point_tree : \A q \in sched_point_tree : q <= z
  <2>1. plan_end + 1 \in Nat /\ sched_point_tree # {}
    BY <1>1
  <2>2. QED  BY <1>1, <1>2, <2>1, GreatestElement
<1>4. z \in Nat /\ scheduled[z] \in Int /\ remaining[z] \in Int
  BY <1>1 DEF TypeOK
<1>5. InForce(z) = {}
  <2>1. \A id \in DOMAIN span_lookup : span_lookup[id].last \in sched_point_tree
    BY <1>1 DEF PointsAreSpanEnds
  <2>2. ASSUME NEW id \in DOMAIN span_lookup PROVE ~ (z < span_lookup[id].last)
    <3> DEFINE last == span_lookup[id].last
    <3>1. last \in Nat /\ last <= z
      BY <1>1, <1>3, <2>1
    <3> HIDE DEF last
    <3>2. ~ (z < last)
      BY <1>4, <3>1
    <3>3. QED  BY <3>2 DEF last
  <2>3. QED  BY <2>2 DEF InForce
<1>6. remaining[z] = Total
  <2>1. Usage(z) = 0
    BY <1>5, UsageIsSum, SumEmpty
  <2>2. scheduled[z] = 0 /\ scheduled[z] + remaining[z] = Total
    BY <2>1 DEF Exact, PointsExact, PointsBalanced
  <2>3. QED  BY <1>4, <2>2, TotalAssumption
<1>7. ASSUME NEW r \in Request, FirstAccepted(r), z >= r.on_or_after
      PROVE  Stops(z, r)
  <2>1. r.duration \in Nat /\ r.resources \in Nat /\ r.resources <= Total
    BY <1>7 DEF FirstAccepted, Request
  <2>2. Window(z, r.duration) \subseteq {z}
    <3> SUFFICES ASSUME NEW p \in sched_point_tree, p >= z \/ IsState(p, z)
                 PROVE  p = z
      BY DEF Window
    <3>1. p \in Nat /\ p <= z
      BY <1>1, <1>3
    <3>2. p >= z
      BY <1>4, <3>1 DEF IsState
    <3>3. QED  BY <1>4, <3>1, <3>2
  <2>3. QED  BY <1>6, <1>7, <2>1, <2>2 DEF Stops, Fits
<1>8. QED  BY <1>3, <1>6, <1>7

-----------------------------------------------------------------------------
(* One search. *)

\* The earliest answer among points of the tree, as the abstract planner says.
LEMMA LeastIsMin ==
    ASSUME NEW S \in SUBSET Nat, NEW m \in S, \A x \in S : m <= x
    PROVE  Min(S) = m
<1>1. Min(S) \in S /\ \A x \in S : Min(S) <= x
  BY LeastElement
<1>2. Min(S) \in Nat /\ m \in Nat /\ m <= Min(S) /\ Min(S) <= m
  BY <1>1
<1>3. QED  BY <1>2

\* What avail_at looks at and returns, when the search is exact: it stops at the
\* earliest point of the tree that is late enough and can take the span.
LEMMA AvailAtExact ==
    ASSUME ExactSearch, Exact, NEW mt, NEW tracked, NEW r \in Request, FirstAccepted(r),
           mt \cup tracked = sched_point_tree, mt \cap tracked = {},
           InOrder(mt, tracked, r),
           AvailAt(mt, tracked, r)
    PROVE  /\ InOrder(mt_resource_tree', avail_time_iter', r)
           /\ \/ /\ answer' = None
                 /\ \A p \in mt : ~ Answerable(p, r)
              \/ /\ answer' \in mt /\ Answerable(answer', r)
                 /\ \A p \in mt : Answerable(p, r) => answer' <= p
           /\ {p \in avail_time_iter' : Answerable(p, r)}
                 = {p \in tracked : Answerable(p, r)} \cup ({answer'} \ {None})
<1> DEFINE fitting == {p \in mt : r.resources <= remaining[p]}
           good    == {p \in fitting : Stops(p, r)}
           looked  == LookedAt(mt, r)
<1>1. /\ sched_point_tree \in SUBSET Nat /\ mt \in SUBSET Nat /\ plan_end \in Nat
      /\ \A p \in sched_point_tree : remaining[p] \in Int
      /\ r.on_or_after \in Nat /\ r.duration \in Nat /\ r.resources \in Nat
      /\ r.duration >= 1 /\ r.on_or_after >= plan_start /\ plan_start \in Nat
  BY DEF Exact, IInv, TypeOK, Request, FirstAccepted
<1>2. /\ mt_resource_tree' = mt \ looked
      /\ avail_time_iter' = tracked \cup looked
      /\ answer' \in Answers(looked, r)
  BY DEF AvailAt
<1>3. \A p \in mt : Stops(p, r) => p \in good
  <2>1. \A p \in mt : Stops(p, r) => p \in Window(p, r.duration)
    BY <1>1 DEF Window
  <2>2. QED  BY <2>1 DEF Stops, Fits
<1>4. /\ good \in SUBSET Nat /\ looked \subseteq fitting /\ fitting \subseteq mt
      /\ None \notin mt /\ good \subseteq fitting
  <2>1. good \in SUBSET Nat /\ fitting \subseteq mt /\ good \subseteq fitting
    BY <1>1
  <2>2. looked \subseteq fitting
    BY DEF LookedAt
  <2>3. None \notin Nat
    BY DEF None
  <2>4. QED  BY <1>1, <2>1, <2>2, <2>3
<1>5. CASE good = {}
  <2>1. looked = fitting
    BY <1>5 DEF LookedAt
  <2>2. \A p \in mt : ~ Stops(p, r)
    BY <1>3, <1>5
  <2>3. answer' = None
    <3>1. CASE looked = {}
      BY <1>2, <3>1 DEF Answers
    <3>2. CASE looked # {}
      <4>1. PICK z \in sched_point_tree :
                /\ \A q \in sched_point_tree : q <= z
                /\ remaining[z] = Total
                /\ \A s \in Request : FirstAccepted(s) /\ z >= s.on_or_after => Stops(z, s)
        BY LastPointFree
      <4>2. z \in mt
        <5>1. PICK q \in mt : q \in looked
          BY <1>4, <3>2
        <5>2. r.resources <= remaining[q]
          BY <1>4, <5>1
        <5>3. z \in tracked => z < q
          BY <5>2 DEF InOrder
        <5>4. q <= z
          BY <4>1
        <5>5. QED  BY <1>1, <5>3, <5>4
      <4>3. z \in fitting
        BY <4>1, <4>2 DEF FirstAccepted
      <4>4. z < r.on_or_after
        BY <1>1, <2>2, <4>1, <4>2
      <4>5. \A p \in mt : ~ Stops(p, r) /\ p < r.on_or_after
        BY <1>1, <2>2, <4>1, <4>4
      <4>6. {p \in looked : Stops(p, r)} = {}
        BY <1>4, <2>2
      <4>7. Answers(looked, r)
              = {IF p < r.on_or_after THEN None ELSE p :
                    p \in {p \in looked : ExactSearch => \A q \in looked : q <= p}}
        BY <3>2, <4>6 DEF Answers
      <4>8. QED  BY <1>2, <1>4, <4>5, <4>7
    <3>3. QED  BY <3>1, <3>2
  <2>4. \A p \in mt : ~ Answerable(p, r)
    BY <2>2 DEF Answerable
  <2>5. InOrder(mt_resource_tree', avail_time_iter', r)
    BY <1>2, <2>1 DEF InOrder
  <2>6. {p \in avail_time_iter' : Answerable(p, r)} = {p \in tracked : Answerable(p, r)}
    BY <1>2, <1>4, <2>4
  <2>7. QED  BY <2>3, <2>4, <2>5, <2>6
<1>6. CASE good # {}
  <2> DEFINE m == Min(good)
  <2>1. m \in good /\ \A p \in good : m <= p
    BY <1>4, <1>6, LeastElement
  <2>2. looked = {p \in fitting : p <= m}
    BY <1>6 DEF LookedAt
  <2> HIDE DEF m
  <2>3. m \in mt /\ m \in looked /\ m \in Nat /\ Stops(m, r)
    BY <1>1, <1>4, <2>1, <2>2
  <2>4. \A p \in looked : Stops(p, r) => p = m
    BY <1>1, <1>3, <1>4, <2>1, <2>2, <2>3
  <2>5. Answers(looked, r) = {IF m + r.duration > plan_end THEN None ELSE m}
    <3>1. {p \in looked : Stops(p, r)} = {m}
      BY <2>3, <2>4
    <3>2. Answers(looked, r)
            = {IF p + r.duration > plan_end THEN None ELSE p : p \in {p \in looked : Stops(p, r)}}
      BY <2>3, <3>1 DEF Answers
    <3>3. QED  BY <3>1, <3>2
  <2>6. answer' = IF m + r.duration > plan_end THEN None ELSE m
    BY <1>2, <2>5
  <2>7. \A p \in mt : Answerable(p, r) => m <= p /\ m + r.duration <= plan_end
    <3>1. \A p \in mt : Stops(p, r) => m <= p
      BY <1>3, <2>1
    <3>2. \A p \in mt : m <= p /\ p + r.duration <= plan_end => m + r.duration <= plan_end
      BY <1>1, <2>3
    <3>3. QED  BY <3>1, <3>2 DEF Answerable
  <2>8. \/ answer' = None /\ m + r.duration > plan_end
        \/ answer' = m /\ m + r.duration <= plan_end /\ m # None
    BY <1>1, <1>4, <2>3, <2>6
  <2>9. \/ /\ answer' = None
           /\ \A p \in mt : ~ Answerable(p, r)
        \/ /\ answer' \in mt /\ Answerable(answer', r)
           /\ \A p \in mt : Answerable(p, r) => answer' <= p
    <3>1. m + r.duration > plan_end => ~ (m + r.duration <= plan_end)
      BY <1>1, <2>3
    <3>2. QED  BY <2>3, <2>7, <2>8, <3>1 DEF Answerable
  <2>10. InOrder(mt_resource_tree', avail_time_iter', r)
    <3>1. \A p \in looked : p <= m /\ r.resources <= remaining[p] /\ p \in Nat
      BY <1>1, <1>4, <2>2
    <3>2. \A q \in mt \ looked : r.resources <= remaining[q] => m < q
      BY <1>1, <2>2, <2>3
    <3>3. \A p \in looked, q \in mt \ looked : r.resources <= remaining[q] => p < q
      BY <1>1, <2>3, <3>1, <3>2
    <3>4. QED  BY <1>2, <3>1, <3>3 DEF InOrder
  <2>11. {p \in avail_time_iter' : Answerable(p, r)}
            = {p \in tracked : Answerable(p, r)} \cup ({answer'} \ {None})
    <3>1. \A p \in looked : Answerable(p, r) <=> p = m /\ m + r.duration <= plan_end
      BY <2>3, <2>4 DEF Answerable
    <3>2. m + r.duration > plan_end <=> ~ (m + r.duration <= plan_end)
      BY <1>1, <2>3
    <3>3. {p \in looked : Answerable(p, r)} = {answer'} \ {None}
      BY <2>3, <2>8, <3>1, <3>2
    <3>4. QED  BY <1>2, <3>3
  <2>12. QED  BY <2>9, <2>10, <2>11
<1>7. QED  BY <1>5, <1>6

-----------------------------------------------------------------------------
(* The invariant of an iteration. *)

\* Nothing that an answer depends on changes while the books stay the same.
LEMMA BooksKept ==
    ASSUME UNCHANGED <<plan, points, spans>>
    PROVE  /\ \A r : FirstAccepted(r)' <=> FirstAccepted(r)
           /\ \A p, r : Answerable(p, r)' <=> Answerable(p, r)
           /\ \A mt, tracked, r : InOrder(mt, tracked, r)' <=> InOrder(mt, tracked, r)
<1>1. UNCHANGED <<plan_start, plan_end, sched_point_tree, remaining>>
  BY DEF plan, points
<1>2. \A at, duration, count : Fits(at, duration, count)' <=> Fits(at, duration, count)
  BY <1>1 DEF Fits, Window, IsState
<1>3. \A p, r : Answerable(p, r)' <=> Answerable(p, r)
  BY <1>1, <1>2 DEF Answerable, Stops
<1>4. QED  BY <1>1, <1>3 DEF FirstAccepted, InOrder

\* planner_avail_time_first gives the earliest answer of all, and the new
\* iteration has looked at everything up to it.
LEMMA FirstExact ==
    ASSUME ExactSearch, Exact, NEW r \in Requests, AvailTimeFirst(r)
    PROVE  /\ IterationExact'
           /\ \/ /\ answer' = None
                 /\ \A p \in sched_point_tree : ~ Answerable(p, r)
              \/ /\ answer' \in sched_point_tree /\ Answerable(answer', r)
                 /\ \A p \in sched_point_tree : Answerable(p, r) => answer' <= p
<1>1. /\ r \in Request /\ FirstAccepted(r) /\ AvailAt(Restored, {}, r)
      /\ avail_time_iter_set' = TRUE /\ current_request' = r
      /\ answered' = {answer'} \ {None}
      /\ UNCHANGED <<plan, points, spans>>
  BY RequestAssumption DEF AvailTimeFirst, OpenIteration, Request
<1>2. Restored = sched_point_tree /\ InOrder(Restored, {}, r)
  BY DEF Exact, IInv, PointsIndexedOnce, Restored, InOrder
<1>3. /\ InOrder(mt_resource_tree', avail_time_iter', r)
      /\ \/ /\ answer' = None
            /\ \A p \in sched_point_tree : ~ Answerable(p, r)
         \/ /\ answer' \in sched_point_tree /\ Answerable(answer', r)
            /\ \A p \in sched_point_tree : Answerable(p, r) => answer' <= p
      /\ {p \in avail_time_iter' : Answerable(p, r)} = {answer'} \ {None}
  BY <1>1, <1>2, AvailAtExact
<1>4. IterationExact'
  <2>1. /\ FirstAccepted(r)'
        /\ \A p : Answerable(p, r)' <=> Answerable(p, r)
        /\ InOrder(mt_resource_tree, avail_time_iter, r)'
    BY <1>1, <1>3, BooksKept
  <2>2. answered' = {p \in avail_time_iter' : Answerable(p, r)'}
    BY <1>1, <1>3, <2>1
  <2>3. QED  BY <1>1, <2>1, <2>2, BooksKept DEF IterationExact
<1>5. QED  BY <1>3, <1>4

\* planner_avail_time_next gives the earliest answer not yet given.
LEMMA NextAnswerExact ==
    ASSUME ExactSearch, Exact, IterationExact, AvailTimeNext
    PROVE  /\ IterationExact'
           /\ \/ /\ answer' = None
                 /\ \A p \in sched_point_tree \ answered : ~ Answerable(p, current_request)
              \/ /\ answer' \in sched_point_tree \ answered
                 /\ Answerable(answer', current_request)
                 /\ \A p \in sched_point_tree \ answered :
                        Answerable(p, current_request) => answer' <= p
<1> DEFINE r == current_request
<1>1. /\ AvailAt(mt_resource_tree, avail_time_iter, r)
      /\ avail_time_iter_set /\ avail_time_iter_set' = avail_time_iter_set
      /\ current_request' = r
      /\ answered' = answered \cup ({answer'} \ {None})
      /\ UNCHANGED <<plan, points, spans>>
  BY DEF AvailTimeNext, ContinueIteration
<1>2. /\ r \in Request
      /\ mt_resource_tree \cup avail_time_iter = sched_point_tree
      /\ mt_resource_tree \cap avail_time_iter = {}
  BY DEF Exact, IInv, TypeOK, PointsIndexedOnce
<1>3. /\ FirstAccepted(r) /\ InOrder(mt_resource_tree, avail_time_iter, r)
      /\ answered = {p \in avail_time_iter : Answerable(p, r)}
  BY <1>1 DEF IterationExact
<1>4. /\ InOrder(mt_resource_tree', avail_time_iter', r)
      /\ \/ /\ answer' = None
            /\ \A p \in mt_resource_tree : ~ Answerable(p, r)
         \/ /\ answer' \in mt_resource_tree /\ Answerable(answer', r)
            /\ \A p \in mt_resource_tree : Answerable(p, r) => answer' <= p
      /\ {p \in avail_time_iter' : Answerable(p, r)}
            = {p \in avail_time_iter : Answerable(p, r)} \cup ({answer'} \ {None})
  BY <1>1, <1>2, <1>3, AvailAtExact
<1>5. answered' = {p \in avail_time_iter' : Answerable(p, r)}
  BY <1>1, <1>3, <1>4
<1>6. IterationExact'
  <2>1. UNCHANGED <<plan_start, plan_end, sched_point_tree, remaining, current_request>>
    BY <1>1 DEF plan, points
  <2>2. FirstAccepted(current_request)'
    BY <1>3, <2>1 DEF FirstAccepted
  <2>3. InOrder(mt_resource_tree, avail_time_iter, current_request)'
    BY <1>4, <2>1 DEF InOrder
  <2>4. \A p : Answerable(p, current_request)' <=> Answerable(p, current_request)
    BY <2>1 DEF Answerable, Stops, Fits, Window, IsState
  <2>5. answered' = {p \in avail_time_iter' : Answerable(p, current_request)'}
    BY <1>5, <2>4
  <2>6. avail_time_iter_set'
    BY <1>1
  <2>7. QED  BY <2>2, <2>3, <2>5, <2>6 DEF IterationExact
<1>7. \A p \in sched_point_tree \ answered : p \in mt_resource_tree \/ ~ Answerable(p, r)
  BY <1>2, <1>3
<1>8. \A p \in mt_resource_tree : p \in sched_point_tree \ answered
  BY <1>2, <1>3
<1>9. QED  BY <1>4, <1>6, <1>7, <1>8

LEMMA NextIterationExact ==
    ASSUME ExactSearch, Exact, IterationExact, [Next]_vars
    PROVE  IterationExact'
<1>1. ASSUME NEW base \in BaseTimes, NEW length \in PlanLengths, Reset(base, length)
      PROVE  IterationExact'
  BY <1>1 DEF Reset, ResetBooks, IterationExact
<1>2. ASSUME NEW start \in Times, NEW duration \in Durations, NEW count \in Counts,
             AddSpan(start, duration, count)
      PROVE  IterationExact'
  BY <1>2 DEF AddSpan, BookSpan, CloseIteration, IterationExact
<1>3. ASSUME NEW id \in DOMAIN span_lookup, RemSpan(id)
      PROVE  IterationExact'
  BY <1>3 DEF RemSpan, UnbookSpan, CloseIteration, IterationExact
<1>4. ASSUME NEW request \in Requests, AvailTimeFirst(request)
      PROVE  IterationExact'
  BY <1>4, FirstExact
<1>5. CASE AvailTimeNext
  BY <1>5, NextAnswerExact
<1>6. CASE AvailTimeNextFails \/ UNCHANGED vars
  <2>1. /\ UNCHANGED <<plan, points, spans, mt_resource_tree, avail_time_iter>>
        /\ UNCHANGED <<avail_time_iter_set, current_request, answered>>
    BY <1>6 DEF AvailTimeNextFails, NoIteration, vars, iter
  <2>2. UNCHANGED <<plan_start, plan_end, sched_point_tree, remaining>>
    BY <2>1 DEF plan, points
  <2>3. /\ FirstAccepted(current_request)' <=> FirstAccepted(current_request)
        /\ InOrder(mt_resource_tree, avail_time_iter, current_request)'
              <=> InOrder(mt_resource_tree, avail_time_iter, current_request)
        /\ \A p : Answerable(p, current_request)' <=> Answerable(p, current_request)
    BY <2>1, <2>2 DEF FirstAccepted, InOrder, Answerable, Stops, Fits, Window, IsState
  <2>4. QED  BY <2>1, <2>3 DEF IterationExact
<1>7. QED
  BY <1>1, <1>2, <1>3, <1>4, <1>5, <1>6 DEF Next

LEMMA StaysExact == ASSUME ExactSearch PROVE Spec => [](Exact /\ IterationExact)
<1>1. Init => IterationExact
  BY DEF Init, InitBooks, IterationExact
<1>2. Exact /\ IterationExact /\ [Next]_vars => IterationExact'
  BY NextIterationExact
<1>3. Spec => []Exact
  <2>1. IInv /\ PointsExact /\ PointsBalanced => Exact
    BY DEF Exact
  <2>2. QED  BY <2>1, Invariance, PointsStayExact, NeverOverbooked, PTL
<1>4. QED  BY <1>1, <1>2, <1>3, PTL DEF Spec

\* A point that answers a request is a time at which the request can be booked.
LEMMA AnswerableMeans ==
    ASSUME Exact, NEW p \in Nat, NEW r \in Request, FirstAccepted(r)
    PROVE  Answerable(p, r) <=>
               /\ p >= r.on_or_after
               /\ p + r.duration <= plan_end
               /\ \A t \in p .. p + r.duration - 1 : Usage(t) + r.resources <= Total
<1>1. /\ r.on_or_after \in Nat /\ r.duration \in Nat /\ r.resources \in Nat
      /\ r.duration >= 1 /\ r.on_or_after >= plan_start /\ plan_start \in Nat
  BY DEF Exact, IInv, TypeOK, Request, FirstAccepted
<1>2. p >= r.on_or_after => plan_start <= p
  BY <1>1
<1>3. plan_start <= p =>
        (Fits(p, r.duration, r.resources) <=>
           \A t \in p .. p + r.duration - 1 : Usage(t) + r.resources <= Total)
  BY <1>1, FitsExact DEF Exact
<1>4. QED  BY <1>2, <1>3 DEF Answerable, Stops

\* Every time that an iteration has returned can be booked as asked, until the
\* planner is updated: avail_at never hands out a point it has rejected.
THEOREM EveryAnswerBookable == ASSUME ExactSearch PROVE Spec => []AnswersBookable
<1>1. Exact /\ IterationExact => AnswersBookable
  <2> SUFFICES ASSUME Exact, IterationExact, NEW p \in answered
               PROVE  /\ p >= current_request.on_or_after
                      /\ p + current_request.duration <= plan_end
                      /\ \A t \in p .. p + current_request.duration - 1 :
                             Usage(t) + current_request.resources <= Total
    BY DEF AnswersBookable
  <2>1. Answerable(p, current_request) /\ FirstAccepted(current_request)
    BY DEF IterationExact
  <2>2. p \in Nat /\ current_request \in Request
    BY DEF Exact, IInv, TypeOK
  <2>3. QED  BY <2>1, <2>2, AnswerableMeans
<1>2. QED  BY <1>1, StaysExact, PTL

-----------------------------------------------------------------------------
(* The planner implements the calendar. *)

\* The library operators, as module Calendar extends them, are the same.
LEMMA SameOperators ==
    /\ \A f, S : Promise!SumFunctionOnSet(f, S) = Sum(f, S)
    /\ \A S : Promise!Min(S) = Min(S)
    /\ \A f, S : Promise!Restrict(f, S) = Restrict(f, S)
<1>1. ASSUME NEW f, NEW S PROVE Promise!SumFunctionOnSet(f, S) = Sum(f, S)
  <2> DEFINE g == CHOOSE h : IsSum(h, f, S)
  <2>1. Sum(f, S) = g[S]
    BY DEF Sum, SumFunctionOnSet, FoldFunctionOnSet, MapThenFoldSet, IsSum
  <2>2. Promise!SumFunctionOnSet(f, S) = g[S]
    BY DEF Promise!SumFunctionOnSet, Promise!FoldFunctionOnSet, Promise!MapThenFoldSet, IsSum
  <2>3. QED  BY <2>1, <2>2
<1>2. \A S : Promise!Min(S) = Min(S)
  BY DEF Promise!Min, Min
<1>3. \A f, S : Promise!Restrict(f, S) = Restrict(f, S)
  BY DEF Promise!Restrict, Restrict
<1>4. QED  BY <1>1, <1>2, <1>3
LEMMA SameUsage == \A t : Promise!Usage(t) = Usage(t)
BY SameOperators DEF Promise!Usage, Usage, Sum

\* What the abstract planner computes from the spans is what the points say.
LEMMA CalendarTimes ==
    ASSUME Exact
    PROVE  /\ Promise!ChangeTimes = sched_point_tree
           /\ \A p \in Nat, r \in Request : FirstAccepted(r) =>
                 (Answerable(p, r) <=> /\ p >= r.on_or_after
                                       /\ Promise!CanBook(p, r.duration, r.resources))
<1>1. Promise!ChangeTimes = sched_point_tree
  BY DEF Exact, IInv, PointsAreSpanEnds, Promise!ChangeTimes
<1>2. ASSUME NEW p \in Nat, NEW r \in Request, FirstAccepted(r)
      PROVE  Answerable(p, r) <=> /\ p >= r.on_or_after
                                  /\ Promise!CanBook(p, r.duration, r.resources)
  <2>1. p >= r.on_or_after => p >= plan_start
    BY <1>2 DEF Exact, IInv, TypeOK, Request, FirstAccepted
  <2>2. Promise!CanBook(p, r.duration, r.resources) <=>
            /\ p >= plan_start
            /\ p + r.duration <= plan_end
            /\ \A t \in p .. p + r.duration - 1 : Usage(t) + r.resources <= Total
    BY SameUsage DEF Promise!CanBook
  <2>3. QED  BY <1>2, <2>1, <2>2, AnswerableMeans
<1>3. QED  BY <1>1, <1>2

\* The earliest of the points not yet given that answer the request is the
\* earliest time of the abstract planner.
LEMMA CalendarEarliest ==
    ASSUME Exact, NEW r \in Request, FirstAccepted(r), NEW given, NEW a,
           \/ /\ a = None
              /\ \A p \in sched_point_tree \ given : ~ Answerable(p, r)
           \/ /\ a \in sched_point_tree \ given /\ Answerable(a, r)
              /\ \A p \in sched_point_tree \ given : Answerable(p, r) => a <= p
    PROVE  a = Promise!Earliest(r, given)
<1> DEFINE times == {p \in sched_point_tree \ given : Answerable(p, r)}
<1>1. sched_point_tree \in SUBSET Nat
  BY DEF Exact, IInv, TypeOK
<1>2. {t \in Promise!ChangeTimes : /\ t >= r.on_or_after
                                   /\ Promise!CanBook(t, r.duration, r.resources)} \ given = times
  BY <1>1, CalendarTimes
<1>3. Promise!Earliest(r, given) = IF times = {} THEN None ELSE Min(times)
  BY <1>2, SameOperators DEF Promise!Earliest, Promise!None, None
<1>4. CASE times = {}
  BY <1>3, <1>4
<1>5. CASE times # {}
  <2>1. a \in times /\ \A p \in times : a <= p
    BY <1>5
  <2>2. times \in SUBSET Nat
    BY <1>1
  <2> HIDE DEF times
  <2>3. Min(times) = a
    BY <2>1, <2>2, LeastIsMin
  <2>4. QED  BY <1>3, <1>5, <2>3
<1>6. QED  BY <1>4, <1>5

LEMMA InitCalendar == Init => Promise!Init
BY DEF Init, InitBooks, Promise!Init, NoRequest, NotAsked, Promise!NotAsked

\* An accepted span fits under the total at every instant of it.
LEMMA AddSpanCalendar ==
    ASSUME Exact, ~ MayOverrun,
           NEW start \in Times, NEW duration \in Durations, NEW count \in Counts,
           AddSpan(start, duration, count)
    PROVE  Promise!Book(start, duration, count)
<1>1. /\ start \in Nat /\ duration \in Nat /\ count \in Nat
      /\ start >= plan_start /\ duration >= 1 /\ count > 0
      /\ start + duration <= plan_end
      /\ start + duration > plan_end \/ Fits(start, duration, count)
      /\ plan_end \in Nat /\ plan_start \in Nat
  BY RequestAssumption
  DEF AddSpan, BookSpan, AddAccepted, AvailDuring, SpanInputOk, Exact, IInv, TypeOK
<1>2. Fits(start, duration, count)
  BY <1>1
<1>3. \A t \in start .. start + duration - 1 : Usage(t) + count <= Total
  BY <1>1, <1>2, FitsExact DEF Exact
<1>4. Promise!CanBook(start, duration, count)
  BY <1>1, <1>3, SameUsage DEF Promise!CanBook
<1>5. /\ span_counter < MaxSpanId /\ span_counter' = span_counter + 1
      /\ span_lookup' = [id \in DOMAIN span_lookup \cup {span_counter'} |->
              IF id = span_counter'
              THEN [start |-> start, last |-> start + duration, planned |-> count]
              ELSE span_lookup[id]]
  BY AddSpanSpans DEF AddSpan, BookSpan, Exact
<1>6. Promise!Close /\ UNCHANGED <<plan_start, plan_end, current_request>>
  BY DEF AddSpan, BookSpan, CloseIteration, Promise!Close, plan, NotAsked, Promise!NotAsked
<1>7. QED  BY <1>1, <1>4, <1>5, <1>6 DEF Promise!Book

LEMMA NextCalendar ==
    ASSUME ExactSearch, ~ MayOverrun, Exact, IterationExact, [Next]_vars
    PROVE  [Promise!Next]_(Promise!vars)
<1>1. ASSUME NEW base \in BaseTimes, NEW length \in PlanLengths, Reset(base, length)
      PROVE  Promise!Reset
  BY <1>1 DEF Reset, ResetBooks, Promise!Reset, NoRequest, NotAsked, Promise!NotAsked
<1>2. ASSUME NEW start \in Times, NEW duration \in Durations, NEW count \in Counts,
             AddSpan(start, duration, count)
      PROVE  Promise!Book(start, duration, count)
  BY <1>2, AddSpanCalendar
<1>3. ASSUME NEW id \in DOMAIN span_lookup, RemSpan(id)
      PROVE  Promise!Cancel(id)
  <2>1. span_lookup' = Promise!Restrict(span_lookup, DOMAIN span_lookup \ {id})
    BY <1>3, RemSpanPoints, SameOperators
  <2>2. Promise!Close /\ UNCHANGED <<plan_start, plan_end, span_counter, current_request>>
    BY <1>3 DEF RemSpan, UnbookSpan, CloseIteration, Promise!Close, plan,
                NotAsked, Promise!NotAsked
  <2>3. QED  BY <2>1, <2>2 DEF Promise!Cancel
<1>4. ASSUME NEW r \in Requests, AvailTimeFirst(r)
      PROVE  Promise!Ask(r)
  <2>1. /\ r \in Request /\ FirstAccepted(r)
        /\ avail_time_iter_set' = TRUE /\ current_request' = r
        /\ answered' = {answer'} \ {None}
        /\ UNCHANGED <<plan_start, plan_end, span_lookup, span_counter>>
    BY <1>4, RequestAssumption DEF AvailTimeFirst, OpenIteration, Request, plan, spans
  <2>2. \/ /\ answer' = None
           /\ \A p \in sched_point_tree \ {} : ~ Answerable(p, r)
        \/ /\ answer' \in sched_point_tree \ {} /\ Answerable(answer', r)
           /\ \A p \in sched_point_tree \ {} : Answerable(p, r) => answer' <= p
    BY <1>4, FirstExact
  <2>3. answer' = Promise!Earliest(r, {})
    BY <2>1, <2>2, CalendarEarliest
  <2>4. QED  BY <2>1, <2>3 DEF Promise!Ask, None, Promise!None
<1>5. CASE AvailTimeNext
  <2>1. /\ current_request \in Request /\ FirstAccepted(current_request)
        /\ avail_time_iter_set /\ answered' = answered \cup ({answer'} \ {None})
        /\ UNCHANGED <<plan_start, plan_end, span_lookup, span_counter,
                       avail_time_iter_set, current_request>>
    BY <1>5 DEF AvailTimeNext, ContinueIteration, IterationExact, Exact, IInv, TypeOK, plan, spans
  <2>2. answer' = Promise!Earliest(current_request, answered)
    BY <1>5, <2>1, NextAnswerExact, CalendarEarliest
  <2>3. Promise!AskAgain
    BY <2>1, <2>2 DEF Promise!AskAgain, None, Promise!None
  <2>4. QED  BY <2>3 DEF Promise!Next
<1>6. CASE AvailTimeNextFails
  <2>1. Promise!AskInVain
    BY <1>6 DEF AvailTimeNextFails, NoIteration, plan, spans, Promise!AskInVain,
                None, Promise!None
  <2>2. QED  BY <2>1 DEF Promise!Next
<1>7. CASE UNCHANGED vars
  BY <1>7 DEF vars, plan, spans, iter, Promise!vars
<1>8. CASE \E base \in BaseTimes, length \in PlanLengths : Reset(base, length)
  BY <1>1, <1>8 DEF Promise!Next
<1>9. CASE \E start \in Times, duration \in Durations, count \in Counts :
              AddSpan(start, duration, count)
  BY <1>2, <1>9 DEF Promise!Next
<1>10. CASE \E id \in DOMAIN span_lookup : RemSpan(id)
  BY <1>3, <1>10 DEF Promise!Next
<1>11. CASE \E r \in Requests : AvailTimeFirst(r)
  BY <1>4, <1>11 DEF Promise!Next
<1>12. QED
  BY <1>5, <1>6, <1>7, <1>8, <1>9, <1>10, <1>11 DEF Next

\* The planner keeps its promise, whatever the total, the plan and the spans:
\* it books only what fits at every instant, and its iterations return, in
\* order and without omission, the earliest times that can be booked as asked.
\* (Callers keep their spans inside the plan, planner.h:42-43, and the search of
\* the min-time tree is exact.)
THEOREM PlannerKeepsItsPromise ==
    ASSUME ExactSearch, ~ MayOverrun
    PROVE  Spec => ImplementsCalendar
<1>1. Exact /\ IterationExact /\ [Next]_vars => [Promise!Next]_(Promise!vars)
  BY NextCalendar
<1>2. QED  BY <1>1, InitCalendar, StaysExact, PTL DEF Spec, ImplementsCalendar, Promise!Spec
=============================================================================
