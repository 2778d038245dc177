---------------------------- MODULE MCSubmission ----------------------------
(***************************************************************************)
(* Documents: every count with small numbers, every way to leave out, add  *)
(* or misplace a key, two levels of resources; candidates with ids in runs *)
(* and with gaps.                                                          *)
(***************************************************************************)
EXTENDS Submission

M(at) == [kind |-> "map", at |-> at]
S(items) == [kind |-> "seq", items |-> items]
I(v) == [kind |-> "int", v |-> v]
T(v) == [kind |-> "text", v |-> v]
Null == [kind |-> "null"]

WithKey(n, key, value) == M(key :> value @@ n.at)
Without(n, key) == M([k \in DOMAIN n.at \ {key} |-> n.at[key]])

Resource(type, number) == M("type" :> T(type) @@ "count" :> number)
Task == M("command" :> T("app") @@ "slot" :> T("a") @@ "count" :> M("per_slot" :> I(1)))
System(time) == M("system" :> M("duration" :> time))
Document(resources, attributes) ==
    M("version" :> I(1) @@ "resources" :> S(resources)
      @@ "tasks" :> S(<<Task>>) @@ "attributes" :> attributes)
Hour == System(I(3))

Verbose(min, max, oper, operand) ==
    M("min" :> I(min) @@ "max" :> I(max) @@ "operator" :> T(oper) @@ "operand" :> I(operand))
CountNodes ==
    {I(n) : n \in 0 .. 3}
    \cup {Verbose(min, max, oper, operand) :
            min \in 0 .. 3, max \in {0, 1, 2, 3, 5, 7}, oper \in {"+", "*", "^", "-"}, operand \in -1 .. 3}

Slot == WithKey(WithKey(Resource("slot", I(1)), "label", T("a")), "with", S(<<Resource("core", I(1))>>))
Node == WithKey(WithKey(Resource("node", I(1)), "exclusive", T("true")), "with", S(<<Slot>>))

Values == {I(1), T("true"), Null, S(<<>>), M("a" :> T("b"))}

\* A node changed at one key of the node's own or at another one.
Variants(n, more) ==
    {Without(n, key) : key \in Keys(n)}
    \cup {WithKey(n, key, value) : key \in Keys(n) \cup more, value \in Values}

Counts == Variants(Verbose(1, 2, "+", 1), {})
Cores == {Resource("core", c) : c \in Counts}
Slots ==
    Variants(Slot, {"unit", "exclusive", "id", "requires"})
    \cup {WithKey(Slot, "with", S(<<Resource("core", I(1)), n>>)) : n \in Cores \cup {Null}}
NodeVariants ==
    Variants(Node, {"unit", "label", "id", "requires"})
    \cup {WithKey(Node, "with", S(<<n>>)) : n \in Slots}
Tasks == Variants(Task, {"distribution", "attributes", "other"})
         \cup {WithKey(WithKey(WithKey(Task, "a", I(1)), "b", I(1)), "distribution", T("x"))}
Attributes ==
    {Null, T("none"), S(<<>>), M([key \in {} |-> Null]), M("user" :> M("a" :> T("b"))),
     M("system" :> Null), M("system" :> M([key \in {} |-> Null])), M("system" :> M("a" :> T("b"))),
     M("system" :> M("duration" :> S(<<>>)))}
    \cup {System(d) : d \in {I(n) : n \in -1 .. 8} \cup {T("soon")}}

Shapes ==
    {Document(<<n>>, Hour) : n \in NodeVariants}
    \cup {Document(<<Node, n>>, Hour) : n \in Cores}
    \cup {WithKey(Document(<<Node>>, Hour), "tasks", S(<<Task, n>>)) : n \in Tasks}
    \cup {Document(<<Resource("core", I(1))>>, a) : a \in Attributes}
    \cup {Document(<<>>, a) : a \in Attributes}
    \cup Variants(Document(<<Node>>, Hour), {"other"})
    \cup {WithKey(Document(<<Node>>, Hour), "version", I(2)), Null, T("a")}

\* Candidates of some ids: nodes and cores hold one each, pools two.
Group(id, size) == [score |-> id + 2, count |-> size]
Ordered(ids) == SelectSeq([i \in 1 .. 8 |-> i - 1], LAMBDA id : id \in ids)
Candidates(ids, size) == [i \in DOMAIN Ordered(ids) |-> Group(Ordered(ids)[i], size)]
Upto(n) == Candidates(0 .. n - 1, 1)
None == [type \in {} |-> <<>>]

CountSubmissions ==
    {[document |-> Document(<<Resource("core", c)>>, Hour), candidates |-> "core" :> Upto(n),
      policy |-> "high"] : c \in CountNodes, n \in 0 .. 8}

\* Quantities at the end of the word: 0 after a round, or small again.
WideSubmissions ==
    {[document |-> Document(<<Resource("memory", c)>>, Hour), candidates |-> "memory" :> Candidates(0 .. 7, 2),
      policy |-> "high"] :
        c \in {Verbose(16, 20, "^", 2), Verbose(15, 20, "^", 2), Verbose(8, 16, "*", 16),
               Verbose(10, 16, "*", 26), Verbose(10, 16, "+", 250), Verbose(5, 16, "+", 251),
               Verbose(1, 16, "+", 239), Verbose(1, 255, "*", 2)}}

ShapeSubmissions ==
    {[document |-> d, candidates |-> "node" :> Upto(1) @@ "core" :> Upto(n), policy |-> "low"] :
        d \in Shapes, n \in {0, 1}}

PolicySubmissions ==
    {[document |-> Document(<<Resource("memory", I(k)), Resource("core", I(2))>>, Hour),
      candidates |-> "memory" :> Candidates(ids, 2) @@ "core" :> Candidates({0, 2, 3}, 1),
      policy |-> p] :
        k \in 1 .. 5, ids \in SUBSET (0 .. 5), p \in {"high", "low", "locality"}}

AllSubmissions == CountSubmissions \cup WideSubmissions \cup ShapeSubmissions \cup PolicySubmissions

EmptyAttributes ==
    {[document |-> Document(<<Resource("core", I(1))>>, a), candidates |-> None, policy |-> "high"] :
        a \in {Hour, Null, M([key \in {} |-> Null])}}

-----------------------------------------------------------------------------
(* The nodes of the documents. *)

RECURSIVE NodesOf(_)
NodesOf(n) == {n} \cup UNION {NodesOf(m) : m \in Parts(n)}

RECURSIVE HeightOf(_)
HeightOf(n) == 1 + Max({0} \cup {HeightOf(m) : m \in Parts(n)})

Heights(submissions) == [n \in UNION {NodesOf(s.document) : s \in submissions} |-> HeightOf(n)]

\* TLC evaluates once what a configuration does not name.
OfAll == Heights(AllSubmissions)
OfFew == Heights(EmptyAttributes)
AllHeights == OfAll
FewHeights == OfFew
=============================================================================
