----------------------------- MODULE ResourceGen -----------------------------
(***************************************************************************)
(* resource_gen.cpp: the depth-first search over a recipe graph whose      *)
(* visitor, dfs_emitter_t, builds the resource graph.  A recipe is a       *)
(* record [vertices, edges] of sequences with the fields of                *)
(* resource_pool_gen_t, and of relation_gen_t with src and tgt.            *)
(*                                                                         *)
(* A name is a pair <<basename, id>>, with NoId for none; a path is the    *)
(* sequence of the names on it, and a path that is not there is empty, as  *)
(* paths[...] makes it.  The vertices of type t in by_type are those of    *)
(* db.vertices of that type, in their order.                               *)
(***************************************************************************)
EXTENDS Loops, FiniteSets, SequencesExt

VARIABLES
    recipe,
    color,           \* the recipe vertices that are not white
    stack,           \* the recipe vertices being visited, [at, next], the last first
    m_gen_src_vtx,   \* of recipe vertices, the resource vertices they stand for
    m_hier_scales,   \* a stack of scales
    db,              \* [vertices, edges, out, roots]
    m_err_msg        \* whether the visitor has noted an error

gen == <<recipe, color, stack, m_gen_src_vtx, m_hier_scales, db, m_err_msg>>

NoId == -1

\* A recipe graph that can be read.  Every pool has a type, so that none is
\* taken for a vertex left blank, and a size.
IsRecipe(r) ==
    /\ r.vertices \in Seq(Range(r.vertices)) /\ r.edges \in Seq(Range(r.edges))
    /\ \A u \in DOMAIN r.vertices : r.vertices[u].type # "" /\ r.vertices[u].size \in Nat \ {0}
    /\ \A e \in Range(r.edges) :
        /\ {e.src, e.tgt} \subseteq DOMAIN r.vertices
        /\ {e.id_scope, e.id_start, e.id_stride, e.multi_scale, e.as_tgt_uplvl, e.as_src_uplvl} \subseteq Int

EmptyDb == [vertices |-> <<>>, edges |-> NoMap, out |-> <<>>, roots |-> NoMap]

InitGen ==
    /\ color = {} /\ stack = <<>> /\ m_err_msg = FALSE
    /\ m_gen_src_vtx = NoMap /\ m_hier_scales = <<>>
    /\ db = EmptyDb

SourcesOf(u) == IF u \in DOMAIN m_gen_src_vtx THEN m_gen_src_vtx[u] ELSE <<>>

-----------------------------------------------------------------------------
(* The graph database: operators take the database and return it changed. *)

Blank == [type |-> "", size |-> 0, id |-> NoId, name |-> <<"", NoId>>, paths |-> NoMap, member_of |-> NoMap]

\* add_vertex
Added(d, v) == [d EXCEPT !.vertices = Append(@, v), !.out = Append(@, <<>>)]
Newest(d) == Len(d.vertices)

PathIn(d, v, subsystem) ==
    IF subsystem \in DOMAIN d.vertices[v].paths THEN d.vertices[v].paths[subsystem] ELSE <<>>

\* raw_edge: the edge there is, or else a new one.
RawEdge(d, a, b) ==
    IF b \in Range(d.out[a]) THEN d
    ELSE [d EXCEPT !.out[a] = Append(@, b), !.edges = Put(@, <<a, b>>, NoMap)]

Related(d, a, b, subsystem, relation) ==
    [RawEdge(d, a, b) EXCEPT !.edges[<<a, b>>] = Put(@, subsystem, relation)]

\* Faulty: no edge back.
EmitDown(d, e, a, b) == Related(d, a, b, e.e_subsystem, e.relation)

EmitEdges(d, e, a, b) ==
    Of(LAMBDA down : Related(down, b, a, e.e_subsystem, e.rrelation),
       Related(d, a, b, e.e_subsystem, e.relation))

\* Faulty: the scales of the levels in the scope are added up.
ScalesAdded(e, i, sz, j) ==
    IF e.id_scope < 0 THEN NoId
    ELSE e.id_start + i + (j % (1 + FoldLeft(LAMBDA a, b : a + b, 0, m_hier_scales))) * sz

\* gen_id
GenId(e, i, sz, j) ==
    LET scope == Min({e.id_scope, Len(m_hier_scales)})
        wrap  == Product(SubSeq(m_hier_scales, 1, scope))
    IN  CASE e.id_scope < 0 -> NoId
          [] e.id_scope = 0 -> e.id_start + i
          [] e.id_scope > 0 -> e.id_start + (j % wrap) * sz * e.id_stride + i * e.id_stride

\* What emit_vertex fills in, below "path".
Emitted(u, id, path) ==
    LET pool == recipe.vertices[u]
    IN  [type |-> pool.type, size |-> pool.size, id |-> id, name |-> <<pool.basename, id>>,
         paths |-> Put(NoMap, pool.subsystem, Append(path, <<pool.basename, id>>)),
         member_of |-> Put(NoMap, pool.subsystem, "*")]

\* emit_vertex for a root that is not there yet.
EmitRoot(d, u) ==
    [Added(d, Emitted(u, 0, <<>>)) EXCEPT !.roots = Put(@, recipe.vertices[u].subsystem, Newest(d) + 1)]

\* emit_vertex below "src": add_vertex is called twice, and the first of the
\* two vertices stays blank.
EmitBelow(d, u, e, src, i, j) ==
    Of(LAMBDA id : Added(Added(d, Blank), Emitted(u, id, PathIn(d, src, recipe.vertices[u].subsystem))),
       GenId(e, i, e.multi_scale, j))

\* Faulty: one level too many is left of the path.
PathPrefixLong(path, uplevel) ==
    IF uplevel >= Len(path) THEN <<>> ELSE SubSeq(path, 1, Min({Len(path), Len(path) - uplevel + 1}))

\* path_prefix; where it fails the prefix stays empty, and both sides of a
\* comparison may.
PathPrefix(path, uplevel) ==
    IF uplevel >= Len(path) THEN <<>> ELSE SubSeq(path, 1, Min({Len(path), Len(path) - uplevel}))

\* What an association changes; the visit then goes on from the target.
Associated(d, e, src, tgt) ==
    Of(LAMBDA joined : EmitEdges(joined, e, src, tgt),
       [d EXCEPT !.vertices[tgt].paths =
                    Put(@, e.e_subsystem, Append(PathIn(d, src, e.e_subsystem), d.vertices[tgt].name)),
                 !.vertices[tgt].member_of = Put(@, e.e_subsystem, "*")])

ByType(d, type) == Where(LAMBDA v : d.vertices[v].type = type, [v \in DOMAIN d.vertices |-> v])

-----------------------------------------------------------------------------
(* tree_edge: of every method, the database and what the target stands for. *)

Made(d) == [db |-> d, made |-> <<>>]

\* The k-th target, which is below a source of its own.
MultiplyStep(e, sources, m, k) ==
    LET src == sources[k \div e.multi_scale + 1]
    IN  Of(LAMBDA below : [db |-> EmitEdges(below, e, src, Newest(below)),
                           made |-> Append(m.made, Newest(below))],
           EmitBelow(m.db, e.tgt, e, src, k % e.multi_scale, k \div e.multi_scale))

Multiplied(d, e, sources) ==
    Folded(LAMBDA m, k : MultiplyStep(e, sources, m, k),
           Made(d), [n \in 1 .. Len(sources) * e.multi_scale |-> n - 1])

\* Whether an association takes this target for the source.
Takes(d, e, src, tgt) ==
    \/ e.gen_method = "ASSOCIATE_IN"
    \/ PathPrefix(PathIn(d, tgt, e.as_tgt_subsystem), e.as_tgt_uplvl)
         = PathPrefix(PathIn(d, src, e.as_tgt_subsystem), e.as_src_uplvl)

AssociateStep(e, src, m, tgt) ==
    IF Takes(m.db, e, src, tgt)
    THEN [db |-> Associated(m.db, e, src, tgt), made |-> Append(m.made, tgt)] ELSE m

AssociateSource(e, m, src) ==
    Folded(LAMBDA n, tgt : AssociateStep(e, src, n, tgt), m, ByType(m.db, recipe.vertices[e.tgt].type))

AssociatedAll(d, e, sources) == Folded(LAMBDA m, src : AssociateSource(e, m, src), Made(d), sources)

\* A root is emitted with its first tree edge.
Rooted(e) ==
    IF recipe.vertices[e.src].root /\ SourcesOf(e.src) = <<>>
    THEN IF recipe.vertices[e.src].subsystem \in DOMAIN db.roots
         THEN [db |-> db, made |-> <<db.roots[recipe.vertices[e.src].subsystem]>>]
         ELSE [db |-> EmitRoot(db, e.src), made |-> <<Newest(db) + 1>>]
    ELSE [db |-> db, made |-> SourcesOf(e.src)]

GenMethods == {"MULTIPLY", "ASSOCIATE_IN", "ASSOCIATE_BY_PATH_IN"}

Generated(e, from) ==
    CASE e.gen_method = "MULTIPLY" -> Multiplied(from.db, e, from.made)
      [] e.gen_method \in {"ASSOCIATE_IN", "ASSOCIATE_BY_PATH_IN"} -> AssociatedAll(from.db, e, from.made)
      [] e.gen_method \notin GenMethods -> Made(from.db)

-----------------------------------------------------------------------------
(* depth_first_search *)

OutEdges(u) == Where(LAMBDA e : e.src = u, recipe.edges)

Searched == stack = <<>> /\ color = DOMAIN recipe.vertices

\* The next white vertex, in the order of the recipe.
StartVertex ==
    /\ stack = <<>> /\ ~Searched
    /\ \E u \in {Min(DOMAIN recipe.vertices \ color)} :
        color' = color \cup {u} /\ stack' = <<[at |-> u, next |-> 1]>>
    /\ UNCHANGED <<recipe, m_gen_src_vtx, m_hier_scales, db, m_err_msg>>

Top == Head(stack)
NextEdge == OutEdges(Top.at)[Top.next]
Advanced == <<[Top EXCEPT !.next = @ + 1]>> \o Tail(stack)

\* An edge to a white vertex.
TreeEdge ==
    /\ stack # <<>> /\ Top.next <= Len(OutEdges(Top.at)) /\ NextEdge.tgt \notin color
    /\ \E e \in {NextEdge} :
        /\ \E from \in {Rooted(e)} : \E to \in {Generated(e, from)} :
            /\ db' = to.db
            /\ m_gen_src_vtx' = Put(Put(m_gen_src_vtx, e.src, from.made), e.tgt, to.made)
        /\ m_hier_scales' = IF e.gen_method = "MULTIPLY" THEN <<e.multi_scale>> \o m_hier_scales ELSE m_hier_scales
        /\ m_err_msg' = (m_err_msg \/ e.gen_method \notin GenMethods)
        /\ color' = color \cup {e.tgt}
        /\ stack' = <<[at |-> e.tgt, next |-> 1]>> \o Advanced
    /\ UNCHANGED recipe

\* An edge to any other: the visitor is not told.
OtherEdge ==
    /\ stack # <<>> /\ Top.next <= Len(OutEdges(Top.at)) /\ NextEdge.tgt \in color
    /\ stack' = Advanced
    /\ UNCHANGED <<recipe, color, m_gen_src_vtx, m_hier_scales, db, m_err_msg>>

\* Faulty: the scale of the finished level stays.
FinishLevel ==
    /\ stack # <<>> /\ Top.next > Len(OutEdges(Top.at))
    /\ stack' = Tail(stack)
    /\ UNCHANGED <<recipe, color, m_gen_src_vtx, m_hier_scales, db, m_err_msg>>

\* finish_vertex drops a scale, whether or not the vertex had brought one.
FinishVertex ==
    /\ stack # <<>> /\ Top.next > Len(OutEdges(Top.at))
    /\ stack' = Tail(stack)
    /\ m_hier_scales' = IF m_hier_scales = <<>> THEN <<>> ELSE Tail(m_hier_scales)
    /\ UNCHANGED <<recipe, color, m_gen_src_vtx, db, m_err_msg>>

SearchStep == StartVertex \/ TreeEdge \/ OtherEdge \/ FinishVertex
=============================================================================
