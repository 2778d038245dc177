------------------------------- MODULE Startup -------------------------------
(***************************************************************************)
(* main() of resource-query.cpp, from the options to the file it leaves:   *)
(* the resource graph is generated, the matcher's subsystems are selected, *)
(* the traverser primes the subtree plans of the graph they select, and    *)
(* the prompt reads commands.  What a match or a cancel does to the graph  *)
(* is in module ResourceQuery; here it matters whether the prompt returns. *)
(***************************************************************************)
EXTENDS ResourceGen

CONSTANTS
    Files,    \* the recipes that can be read, by file name
    Params    \* records [grug, matcher_name, matcher_policy, o_format, o_fname, r_fname, lines]

ASSUME FilesAssumption == \A f \in DOMAIN Files : IsRecipe(Files[f])
ASSUME ParamsAssumption ==
    \A p \in Params :
        DOMAIN p = {"grug", "matcher_name", "matcher_policy", "o_format", "o_fname", "r_fname", "lines"}

VARIABLES
    stage,        \* how far main has come, or how it has ended
    params,       \* ctx->params, with the lines that will be typed
    subsystems,   \* of the matcher, the pairs <<subsystem, relation>> in order
    subplans,     \* of resource vertices, the total of the dominant subsystem's subplan
    written       \* the graph in the output file

vars == <<gen, stage, params, subsystems, subplans, written>>

Stopped == {"ended", "failed", "aborted", "undefined"}
NoGraph == [ext |-> "", vertices |-> {}, edges |-> {}]

Init ==
    /\ InitGen /\ recipe = [vertices |-> <<>>, edges |-> <<>>]
    /\ stage = "options" /\ params \in Params
    /\ subsystems = <<>> /\ subplans = NoMap /\ written = NoGraph

Goto(next) == stage' = next

-----------------------------------------------------------------------------
(* The options, the policy and the file of the recipe. *)

Formats == {"dot", "graphml"}   \* string_to_graph_format and graph_format_to_ext
MatchPolicies == {"high", "low", "locality"}

Sound ==
    params.o_format \in Formats /\ params.matcher_policy \in MatchPolicies /\ params.grug \in DOMAIN Files

ReadOptions ==
    /\ stage = "options" /\ Sound
    /\ recipe' = Files[params.grug] /\ Goto("generate")
    /\ UNCHANGED <<color, stack, m_gen_src_vtx, m_hier_scales, db, m_err_msg,
                   params, subsystems, subplans, written>>

GiveUp ==
    /\ stage = "options" /\ ~Sound /\ Goto("failed")
    /\ UNCHANGED <<gen, params, subsystems, subplans, written>>

\* The search works on a copy of the visitor, so that m_err_msg is lost.
Generate ==
    /\ stage = "generate" /\ SearchStep
    /\ UNCHANGED <<stage, params, subsystems, subplans, written>>

-----------------------------------------------------------------------------
(* set_subsystems_use: of every matcher the subsystems it asks for, in     *)
(* their order.  One that is not there stops those after it, but not the   *)
(* power subsystem of C+P+IBA and of ALL, whose result replaces it.        *)

Rows(name) ==
    CASE name = "CA" -> <<<<"containment", "*">>>>
      [] name = "IBA" -> <<<<"ibnet", "*">>>>
      [] name = "IBBA" -> <<<<"ibnetbw", "*">>>>
      [] name = "PFS1BA" -> <<<<"pfs1bw", "*">>>>
      [] name = "PA" -> <<<<"power", "*">>>>
      [] name = "C+PFS1BA" -> <<<<"containment", "contains">>, <<"pfs1bw", "*">>>>
      [] name = "C+IBA" -> <<<<"containment", "contains">>, <<"ibnet", "connected_up">>>>
      [] name = "C+PA" -> <<<<"containment", "*">>, <<"power", "draws_from">>>>
      [] name = "IB+IBBA" -> <<<<"ibnet", "connected_down">>, <<"ibnetbw", "*">>>>
      [] name = "C+P+IBA" -> <<<<"containment", "contains">>, <<"power", "draws_from">>, <<"ibnet", "connected_up">>>>
      [] name = "V+PFS1BA" -> <<<<"virtual1", "*">>, <<"pfs1bw", "*">>>>
      [] name = "VA" -> <<<<"virtual1", "*">>>>
      [] name = "ALL" -> <<<<"containment", "*">>, <<"ibnet", "*">>, <<"ibnetbw", "*">>, <<"pfs1bw", "*">>, <<"power", "*">>>>
      [] OTHER -> <<>>

Masking == {"C+P+IBA", "ALL"}
Found(row) == row[1] \in DOMAIN db.roots

\* Faulty: no row depends on the one before it.
Unguarded(name, row) == FALSE

\* Whether this row is skipped where the result so far is an error.
Guarded(name, row) == ~(name \in Masking /\ Rows(name)[row][1] = "power")

SelectRow(name, s, row) ==
    IF s.rc # 0 /\ Guarded(name, row) THEN s
    ELSE IF Found(Rows(name)[row])
         THEN [rc |-> 0, rows |-> Append(s.rows, Rows(name)[row])]
         ELSE [s EXCEPT !.rc = -1]

Selection(name) ==
    Folded(LAMBDA s, row : SelectRow(name, s, row),
           [rc |-> IF Rows(name) = <<>> THEN -1 ELSE 0, rows |-> <<>>],
           [row \in DOMAIN Rows(name) |-> row])

SetSubsystemsUse ==
    /\ stage = "generate" /\ Searched
    /\ \E selection \in {Selection(params.matcher_name)} :
        /\ subsystems' = selection.rows
        /\ Goto(IF selection.rc # 0 THEN "failed"
                ELSE IF params.r_fname = "unwritable" THEN "aborted" ELSE "initialize")
    /\ UNCHANGED <<gen, params, subplans, written>>

-----------------------------------------------------------------------------
(* The graph the matcher sees: subsystem_selector_t of its vertices and of *)
(* its edges.                                                              *)

\* Faulty: what belongs to no subsystem at all is let through.
SelectsStray(member_of) ==
    \/ DOMAIN member_of = {}
    \/ \E row \in Range(subsystems) :
          row[1] \in DOMAIN member_of /\ (member_of[row[1]] = "*" \/ row[2] \in {"*", member_of[row[1]]})

Selects(member_of) ==
    \E row \in Range(subsystems) :
        row[1] \in DOMAIN member_of /\ (member_of[row[1]] = "*" \/ row[2] \in {"*", member_of[row[1]]})

SelectsVertex(v) == Selects(db.vertices[v].member_of)
SelectsEdge(v, w) == SelectsVertex(v) /\ SelectsVertex(w) /\ Selects(db.edges[<<v, w>>])
Dominant == subsystems[1][1]

InSubsystem(v, w, s) == SelectsEdge(v, w) /\ s \in DOMAIN db.edges[<<v, w>>]

\* accum_if: only cores are aggregated, and only in the dominant subsystem.
\* Sizes are positive, so that a sum of 0 is an aggregate of no type.
Counts(v) == IF db.vertices[v].type = "core" THEN db.vertices[v].size ELSE 0

\* Faulty: a vertex counts the cores below a second time.
PrimedTwice(v, below) ==
    [below EXCEPT !.plans = IF below.sum = 0 THEN @ ELSE Put(@, v, below.sum), !.sum = Counts(v) + @ + @]

\* prime of a vertex once its out edges are explored.
PrimedVertex(v, below) ==
    [below EXCEPT !.plans = IF below.sum = 0 THEN @ ELSE Put(@, v, below.sum), !.sum = Counts(v) + @]

\* prime_exp, for one out edge.
PrimeStep(prime, v, below, w) ==
    IF w \in below.seen \/ ~InSubsystem(v, w, Dominant) THEN below
    ELSE Of(LAMBDA r : [seen |-> r.seen, plans |-> Over(r.plans, below.plans), sum |-> below.sum + r.sum],
            prime[<<w, below.seen>>])

\* prime, at a vertex and with those that have been visited: who has been by
\* then, the subplans made, and what the one above counts.
Primed(root) ==
    LET prime[c \in (DOMAIN db.vertices) \X SUBSET DOMAIN db.vertices] ==
            PrimedVertex(c[1], Folded(LAMBDA below, w : PrimeStep(prime, c[1], below, w),
                                      [seen |-> c[2] \cup {c[1]}, plans |-> NoMap, sum |-> 0], db.out[c[1]]))
    IN  prime[<<root, {}>>]

\* initialize(): in a subsystem that is not the dominant one prime does nothing.
Initialize ==
    /\ stage = "initialize"
    /\ subplans' = Primed(db.roots[Dominant]).plans
    /\ Goto("prompt")
    /\ UNCHANGED <<gen, params, subsystems, written>>

-----------------------------------------------------------------------------
(* control_loop; a line is the sequence of its words. *)

Abbr == [match |-> "m", cancel |-> "c", list |-> "l", info |-> "i", cat |-> "a", help |-> "h", quit |-> "q"]

\* Faulty: abbreviations are not looked at.
FindName(line) == IF line = <<>> THEN {} ELSE {c \in DOMAIN Abbr : line[1] = c}

\* find_cmd
FindCmd(line) == IF line = <<>> THEN {} ELSE {c \in DOMAIN Abbr : line[1] \in {c, Abbr[c]}}

\* A match that has to reserve looks for the root's subplan, and where there
\* is none subplans.at throws; but a request for the type of the root has
\* then put a null plan there, for which no time is found.
MayAbort(line) ==
    /\ FindCmd(line) = {"match"} /\ Len(line) = 3 /\ line[2] = "allocate_orelse_reserve"
    /\ db.roots[Dominant] \notin DOMAIN subplans

\* cat reads its second word, whether or not there is one.
ReadsPastEnd(line) == FindCmd(line) = {"cat"} /\ Len(line) = 1

Command ==
    /\ stage = "prompt" /\ params.lines # <<>>
    /\ params' = [params EXCEPT !.lines = Tail(@)]
    /\ \E line \in {Head(params.lines)} :
        \/ Goto(IF FindCmd(line) = {"quit"} THEN "close" ELSE "prompt")
        \/ MayAbort(line) /\ Goto("aborted")
        \/ ReadsPastEnd(line) /\ Goto("undefined")
    /\ UNCHANGED <<gen, subsystems, subplans, written>>

\* At the end of the input readline returns NULL, and the loop goes on.
EndOfInput == stage = "prompt" /\ params.lines = <<>> /\ UNCHANGED vars

\* write_to_graph
Close ==
    /\ stage = "close"
    /\ written' = IF params.o_fname = "" THEN NoGraph
                  ELSE [ext |-> params.o_format,
                        vertices |-> {v \in DOMAIN db.vertices : SelectsVertex(v)},
                        edges |-> {e \in DOMAIN db.edges : SelectsEdge(e[1], e[2])}]
    /\ Goto("ended")
    /\ UNCHANGED <<gen, params, subsystems, subplans>>

Next == ReadOptions \/ GiveUp \/ Generate \/ SetSubsystemsUse \/ Initialize \/ Command \/ EndOfInput \/ Close

Spec == Init /\ [][Next]_vars /\ WF_vars(Next)

-----------------------------------------------------------------------------
(* Properties *)

\* Where v is in the tree of a subsystem whose edges all multiply: there a
\* vertex is made after the one above it.  0 is above the root.
Parents(s, v) == {u \in 1 .. v - 1 : <<u, v>> \in DOMAIN db.edges /\ s \in DOMAIN db.edges[<<u, v>>]}

Above(s, v, levels) ==
    LET up[n \in 0 .. levels] ==
            IF n = 0 THEN v
            ELSE IF Parents(s, up[n - 1]) = {} THEN 0 ELSE CHOOSE u \in Parents(s, up[n - 1]) : TRUE
    IN  up[levels]

Into(u) == {e \in Range(recipe.edges) : e.tgt = u}
Multiplies(s) == \A e \in Range(recipe.edges) : e.e_subsystem = s => e.gen_method = "MULTIPLY"

\* Every recipe vertex has one edge into it, of its own subsystem and of the
\* subsystem of the vertex before it, and no other vertex has its type there.
Regular ==
    /\ \A u \in DOMAIN recipe.vertices : Cardinality(Into(u)) = IF recipe.vertices[u].root THEN 0 ELSE 1
    /\ \A e \in Range(recipe.edges) :
          {recipe.vertices[e.src].subsystem, recipe.vertices[e.tgt].subsystem} = {e.e_subsystem}
    /\ \A u, w \in DOMAIN recipe.vertices :
          <<recipe.vertices[u].type, recipe.vertices[u].subsystem>>
            = <<recipe.vertices[w].type, recipe.vertices[w].subsystem>> => u = w

\* The state has its type; and there is never a scale without a recipe vertex
\* that is being visited.
TypeOK ==
    /\ stage \in Stopped \cup {"options", "generate", "initialize", "prompt", "close"}
    /\ \E p \in Params : [p EXCEPT !.lines = <<>>] = [params EXCEPT !.lines = <<>>]
    /\ color \subseteq DOMAIN recipe.vertices
    /\ \A level \in Range(stack) : level.at \in color /\ level.next \in 1 .. Len(OutEdges(level.at)) + 1
    /\ Len(m_hier_scales) <= Len(stack)
    /\ Len(db.out) = Len(db.vertices)
    /\ DOMAIN db.edges = UNION {{<<v, w>> : w \in Range(db.out[v])} : v \in DOMAIN db.vertices}
    /\ Range(db.roots) \cup DOMAIN subplans \subseteq DOMAIN db.vertices

\* In a recipe that only multiplies, ids are numbered within the ancestor that
\* id_scope names: those below one such ancestor start at id_start, are
\* id_stride apart (1 for scope 0) and none is used twice, however often the
\* search came back from other branches (gen_id and its stack of scales).
IdsLocalToScope ==
    (Searched /\ Regular) =>
        \A e \in {x \in Range(recipe.edges) : x.id_scope >= 0 /\ Multiplies(x.e_subsystem)} :
        \A v \in Range(SourcesOf(e.tgt)) :
            LET scope(w) == Above(e.e_subsystem, w, e.id_scope + 1)
                peers == {w \in Range(SourcesOf(e.tgt)) : scope(w) = scope(v)}
                stride == IF e.id_scope = 0 THEN 1 ELSE e.id_stride
            IN  {db.vertices[w].id : w \in peers}
                  = {e.id_start + k * stride : k \in 0 .. Cardinality(peers) - 1}

\* Whatever the ways of generation, an edge has its edge back in the same
\* subsystems, and the path of a vertex is that of a vertex with an edge to
\* it, and its own name; only a root's path is its name alone.
PathsFollowEdges ==
    (Searched /\ Regular) =>
        /\ \A e \in DOMAIN db.edges :
              <<e[2], e[1]>> \in DOMAIN db.edges /\ DOMAIN db.edges[<<e[2], e[1]>>] = DOMAIN db.edges[e]
        /\ \A v \in DOMAIN db.vertices : \A s \in DOMAIN db.vertices[v].paths :
              LET path == PathIn(db, v, s) IN
              /\ Last(path) = db.vertices[v].name
              /\ \/ path = <<db.vertices[v].name>> /\ s \in DOMAIN db.roots /\ db.roots[s] = v
                 \/ \E u \in DOMAIN db.vertices :
                      /\ <<u, v>> \in DOMAIN db.edges /\ s \in DOMAIN db.edges[<<u, v>>]
                      /\ PathIn(db, u, s) = Front(path)

\* ASSOCIATE_BY_PATH_IN relates a source to exactly the vertices of the type
\* whose ancestor, as many levels up as the recipe says, is the source's,
\* where both have so many levels: comparing prefixes of paths is as good as
\* comparing vertices, as long as no two vertices have one path.
AssociatedByAncestor ==
    (Searched /\ Regular) =>
        \A e \in {x \in Range(recipe.edges) : x.gen_method = "ASSOCIATE_BY_PATH_IN"} :
            LET in == e.as_tgt_subsystem
                placed == {v \in DOMAIN db.vertices : PathIn(db, v, in) # <<>>}
            IN  (Multiplies(in) /\ \A v, w \in placed : PathIn(db, v, in) = PathIn(db, w, in) => v = w) =>
                \A src \in placed \cap Range(SourcesOf(e.src)) :
                \A tgt \in placed \cap Range(ByType(db, recipe.vertices[e.tgt].type)) :
                    (e.as_src_uplvl < Len(PathIn(db, src, in)) /\ e.as_tgt_uplvl < Len(PathIn(db, tgt, in))) =>
                        (Above(in, src, e.as_src_uplvl) = Above(in, tgt, e.as_tgt_uplvl)
                          <=> <<src, tgt>> \in DOMAIN db.edges /\ e.e_subsystem \in DOMAIN db.edges[<<src, tgt>>])

\* The subplan of a vertex totals the cores below it, whatever relations the
\* matcher selects, and there is none where there is no core below.
SubplansCountBelow ==
    (stage = "prompt" /\ Regular /\ Multiplies(Dominant)) =>
        \A v \in {u \in DOMAIN db.vertices : PathIn(db, u, Dominant) # <<>>} :
            LET below == {w \in DOMAIN db.vertices :
                            \E n \in 1 .. Len(PathIn(db, w, Dominant)) : Above(Dominant, w, n) = v}
            IN  MapThenSumSet(Counts, below) = IF v \in DOMAIN subplans THEN subplans[v] ELSE 0

\* A session has what the matcher's name says: unless the matcher is one of
\* the two whose power subsystem hides an error, no subsystem of it is
\* missing; and the dominant one always has a root, which initialize, run and
\* schedule take for granted.
SubsystemsFound ==
    stage \in {"initialize", "prompt", "close", "ended"} =>
        /\ subsystems # <<>> /\ \A row \in Range(subsystems) : Found(row)
        /\ params.matcher_name \in Masking \/ subsystems = Rows(params.matcher_name)

\* The vertices that emit_vertex leaves blank are seen by no one: not by the
\* plans and not in the file; nor is an edge without its ends.
OrphansHidden ==
    /\ \A v \in DOMAIN subplans \cup written.vertices : db.vertices[v].type # ""
    /\ \A e \in written.edges : {e[1], e[2]} \subseteq written.vertices

\* Whatever the recipe, and a cycle is one, a program that will be told to
\* quit, in a word or by a letter, ends.
Ends == (\E k \in DOMAIN params.lines : params.lines[k] \in {<<"quit">>, <<"q">>}) ~> stage \in Stopped
=============================================================================
