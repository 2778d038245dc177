------------------------------ MODULE MCStartup ------------------------------
(***************************************************************************)
(* Recipes: chains of three levels with every scope, with starts, strides  *)
(* and a second branch; one in the manner of conf/mini-5subsystems-fine,   *)
(* with associations of both kinds; one whose power subsystem stands       *)
(* alone; and recipes that are odd but can be read.                        *)
(***************************************************************************)
EXTENDS Startup

Pool(type, subsystem) ==
    [root |-> FALSE, type |-> type, basename |-> type, size |-> 1, subsystem |-> subsystem]
Root(type, subsystem) == [Pool(type, subsystem) EXCEPT !.root = TRUE]

Multiply(src, tgt, scale) ==
    [src |-> src, tgt |-> tgt, e_subsystem |-> "containment", relation |-> "contains", rrelation |-> "in",
     id_scope |-> 0, id_start |-> 0, id_stride |-> 1, gen_method |-> "MULTIPLY", multi_scale |-> scale,
     as_tgt_subsystem |-> "containment", as_tgt_uplvl |-> 1, as_src_uplvl |-> 1]
Numbered(e, scope, start, stride) ==
    [e EXCEPT !.id_scope = scope, !.id_start = start, !.id_stride = stride]
Associate(src, tgt, subsystem, down, up) ==
    [Multiply(src, tgt, 1) EXCEPT !.gen_method = "ASSOCIATE_IN", !.e_subsystem = subsystem,
                                  !.relation = down, !.rrelation = up]
ByPath(e, tgt_uplvl, src_uplvl) ==
    [e EXCEPT !.gen_method = "ASSOCIATE_BY_PATH_IN", !.as_tgt_uplvl = tgt_uplvl, !.as_src_uplvl = src_uplvl]

Recipe(vertices, edges) == [vertices |-> vertices, edges |-> edges]

\* cluster[1] -> rack[2] -> node[racks'] -> core[2] and memory[1] of size 4.
Chain(scope, start, stride) ==
    Recipe(<<Root("cluster", "containment"), Pool("rack", "containment"), Pool("node", "containment"),
             [Pool("core", "containment") EXCEPT !.size = 2],
             [Pool("memory", "containment") EXCEPT !.size = 4]>>,
           <<Multiply(1, 2, 2), Numbered(Multiply(2, 3, 3), scope, start, stride),
             Numbered(Multiply(3, 5, 1), scope, start, stride),
             Numbered(Multiply(3, 4, 2), scope, start, stride)>>)

\* Racks of nodes with switches and power, and the subsystems ibnet and power over them.
Mini(tgt_uplvl, src_uplvl, rack_scope) ==
    Recipe(<<Root("cluster", "containment"), Pool("rack", "containment"), Pool("node", "containment"),
             Pool("edgeswitch", "containment"), Pool("pdu", "containment"), Pool("core", "containment"),
             Root("ibnet", "ibnet"), Pool("coreswitch", "ibnet"), Pool("edgeswitch", "ibnet"),
             Pool("node", "ibnet"),
             Root("powerpanel", "power"), Pool("pdu", "power"), Pool("node", "power")>>,
           <<Numbered(Multiply(1, 2, 2), rack_scope, 0, 1), Multiply(2, 3, 2), Multiply(2, 4, 1),
             Multiply(2, 5, 1), Multiply(3, 6, 2),
             [Multiply(7, 8, 1) EXCEPT !.e_subsystem = "ibnet", !.relation = "connected_down",
                                       !.rrelation = "connected_up"],
             Associate(8, 9, "ibnet", "connected_down", "connected_up"),
             ByPath(Associate(9, 10, "ibnet", "connected_down", "connected_up"), 1, 1),
             Associate(11, 12, "power", "supplies_to", "draws_from"),
             ByPath(Associate(12, 13, "power", "supplies_to", "draws_from"), tgt_uplvl, src_uplvl)>>)

\* The power subsystem alone, as in a recipe that knows nothing else.
Power ==
    Recipe(<<Root("powerpanel", "power"), Pool("power", "power")>>,
           <<[Multiply(1, 2, 3) EXCEPT !.e_subsystem = "power", !.relation = "supplies_to",
                                       !.rrelation = "draws_from"]>>)

\* Odd ones: a cycle with an edge forward, a method nobody knows, a vertex
\* listed before the one above it, an association that comes first, and one
\* root of a subsystem too many.
Odd ==
    <<Recipe(<<Root("cluster", "containment"), Pool("node", "containment"), Pool("core", "containment")>>,
             <<Multiply(1, 2, 2), Multiply(2, 3, 1), Multiply(3, 2, 2), Multiply(1, 3, 2), Multiply(3, 1, 1)>>),
      Recipe(<<Root("cluster", "containment"), Pool("node", "containment"), Pool("core", "containment")>>,
             <<[Multiply(1, 2, 2) EXCEPT !.gen_method = "DIVIDE"], Multiply(2, 3, 1)>>),
      Recipe(<<Pool("core", "containment"), Pool("node", "containment"), Root("cluster", "containment")>>,
             <<Multiply(3, 2, 2), Multiply(2, 1, 1)>>),
      Recipe(<<Root("powerpanel", "power"), Pool("node", "power"), Root("cluster", "containment"),
               Pool("node", "containment")>>,
             <<Associate(1, 2, "power", "supplies_to", "draws_from"), Multiply(3, 4, 2)>>),
      Recipe(<<Root("cluster", "containment"), Pool("node", "containment"), Root("other", "containment"),
               Pool("core", "containment")>>,
             <<Multiply(1, 2, 2), Numbered(Multiply(3, 4, 2), 2, 0, 1)>>),
      Recipe(<<Root("cluster", "containment")>>, <<>>)>>

Numbers == {<<scope, 1, 2>> : scope \in -1 .. 4} \cup {<<1, 0, 1>>, <<2, 5, 1>>}
Uplevels == {<<t, s, r>> : t \in 0 .. 2, s \in 0 .. 2, r \in {0}} \cup {<<1, 1, -1>>, <<3, 3, 0>>}

FilesOf ==
    [f \in ({"chain"} \X Numbers) \cup ({"mini"} \X Uplevels) \cup ({"odd"} \X DOMAIN Odd) \cup {<<"power">>} |->
        CASE f[1] = "chain" -> Chain(f[2][1], f[2][2], f[2][3])
          [] f[1] = "mini" -> Mini(f[2][1], f[2][2], f[2][3])
          [] f[1] = "odd" -> Odd[f[2]]
          [] f[1] = "power" -> Power]

Default ==
    [grug |-> <<"chain", <<1, 0, 1>>>>, matcher_name |-> "CA", matcher_policy |-> "high",
     o_format |-> "dot", o_fname |-> "", r_fname |-> "", lines |-> <<<<"q">>>>]

Reserve == <<"m", "allocate_orelse_reserve", "jobspec">>
Scripts ==
    {<<>>, <<<<>>, <<"help", "match">>, <<"quit">>>>, <<<<"cat">>, <<"a", "jobspec">>, <<"q">>>>,
     <<<<"exit">>, <<"match", "allocate", "jobspec">>, <<"list">>>>, <<Reserve, <<"cancel", "1">>, <<"quit">>>>,
     <<<<"match", "allocate_orelse_reserve">>, <<"i", "1">>, <<"q">>>>}
Names == {"CA", "IBA", "IBBA", "PFS1BA", "PA", "C+PFS1BA", "C+IBA", "C+PA", "IB+IBBA", "C+P+IBA",
          "V+PFS1BA", "VA", "ALL", "none"}

AllParams ==
    {[Default EXCEPT !.grug = f] : f \in DOMAIN FilesOf}
    \cup {[Default EXCEPT !.grug = f, !.matcher_name = n, !.o_fname = "out", !.lines = <<Reserve, <<"q">>>>] :
            f \in {<<"mini", <<1, 1, 0>>>>, <<"power">>, <<"odd", 4>>}, n \in Names}
    \cup {[Default EXCEPT !.lines = s, !.o_fname = "out", !.o_format = "graphml"] : s \in Scripts}
    \cup {[Default EXCEPT !.grug = <<"none">>], [Default EXCEPT !.matcher_policy = "first"],
          [Default EXCEPT !.o_format = "svg"], [Default EXCEPT !.r_fname = "out"],
          [Default EXCEPT !.r_fname = "unwritable"]}
=============================================================================
