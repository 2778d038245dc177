--------------------------- MODULE MCResourceQuery ---------------------------
(***************************************************************************)
(* A cluster of two nodes, each with two cores and a memory pool of two,   *)
(* and small jobspecs in the shapes of test/data/jobspecs.                 *)
(***************************************************************************)
EXTENDS ResourceQuery

GraphKids ==
    [u \in {"cluster0", "node0", "node1", "core0", "core1", "core2", "core3", "mem0", "mem1"} |->
        CASE u = "cluster0" -> <<"node0", "node1">>
          [] u = "node0" -> <<"core0", "core1", "mem0">>
          [] u = "node1" -> <<"core2", "core3", "mem1">>
          [] OTHER -> <<>>]

GraphVertices == DOMAIN GraphKids

GraphPath ==
    LET path[u \in GraphVertices] ==
            {u} \cup UNION {path[p] : p \in {p \in GraphVertices : u \in Range(GraphKids[p])}}
    IN  path

GraphType ==
    [u \in GraphVertices |->
        CASE u = "cluster0" -> "cluster"
          [] u \in {"node0", "node1"} -> "node"
          [] u \in {"mem0", "mem1"} -> "memory"
          [] OTHER -> "core"]

GraphSize == [u \in GraphVertices |-> IF u \in {"mem0", "mem1"} THEN 2 ELSE 1]

GraphId ==
    [u \in GraphVertices |->
        CASE u \in {"cluster0", "node0", "core0", "mem0"} -> 0
          [] u \in {"node1", "core1", "mem1"} -> 1
          [] u = "core2" -> 2
          [] u = "core3" -> 3]

R(type, min, max, exclusive, with) ==
    [type |-> type, min |-> min, max |-> max, oper |-> "+", operand |-> 1,
     exclusive |-> exclusive, with |-> with]
N(type, count, with) == R(type, count, count, FALSE, with)
X(type, count, with) == R(type, count, count, TRUE, with)
Leaf(type, count) == N(type, count, <<>>)

Job(resource, duration) == [resources |-> <<resource>>, duration |-> duration]

SmallJobs == {
    Job(N("node", 1, <<N("slot", 1, <<Leaf("core", 1)>>)>>), 2),
    Job(X("node", 2, <<N("slot", 1, <<Leaf("core", 1)>>)>>), 1),
    Job(N("slot", 1, <<N("node", 1, <<Leaf("core", 2)>>)>>), 1),
    Job(N("slot", 1, <<Leaf("core", 1), Leaf("memory", 2)>>), 2)}

MixedJobs == {
    Job(N("slot", 2, <<Leaf("core", 1)>>), 2),
    Job(R("node", 1, 2, FALSE, <<N("slot", 1, <<Leaf("core", 1)>>)>>), 1),
    Job(X("cluster", 1, <<N("node", 2, <<N("slot", 1, <<Leaf("memory", 1)>>)>>)>>), 1),
    Job(Leaf("node", 1), 1),
    Job(N("node", 1, <<N("slot", 1, <<Leaf("core", 1), Leaf("memory", 1)>>)>>), 1)}

\* In the shapes of test004.node1.slot.yaml and test004.slot.node1.yaml.
NodeJobs == {Job(N("slot", 1, <<Leaf("node", 1)>>), 1)}
ExclusiveJobs == NodeJobs \cup {Job(N("node", 1, <<N("slot", 1, <<Leaf("core", 1)>>)>>), 1)}

\* Of a pool of two, one.
PoolJobs == {Job(N("node", 1, <<N("slot", 1, <<Leaf("core", 1), Leaf("memory", 1)>>)>>), 1)}

\* All lists of requests in some jobspecs.
Deeper(lists) == lists \cup {r.with : r \in UNION {Range(rs) : rs \in lists}}
ListsOf(jobspecs) == Deeper(Deeper(Deeper(Deeper({j.resources : j \in jobspecs}))))
SmallLists == ListsOf(SmallJobs)
MixedLists == ListsOf(MixedJobs)
ExclusiveLists == ListsOf(ExclusiveJobs)
NodeLists == ListsOf(NodeJobs)
PoolLists == ListsOf(PoolJobs)

\* The jobspecs name a type that they ask for exclusively wherever the walk
\* meets it, as theorem ExclusiveJobsAreAlone of module LedgerProofs supposes.
NamedFrom(types) ==
    LET below(u, list) ==
            IF SlotMatched(u, list) = {} THEN NextResources(u, list)
            ELSE (CHOOSE s \in SlotMatched(u, list) : TRUE).with
        named[u \in Vertices, list \in ResourceLists] ==
            /\ Type[u] \in types => Exclusivity(u, list)
            /\ \A v \in Range(Kids[u]) : named[v, below(u, list)]
    IN  named
ASSUME NamesExclusive ==
    \A j \in Jobspecs : NamedFrom(ExclusiveTypes(j.resources))[Root, j.resources]
=============================================================================
