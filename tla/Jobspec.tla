------------------------------- MODULE Jobspec -------------------------------
(***************************************************************************)
(* jobspec.cpp: which YAML documents are jobspecs, and the requests read   *)
(* from one.  A node is a record [kind, ...]: a "map" with the nodes at    *)
(* its keys, a "seq" with its items, a scalar ("int" or "text") with its   *)
(* value v, or "null".  Every error is a parse_error, and the caller tells *)
(* none from another, so a function of the parser is the condition under   *)
(* which it throws none, and what it then returns.                         *)
(***************************************************************************)
EXTENDS Words, Sequences, FiniteSets, Functions, TLC

CONSTANT Height    \* of every node of a document, more than that of the nodes in it

Nodes == DOMAIN Height

Parts(n) ==
    CASE n.kind = "map" -> {n.at[key] : key \in DOMAIN n.at}
      [] n.kind = "seq" -> Range(n.items)
      [] n.kind \in {"int", "text", "null"} -> {}

\* A document is a finite tree.
ASSUME HeightAssumption ==
    \A n \in Nodes :
        /\ Height[n] \in Nat
        /\ n.kind \in {"map", "seq", "int", "text", "null"}
        /\ n.kind = "map" => IsFiniteSet(DOMAIN n.at)
        /\ n.kind = "seq" => n.items \in Seq(Range(n.items))
        /\ n.kind = "int" => n.v \in Int
        /\ \A m \in Parts(n) : m \in Nodes /\ Height[m] < Height[n]

IsScalar(n) == n.kind \in {"int", "text"}
Keys(n) == IF n.kind = "map" THEN DOMAIN n.at ELSE {}
Has(n, key) == key \in Keys(n)

\* as<unsigned>, as<int>, as<string>: only a number converts to a number.
IsUnsigned(n) == n.kind = "int" /\ n.v \in 0 .. Word - 1
IsInt(n) == n.kind = "int"
Text(n) == IF n.kind = "text" THEN n.v ELSE ToString(n.v)
TextMap(n) == [key \in Keys(n) |-> Text(n.at[key])]
IsTextMap(n) == n.kind = "map" /\ \A key \in Keys(n) : IsScalar(n.at[key])

-----------------------------------------------------------------------------
(* parse_yaml_count *)

ScalarCountAccepted(n) == IsUnsigned(n)

\* Faulty: "max" is not held against "min".
VerboseCountUnordered(n) ==
    /\ \A key \in {"min", "max", "operator", "operand"} : Has(n, key) /\ IsScalar(n.at[key])
    /\ IsUnsigned(n.at["min"]) /\ n.at["min"].v >= 1
    /\ IsUnsigned(n.at["max"]) /\ n.at["max"].v >= 1
    /\ Text(n.at["operator"]) \in {"+", "*", "^"}
    /\ IsInt(n.at["operand"])

VerboseCountAccepted(n) ==
    /\ \A key \in {"min", "max", "operator", "operand"} : Has(n, key) /\ IsScalar(n.at[key])
    /\ IsUnsigned(n.at["min"]) /\ n.at["min"].v >= 1
    /\ IsUnsigned(n.at["max"]) /\ n.at["max"].v >= 1 /\ n.at["max"].v >= n.at["min"].v
    /\ Text(n.at["operator"]) \in {"+", "*", "^"}
    /\ IsInt(n.at["operand"])

CountAccepted(n) == ScalarCountAccepted(n) \/ VerboseCountAccepted(n)

\* With a scalar the operator and the operand keep their initial values.
CountOf(n) ==
    IF IsScalar(n) THEN [min |-> n.v, max |-> n.v, oper |-> "+", operand |-> 1]
    ELSE [min |-> n.at["min"].v, max |-> n.at["max"].v,
          oper |-> Text(n.at["operator"]), operand |-> n.at["operand"].v]

-----------------------------------------------------------------------------
(* Resource::Resource and parse_yaml_resources *)

OptionalKeys == {"unit", "exclusive", "with", "label", "id"}

\* The fields that the constructor has read.
FieldCount(n) == 2 + Cardinality(Keys(n) \cap OptionalKeys)

\* A resource, where "accepted" says which lists of resources are.
ResourceAccepted(n, accepted) ==
    /\ Has(n, "type") /\ IsScalar(n.at["type"])
    /\ Has(n, "count") /\ CountAccepted(n.at["count"])
    /\ \A key \in Keys(n) \cap {"unit", "exclusive", "label", "id"} : IsScalar(n.at[key])
    /\ Has(n, "exclusive") => Text(n.at["exclusive"]) \in {"true", "false"}
    /\ Has(n, "with") => accepted[n.at["with"]]
    /\ Has(n, "label") \/ Text(n.at["type"]) # "slot"
    /\ FieldCount(n) = Cardinality(Keys(n)) /\ Cardinality(Keys(n)) \in 2 .. 10

\* Faulty: what is below a resource is taken as it is.
ResourcesUnchecked(list) == list.kind = "seq"

ResourcesAccepted(list) ==
    LET accepted[n \in Nodes] ==
            n.kind = "seq" /\ \A i \in DOMAIN n.items : ResourceAccepted(n.items[i], accepted)
    IN  accepted[list]

\* The fields that the traverser reads.
ResourceOf(n, requests) ==
    [type |-> Text(n.at["type"]), count |-> CountOf(n.at["count"]),
     exclusive |-> Has(n, "exclusive") /\ Text(n.at["exclusive"]) = "true",
     with |-> IF Has(n, "with") THEN requests[n.at["with"]] ELSE <<>>]

ResourcesOf(list) ==
    LET requests[n \in Nodes] ==
            IF n.kind = "seq" THEN [i \in DOMAIN n.items |-> ResourceOf(n.items[i], requests)] ELSE <<>>
    IN  requests[list]

-----------------------------------------------------------------------------
(* Task::Task and parse_yaml_tasks *)

CommandAccepted(n) ==
    \/ IsScalar(n)
    \/ n.kind = "seq" /\ \A i \in DOMAIN n.items : IsScalar(n.items[i])

\* A key that the constructor does not know only adds to the size.
TaskAccepted(n) ==
    /\ Has(n, "command") /\ CommandAccepted(n.at["command"])
    /\ Has(n, "slot") /\ IsScalar(n.at["slot"])
    /\ \A key \in Keys(n) \cap {"count", "attributes"} : IsTextMap(n.at[key])
    /\ Has(n, "distribution") => IsScalar(n.at["distribution"])
    /\ Cardinality(Keys(n)) \in 3 .. 5

TasksAccepted(n) == n.kind = "seq" /\ \A i \in DOMAIN n.items : TaskAccepted(n.items[i])

-----------------------------------------------------------------------------
(* Jobspec::Jobspec *)

AttributesAccepted(n) ==
    \/ n.kind = "null"
    \/ n.kind = "map" /\ \A key \in Keys(n) : IsTextMap(n.at[key])

JobspecAccepted(n) ==
    /\ {"version", "resources", "tasks", "attributes"} \subseteq Keys(n)
    /\ Cardinality(Keys(n)) = 4
    /\ IsUnsigned(n.at["version"]) /\ n.at["version"].v = 1
    /\ AttributesAccepted(n.at["attributes"])
    /\ ResourcesAccepted(n.at["resources"])
    /\ TasksAccepted(n.at["tasks"])

\* An attribute whose map is empty leaves no entry.
AttributesOf(n) ==
    [key \in {k \in Keys(n) : Keys(n.at[k]) # {}} |-> TextMap(n.at[key])]

JobspecOf(n) ==
    [resources |-> ResourcesOf(n.at["resources"]), attributes |-> AttributesOf(n.at["attributes"])]
=============================================================================
