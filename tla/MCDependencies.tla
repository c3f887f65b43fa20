--------------------------- MODULE MCDependencies ---------------------------
(***************************************************************************)
(* An instance of Dependencies for TLC: charts a and b share d1, which     *)
(* needs e1.                                                               *)
(***************************************************************************)
EXTENDS Dependencies

CONSTANTS p1, p2, a, b, d1, e1

Apply == [op |-> "apply", force |-> FALSE, recursive |-> FALSE]
Delete == [op |-> "delete", force |-> FALSE, recursive |-> FALSE]
DeleteRecursive == [op |-> "delete", force |-> FALSE, recursive |-> TRUE]

MCInstances == {a, b, d1, e1}
MCGenusOf == [i \in MCInstances |-> i]
MCNamespaceOf == [i \in MCInstances |-> "default"]
MCDependsOn == [i \in MCInstances |->
                   CASE i \in {a, b} -> {d1} [] i = d1 -> {e1} [] OTHER -> {}]
MCCommands == {Apply, Delete, DeleteRecursive}
ApplyOnly == {Apply}
=============================================================================
