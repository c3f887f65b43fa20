----------------------------- MODULE MCProgress -----------------------------
(***************************************************************************)
(* An instance of Progress for TLC: chart a has an apply function of its   *)
(* own, contains b and c and depends on d, c depends on e.                 *)
(***************************************************************************)
EXTENDS Progress

CONSTANTS a, b, c, d, e

MCCharts == {a, b, c, d, e}
MCSubCharts == [x \in MCCharts |-> IF x = a THEN {b, c} ELSE {}]
MCDependencies == [x \in MCCharts |-> CASE x = a -> {d} [] x = c -> {e} [] OTHER -> {}]
MCObjects == [x \in MCCharts |-> CASE x = a -> {0, 2} [] x = b -> {2} [] OTHER -> {1}]
=============================================================================
