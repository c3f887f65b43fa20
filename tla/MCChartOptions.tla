--------------------------- MODULE MCChartOptions ---------------------------
(***************************************************************************)
(* An instance of ChartOptions for TLC: two keys, of which a chart takes   *)
(* or gives at most one, and enough charts for two branches, or for one of *)
(* two levels.                                                             *)
(***************************************************************************)
EXTENDS ChartOptions

AtMostOneKey == {S \in SUBSET Keys : Cardinality(S) <= 1}
=============================================================================
