---------------------------- MODULE MCOsbBinding ----------------------------
(***************************************************************************)
(* Instances of OsbBinding for TLC: brokers with the service and plan the  *)
(* chart asks for, without one of them, and with more than one of each.    *)
(***************************************************************************)
EXTENDS OsbBinding

CONSTANTS s1, s2, small, large

Alone == <<[name |-> s1, plans |-> <<small>>]>>
OtherPlan == <<[name |-> s1, plans |-> <<large>>]>>
OtherService == <<[name |-> s2, plans |-> <<small>>]>>
Several == <<[name |-> s1, plans |-> <<small, large>>], [name |-> s2, plans |-> <<large>>]>>
RequestedLast == <<[name |-> s2, plans |-> <<large>>], [name |-> s1, plans |-> <<large, small>>]>>

MCCatalogs == {Alone, OtherPlan, OtherService, Several, RequestedLast}
=============================================================================
