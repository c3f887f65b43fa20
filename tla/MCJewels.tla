------------------------------ MODULE MCJewels ------------------------------
(***************************************************************************)
(* Instances of Jewels for TLC: a value the user is asked for (without the *)
(* asking it is a credential), a certificate with the certificate that     *)
(* signs it, and a service binding.                                        *)
(***************************************************************************)
EXTENDS Jewels

CONSTANTS setting, ca, cert, binding, p1

MCKindOf == [j \in Jewels |-> CASE j = setting -> "config"
                                [] j = binding -> "binding"
                                [] OTHER -> "certificate"]
MCSignerOf == [j \in Jewels |-> IF j = cert THEN ca ELSE NoJewel]
=============================================================================
