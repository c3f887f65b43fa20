----------------------------- MODULE MCInstall ------------------------------
(***************************************************************************)
(* An instance of Install for TLC: a chart with two sub charts, one of     *)
(* them with a sub chart of its own; objects that are not in install       *)
(* order, two of a kind, and of a kind the order does not know.            *)
(***************************************************************************)
EXTENDS Install

CONSTANTS app, db, queue, disk

Doc(k, n) == [kind |-> k, name |-> n]

MCManifest ==
    app   :> <<Doc("Ingress", 1), Blank, Doc("Deployment", 2), Doc("Secret", 1), Doc("Deployment", 1)>>
 @@ db    :> <<Doc("StatefulSet", 1), Doc("Secret", 1), Doc("Other", 1)>>
 @@ queue :> <<Blank>>
 @@ disk  :> <<Doc("PersistentVolume", 1)>>

MCSubs == app :> {db, queue} @@ db :> {disk} @@ queue :> {} @@ disk :> {}
=============================================================================
