-------------------------- MODULE KdoChartLifecycle --------------------------
(***************************************************************************)
(* What the KdoChart controller promises to somebody who only looks at one *)
(* KdoChart resource and at the objects of its chart in the cluster: the   *)
(* objects are only created while the resource is guarded by the           *)
(* controller's finalizer, they are only removed once deletion has been    *)
(* requested, and the guard is only released when nothing is left.         *)
(***************************************************************************)
CONSTANTS Specs,        \* chart specifications a user can ask for
          Nothing,      \* no object of the chart is in the cluster
          Partial       \* some objects are, of no particular specification

VARIABLES phase,        \* "absent", "live" or "deleting"
          guarded,      \* the controller's finalizer is set
          spec,         \* the specification last asked for
          deployed      \* Nothing, Partial or the specification deployed

vars == <<phase, guarded, spec, deployed>>

Init == /\ phase = "absent"
        /\ guarded = FALSE
        /\ spec \in Specs
        /\ deployed = Nothing

Create == /\ phase = "absent"
          /\ phase' = "live"
          /\ spec' \in Specs
          /\ UNCHANGED <<guarded, deployed>>

ChangeSpec == /\ phase # "absent"
              /\ spec' \in Specs
              /\ UNCHANGED <<phase, guarded, deployed>>

RequestDeletion == /\ phase = "live"
                   /\ phase' = "deleting"
                   /\ UNCHANGED <<guarded, spec, deployed>>

\* A resource that nobody guards disappears by itself.
Vanish == /\ phase # "absent"
          /\ ~guarded
          /\ phase' = "absent"
          /\ UNCHANGED <<guarded, spec, deployed>>

Guard == /\ phase = "live"
         /\ ~guarded
         /\ guarded' = TRUE
         /\ UNCHANGED <<phase, spec, deployed>>

Deploy == /\ guarded
          /\ deployed' \in Specs \cup {Partial}
          /\ UNCHANGED <<phase, guarded, spec>>

Undeploy == /\ guarded
            /\ phase = "deleting"
            /\ deployed' \in {Nothing, Partial}
            /\ UNCHANGED <<phase, guarded, spec>>

Release == /\ guarded
           /\ phase = "deleting"
           /\ deployed = Nothing
           /\ phase' = "absent"
           /\ guarded' = FALSE
           /\ UNCHANGED <<spec, deployed>>

Next == \/ Create
        \/ ChangeSpec
        \/ RequestDeletion
        \/ Vanish
        \/ Guard
        \/ Deploy
        \/ Undeploy
        \/ Release

Spec == Init /\ [][Next]_vars
=============================================================================
