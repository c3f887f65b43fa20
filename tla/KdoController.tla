---------------------------- MODULE KdoController ----------------------------
(***************************************************************************)
(* The KdoChart controller (controllers/kdo_chart_controller.go): one      *)
(* KdoChart resource in the API server, the informer that feeds the        *)
(* controller's cache and work queue through kdoChartPredicate, and the    *)
(* worker that runs Reconcile on it.                                       *)
(*                                                                         *)
(* The API server is external.  It is modelled by its revision log: every  *)
(* write of the resource makes a new version at the next resourceVersion,  *)
(* and a write whose resourceVersion is not the newest one is refused.     *)
(* The informer's cache is a position in that log, `seen', so a reconcile  *)
(* may read any version that is not older than the one it read before.     *)
(* controller-runtime never runs two workers on one key and re-queues a    *)
(* key that changes while it is processed: `queued' and `pc' say it all.   *)
(*                                                                         *)
(* The objects the chart puts into the cluster are abstracted to one       *)
(* value: Nothing, Partial or the specification they were rendered from.   *)
(* All specifications of the resource address the same installation (same  *)
(* kubeconfig, namespace and chart); they differ in version and values.    *)
(***************************************************************************)
EXTENDS Integers

CONSTANTS Specs,        \* specifications users write into the resource
          URLSpecs,     \* those whose ChartURL is set
          Percents,     \* progress values that Apply and Delete report
          Nothing,      \* no object of the chart in the cluster
          Partial,      \* the objects of an unfinished apply or delete
          MaxOps,       \* bound: writes by users and other controllers
          MaxFaults,    \* bound: failures of the environment and crashes
          MaxReports    \* bound: progress reports within one reconcile

ASSUME SpecsAssumption == /\ Specs # {}
                          /\ URLSpecs \subseteq Specs
                          /\ Nothing \notin Specs
                          /\ Partial \notin Specs
                          /\ Nothing # Partial

ASSUME BoundsAssumption == /\ MaxOps \in Nat
                           /\ MaxFaults \in Nat
                           /\ MaxReports \in Nat
                           /\ 100 \in Percents
                           /\ Percents \subseteq 0..100

VARIABLES rv,           \* newest resourceVersion of the API server
          log,          \* versions the informer has or will still see
          seen,         \* resourceVersion of the informer's cache
          up,           \* the controller process is running
          queued,       \* the key is in the work queue (or marked dirty)
          pc,           \* where the worker is in Reconcile
          copy,         \* Reconcile's local variable kdoChart
          deployed,     \* objects of the chart in the cluster
          ops,          \* writes by users so far
          faults        \* failures so far

vars == <<rv, log, seen, up, queued, pc, copy, deployed, ops, faults>>

-----------------------------------------------------------------------------
(* State *)

Mine == "mine"          \* myFinalizerName
Other == "other"        \* a finalizer of somebody else

Phases == {"absent", "live", "deleting"}
OpTypes == {"none", "apply", "apply-error", "delete", "delete-error"}
Operation == [type: OpTypes, progress: Percents \cup {0}]
Version == [phase: Phases, spec: Specs, fin: SUBSET {Mine, Other}, op: Operation]

Op(type, progress) == [type |-> type, progress |-> progress]

LivePCs == {"addFinalizer", "initStatus", "apply", "applied", "applyFailed"}
DeletePCs == {"initDelete", "delete", "deleted", "deleteFailed", "removeFinalizer"}

TypeOK ==
    /\ rv \in Nat
    /\ seen \in 0..rv
    /\ log \in [seen..rv -> Version]
    /\ up \in BOOLEAN
    /\ queued \in BOOLEAN
    /\ pc \in LivePCs \cup DeletePCs \cup {"idle"}
    /\ copy \in [rv: Nat, spec: Specs, reports: Nat]
    /\ deployed \in Specs \cup {Nothing, Partial}
    /\ ops \in Nat
    /\ faults \in Nat

res == log[rv]          \* the resource as the API server has it
cache == log[seen]      \* the resource as the manager's client reads it

Init == /\ rv = 0
        /\ seen = 0
        /\ \E s \in Specs :
              /\ log = [i \in 0..0 |-> [phase |-> "absent", spec |-> s, fin |-> {},
                                        op |-> Op("none", 0)]]
              /\ copy = [rv |-> 0, spec |-> s, reports |-> 0]
        /\ up = TRUE
        /\ queued = FALSE
        /\ pc = "idle"
        /\ deployed = Nothing
        /\ ops = 0
        /\ faults = 0

-----------------------------------------------------------------------------
(* The API server and its users (external) *)

\* Make v the newest version; a write that changes nothing makes none.
Commit(v) ==
    IF v = res
    THEN UNCHANGED <<rv, log>>
    ELSE /\ rv' = rv + 1
         /\ log' = [i \in seen..(rv + 1) |-> IF i = rv + 1 THEN v ELSE log[i]]

\* Without finalizers a resource marked for deletion is gone.
Settled(v) ==
    IF v.phase = "deleting" /\ v.fin = {} THEN [v EXCEPT !.phase = "absent"] ELSE v

UserWrite(v) ==
    /\ ops < MaxOps
    /\ ops' = ops + 1
    /\ Commit(Settled(v))
    /\ UNCHANGED <<seen, up, queued, pc, copy, deployed, faults>>

UserCreate ==
    /\ res.phase = "absent"
    /\ \E s \in Specs, f \in SUBSET {Other} :
          UserWrite([phase |-> "live", spec |-> s, fin |-> f, op |-> Op("none", 0)])

UserUpdate ==
    /\ res.phase # "absent"
    /\ \E s \in Specs \ {res.spec} : UserWrite([res EXCEPT !.spec = s])

UserDelete ==
    /\ res.phase = "live"
    /\ UserWrite([res EXCEPT !.phase = "deleting"])

\* Another controller adds its finalizer to a live resource ...
OtherGuards ==
    /\ res.phase = "live"
    /\ Other \notin res.fin
    /\ UserWrite([res EXCEPT !.fin = @ \cup {Other}])

\* ... and takes it back when it has cleaned up.
OtherReleases ==
    /\ res.phase = "deleting"
    /\ Other \in res.fin
    /\ UserWrite([res EXCEPT !.fin = @ \ {Other}])

-----------------------------------------------------------------------------
(* The informer and the event filter *)

\* (variant: the deletion timestamp is not looked at)
UpdateWithoutDeletion(old, new) == old.spec # new.spec \/ Mine \notin new.fin

\* kdoChartPredicate.Update
Update(old, new) ==
    \/ old.spec # new.spec
    \/ Mine \notin new.fin
    \/ new.phase = "deleting"

\* kdoChartPredicate: does the change from old to new enqueue the key?
Passes(old, new) ==
    /\ new.phase # "absent"                              \* Delete: false
    /\ old.phase # "absent" => Update(old, new)          \* Create: true

\* The watch delivers the next version.
Deliver ==
    /\ up
    /\ seen < rv
    /\ seen' = seen + 1
    /\ log' = [i \in (seen + 1)..rv |-> log[i]]
    /\ queued' = (queued \/ Passes(log[seen], log[seen + 1]))
    /\ UNCHANGED <<rv, up, pc, copy, deployed, ops, faults>>

\* The process dies; its queue and its cache die with it.
Die ==
    /\ up' = FALSE
    /\ queued' = FALSE
    /\ pc' = "idle"
    /\ UNCHANGED <<rv, log, seen, copy, deployed, ops>>

Crash ==
    /\ up
    /\ faults < MaxFaults
    /\ faults' = faults + 1
    /\ Die

\* The informer lists the resource and reports it as created.
Restart ==
    /\ ~up
    /\ up' = TRUE
    /\ seen' = rv
    /\ log' = [i \in rv..rv |-> log[i]]
    /\ queued' = (res.phase # "absent")
    /\ UNCHANGED <<rv, pc, copy, deployed, ops, faults>>

-----------------------------------------------------------------------------
(* Reconcile *)

Read == [rv |-> seen, spec |-> cache.spec, reports |-> 0]

\* Reconcile gets the resource from the cache and goes on at label `to'.
Get(to) ==
    /\ up
    /\ pc = "idle"
    /\ queued
    /\ queued' = FALSE
    /\ copy' = Read
    /\ pc' = to
    /\ UNCHANGED <<rv, log, seen, up, deployed, ops, faults>>

ReconcileGone == cache.phase = "absent" /\ Get("idle")

\* (variant: the finalizer is not waited for)
ReconcileNewUnguarded == /\ cache.phase = "live"
                         /\ Mine \notin cache.fin
                         /\ Get("apply")

ReconcileNew == /\ cache.phase = "live"
                /\ Mine \notin cache.fin
                /\ Get("addFinalizer")

ReconcileKnown == /\ cache.phase = "live"
                  /\ Mine \in cache.fin
                  /\ Get("apply")

ReconcileDeleting == /\ cache.phase = "deleting"
                     /\ cache.fin = {Mine}
                     /\ Get("initDelete")

\* Somebody else's finalizer is still there, or ours is not: do nothing.
ReconcileBlocked == /\ cache.phase = "deleting"
                    /\ cache.fin # {Mine}
                    /\ Get("idle")

\* An Update of the local copy that the API server accepts.
Accepted(from, v, to) ==
    /\ up
    /\ pc = from
    /\ copy.rv = rv
    /\ Commit(Settled(v))
    /\ copy' = [copy EXCEPT !.rv = rv']
    /\ pc' = to
    /\ UNCHANGED <<seen, up, queued, deployed, ops, faults>>

AddFinalizer == Accepted("addFinalizer", [res EXCEPT !.fin = @ \cup {Mine}], "initStatus")
InitStatus == Accepted("initStatus", [res EXCEPT !.op = Op("apply", 0)], "apply")
InitDelete == Accepted("initDelete", [res EXCEPT !.op = Op("delete", 0)], "delete")
RemoveFinalizer == Accepted("removeFinalizer", [res EXCEPT !.fin = @ \ {Mine}], "idle")

\* Reconcile returns an error: controller-runtime puts the key back.
ReturnError ==
    /\ queued' = TRUE
    /\ pc' = "idle"
    /\ UNCHANGED <<rv, log, seen, up, copy, deployed, ops>>

\* One of these four updates is refused: a conflict, or the call failed.
Refused ==
    /\ up
    /\ pc \in {"addFinalizer", "initStatus", "initDelete", "removeFinalizer"}
    /\ \/ copy.rv # rv /\ UNCHANGED faults
       \/ faults < MaxFaults /\ faults' = faults + 1
    /\ ReturnError

\* GetFromSpec returns a chart; it has none for a specification with a ChartURL,
\* where the test of err is inverted.
HasChart == copy.spec \notin URLSpecs

\* (variant: the status is written over whatever version is there)
ProgressForced ==
    /\ HasChart
    /\ res.phase # "absent"
    /\ copy.reports < MaxReports
    /\ \/ pc = "apply" /\ \E p \in Percents : Commit([res EXCEPT !.op = Op("apply", p)])
       \/ pc = "delete" /\ \E p \in Percents : Commit([res EXCEPT !.op = Op("delete", p)])
    /\ copy' = [copy EXCEPT !.reports = @ + 1]
    /\ UNCHANGED <<seen, up, queued, pc, deployed, ops, faults>>

\* The progress callback: a status update whose error is dropped.
Progress ==
    /\ copy.rv = rv
    /\ HasChart
    /\ copy.reports < MaxReports
    /\ \/ pc = "apply" /\ \E p \in Percents : Commit([res EXCEPT !.op = Op("apply", p)])
       \/ pc = "delete" /\ \E p \in Percents : Commit([res EXCEPT !.op = Op("delete", p)])
    /\ copy' = [copy EXCEPT !.rv = rv', !.reports = @ + 1]
    /\ UNCHANGED <<seen, up, queued, pc, deployed, ops, faults>>

\* chart.Apply and chart.Delete change the cluster object by object.
ApplyTouch ==
    /\ pc = "apply"
    /\ HasChart
    /\ deployed' = Partial
    /\ UNCHANGED <<rv, log, seen, up, queued, pc, copy, ops, faults>>

DeleteTouch ==
    /\ pc = "delete"
    /\ HasChart
    /\ deployed # Nothing
    /\ deployed' = Partial
    /\ UNCHANGED <<rv, log, seen, up, queued, pc, copy, ops, faults>>

ApplyOk ==
    /\ pc = "apply"
    /\ HasChart
    /\ deployed' = copy.spec
    /\ pc' = "applied"
    /\ UNCHANGED <<rv, log, seen, up, queued, copy, ops, faults>>

DeleteOk ==
    /\ pc = "delete"
    /\ HasChart
    /\ deployed' = Nothing
    /\ pc' = "deleted"
    /\ UNCHANGED <<rv, log, seen, up, queued, copy, ops, faults>>

\* Apply or Delete returns an error, the expired context included.
Fails ==
    /\ faults < MaxFaults
    /\ faults' = faults + 1
    /\ \/ pc = "apply" /\ pc' = "applyFailed"
       \/ pc = "delete" /\ pc' = "deleteFailed"
    /\ UNCHANGED <<rv, log, seen, up, queued, copy, deployed, ops>>

\* Without a chart apply and delete panic (nil dereference or type assertion).
GetFromSpecPanics ==
    /\ pc \in {"apply", "delete"}
    /\ ~HasChart
    /\ Die
    /\ UNCHANGED faults

\* The last status update of a reconcile; its error is dropped too.
Report(from, op, to) ==
    /\ pc = from
    /\ \/ copy.rv = rv /\ Commit([res EXCEPT !.op = op]) /\ UNCHANGED faults
       \/ copy.rv # rv /\ UNCHANGED <<rv, log, faults>>
       \/ faults < MaxFaults /\ faults' = faults + 1 /\ UNCHANGED <<rv, log>>
    /\ copy' = [copy EXCEPT !.rv = IF rv' = rv THEN @ ELSE rv']
    /\ pc' = to
    /\ UNCHANGED <<seen, up, deployed, ops>>

\* (variants: progress beyond 100; the apply error is logged and forgotten; the
\* finalizer goes although the delete failed)
FinishApplyOvershoot ==
    Report("applied", Op("apply", 105), "idle") /\ UNCHANGED queued
ApplyErrorForgotten ==
    Report("applyFailed", Op("apply-error", 0), "idle") /\ UNCHANGED queued
DeleteErrorReleases ==
    Report("deleteFailed", Op("delete-error", 0), "removeFinalizer") /\ UNCHANGED queued

\* chart.Apply reports 100 percent and Reconcile returns.
FinishApply == Report("applied", Op("apply", 100), "idle") /\ UNCHANGED queued
FinishDelete == Report("deleted", Op("delete", 100), "removeFinalizer") /\ UNCHANGED queued
ApplyError == Report("applyFailed", Op("apply-error", 0), "idle") /\ queued' = TRUE
DeleteError == Report("deleteFailed", Op("delete-error", 0), "idle") /\ queued' = TRUE

-----------------------------------------------------------------------------

Users == UserCreate \/ UserUpdate \/ UserDelete \/ OtherGuards \/ OtherReleases

\* A worker takes the key and reads the resource from the informer's cache.
Begin ==
    \/ ReconcileGone \/ ReconcileNew \/ ReconcileKnown
    \/ ReconcileDeleting \/ ReconcileBlocked

Reconcile ==
    \/ Begin
    \/ AddFinalizer \/ InitStatus \/ InitDelete \/ RemoveFinalizer
    \/ Refused
    \/ ApplyOk \/ DeleteOk \/ GetFromSpecPanics
    \/ FinishApply \/ FinishDelete \/ ApplyError \/ DeleteError

Next ==
    \/ Users
    \/ Deliver
    \/ Crash
    \/ Restart
    \/ Reconcile
    \/ Progress \/ ApplyTouch \/ DeleteTouch \/ Fails

Spec == Init /\ [][Next]_vars

\* The watch, the process manager and an idle worker keep running; users, faults and
\* progress reports are under no obligation, and no call that a pass makes, of the API
\* server or of the chart, has to return: they have no deadline.
Fairness == WF_vars(Deliver) /\ WF_vars(Restart) /\ WF_vars(Begin)

FairSpec == Spec /\ Fairness

-----------------------------------------------------------------------------
(* Properties *)

Guarded == res.phase # "absent" /\ Mine \in res.fin

\* No orphans: as long as anything of the chart is in the cluster the resource
\* exists and carries the controller's finalizer, so that deleting the resource
\* still deletes the chart (Reconcile adds the finalizer before it applies and
\* removes it after it has deleted, whatever stale version it read).
NoOrphans == deployed # Nothing => Guarded

\* What Reconcile is there to achieve for the resource as it is now.
Converged ==
    /\ res.phase = "live" => Mine \in res.fin /\ deployed = res.spec
    /\ res.phase = "deleting" => res.fin # {Mine}
    /\ res.phase = "absent" => deployed = Nothing

NoPassAhead == \A i \in seen..(rv - 1) : ~Passes(log[i], log[i + 1])

\* No lost work: when the process runs, no worker is busy, the key is not queued
\* and no event that kdoChartPredicate lets through is on its way, there is
\* nothing left to do.  The filter may drop events, dropped errors may be
\* dropped, but never so that a change of the resource is forgotten.
NoLostWork == up /\ pc = "idle" /\ ~queued /\ NoPassAhead => Converged

\* The status written into the resource belongs to the phase it is in: a late
\* progress callback of Apply never marks a resource whose deletion was
\* requested, and "delete" is never shown before it was (Status().Update
\* carries the resourceVersion that Reconcile read).
StatusFollowsPhase ==
    [][res'.op # res.op /\ res'.phase = res.phase =>
         IF res.phase = "deleting"
         THEN res'.op.type \in {"delete", "delete-error"}
         ELSE res'.op.type \in {"apply", "apply-error"}]_vars

\* No call hangs: a pass does not stay at one place for ever.
CallsReturn == \A w \in LivePCs \cup DeletePCs : []<>(pc # w)

\* If no call hangs, then once users and faults are exhausted the resource converges
\* for good: a chart asked for is applied, a resource being deleted goes away (every
\* error is returned by Reconcile, and so retried).  This leaves out specifications
\* with a ChartURL, for which there is never a chart ...
Converges == CallsReturn => <>[](res.spec \notin URLSpecs => Converged)

\* ... although "ChartURL containts the URL for the chart" promises one as well.
URLConverges == CallsReturn => <>[]Converged

\* The controller implements the life cycle KdoChartLifecycle promises: objects
\* only appear under the finalizer, disappear only when deletion was requested,
\* and the finalizer goes last.
Lifecycle == INSTANCE KdoChartLifecycle WITH
    phase <- res.phase,
    guarded <- Guarded,
    spec <- res.spec,
    deployed <- deployed

ImplementsLifecycle == Lifecycle!Spec
=============================================================================
