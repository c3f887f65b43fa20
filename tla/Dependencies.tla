---------------------------- MODULE Dependencies ----------------------------
(***************************************************************************)
(* Shared charts (pkg/kdo/dependency.go and the wrappers around apply and  *)
(* delete in pkg/kdo/chart.go).  Every installed chart leaves a config map *)
(* "kdo.<genus>" in its namespace; a chart that depends on another one     *)
(* looks the config map up, installs the chart if there is none, and adds  *)
(* an annotation "kdo-usedby-<namespace>-<genus>" to it.  A chart whose    *)
(* config map carries such annotations is not deleted.                     *)
(*                                                                         *)
(* Processes are runs of `kdo apply' and `kdo delete' and the controller's *)
(* workers.  Each call to the API server is a step of its own; a process   *)
(* is a stack of the applies and deletes it is in the middle of.           *)
(***************************************************************************)
EXTENDS Naturals, Sequences, FiniteSets

CONSTANTS Procs,        \* concurrent runs of kdo
          Instances,    \* charts that can be installed
          GenusOf,      \* Instances -> genus, the part of the name without suffix
          NamespaceOf,  \* Instances -> namespace
          DependsOn,    \* Instances -> SUBSET Instances, declared by depends_on
          DefaultNamespace,
          NoMap,        \* there is no config map of that name
          Commands,     \* commands that are run, each [op, force, recursive]
          Overlapping,  \* those that may run while others of them do
          MaxCommands,  \* bound: commands started
          MaxFaults     \* bound: failing calls and killed processes

ASSUME ShapeAssumption ==
    /\ DependsOn \in [Instances -> SUBSET Instances]
    /\ DOMAIN GenusOf = Instances /\ DOMAIN NamespaceOf = Instances
    /\ Commands \subseteq [op: {"apply", "delete"}, force: BOOLEAN, recursive: BOOLEAN]
    /\ Overlapping \subseteq Commands
    /\ IsFiniteSet(Instances)

ASSUME BoundsAssumption == MaxCommands \in Nat /\ MaxFaults \in Nat

VARIABLES configMaps,   \* key -> the set of references, or NoMap
          objects,      \* Instances -> "none", "some" or "all" in the cluster
          stack,        \* Procs -> frames, the innermost first
          command,      \* Procs -> the command it runs, or ran last
          result,       \* Procs -> "running", "ok" or "error"
          started, faults

vars == <<configMaps, objects, stack, command, result, started, faults>>

-----------------------------------------------------------------------------
(* Names *)

\* objName in the namespace of the chart: instances of a genus share it.
Key(i) == <<NamespaceOf[i], GenusOf[i]>>

\* The key a chart read back from its config map has: newChartFromConfigMap
\* passes genus and version on, and no namespace.
ListedKey(i) == <<DefaultNamespace, GenusOf[i]>>

Keys == {Key(i) : i \in Instances} \cup {ListedKey(i) : i \in Instances}

\* usedBy: the reference a chart leaves at its dependencies.
UsedBy(i) == <<NamespaceOf[i], GenusOf[i]>>

References == {UsedBy(i) : i \in Instances}

ASSUME NothingAssumption == \A m \in SUBSET References : m # NoMap

\* A chart being applied or deleted: key is where it believes to be installed,
\* todo its dependencies that are still to be seen to, dep the current one.
Frame(i, key, step) ==
    [inst |-> i, key |-> key, step |-> step, todo |-> DependsOn[i], dep |-> i,
     found |-> FALSE]

Steps == {"dependencies", "addUsedBy", "addUsedByNew", "applyObjects", "getMap", "putMap",
          "check", "deleteMap", "deleteObjects", "release", "removeUsedBy", "failed"}

Frames == [inst: Instances, key: Keys, step: Steps,
           todo: SUBSET Instances, dep: Instances, found: BOOLEAN]

TypeOK ==
    /\ configMaps \in [Keys -> (SUBSET References) \cup {NoMap}]
    /\ objects \in [Instances -> {"none", "some", "all"}]
    /\ stack \in [Procs -> Seq(Frames)]
    /\ command \in [Procs -> Commands]
    /\ result \in [Procs -> {"running", "ok", "error"}]
    /\ \A p \in Procs : result[p] = "running" <=> stack[p] # <<>>
    /\ started \in 0..MaxCommands
    /\ faults \in 0..MaxFaults

Init == /\ configMaps = [k \in Keys |-> NoMap]
        /\ objects = [i \in Instances |-> "none"]
        /\ stack = [p \in Procs |-> <<>>]
        /\ command \in [Procs -> Commands]
        /\ result = [p \in Procs |-> "ok"]
        /\ started = 0
        /\ faults = 0

-----------------------------------------------------------------------------
(* Stack discipline *)

Top(p) == Head(stack[p])
At(p, step) == stack[p] # <<>> /\ Top(p).step = step

Goto(p, frame) == stack' = [stack EXCEPT ![p] = <<frame>> \o Tail(@)]
Call(p, frame, callee) == stack' = [stack EXCEPT ![p] = <<callee, frame>> \o Tail(@)]

\* The innermost apply or delete is done.
Return(p) ==
    /\ stack' = [stack EXCEPT ![p] = Tail(@)]
    /\ result' = [result EXCEPT ![p] = IF Len(stack[p]) = 1 THEN "ok" ELSE @]

\* (variant: every caller drops the error, so that the command reports nothing)
FailSwallowed(p) == stack' = [stack EXCEPT ![p] = Tail(@)] /\ UNCHANGED result

\* It returns an error: apply passes it on, dependency.Delete drops the error of
\* the chart it deletes.
Fail(p) ==
    IF command[p].op = "delete" /\ Len(stack[p]) > 1
    THEN stack' = [stack EXCEPT ![p] = Tail(@)] /\ UNCHANGED result
    ELSE /\ stack' = [stack EXCEPT ![p] = <<>>]
         /\ result' = [result EXCEPT ![p] = "error"]

Start(p) ==
    /\ stack[p] = <<>>
    /\ started < MaxCommands
    /\ started' = started + 1
    /\ result' = [result EXCEPT ![p] = "running"]
    /\ \E c \in Commands, i \in Instances :
          /\ \A q \in Procs : stack[q] # <<>> => {c, command[q]} \subseteq Overlapping
          /\ command' = [command EXCEPT ![p] = c]
          /\ stack' = [stack EXCEPT ![p] = <<Frame(i, Key(i),
                          IF c.op = "apply" THEN "dependencies" ELSE "check")>>]
    /\ UNCHANGED <<configMaps, objects, faults>>

\* The process is killed between two calls; somebody starts the next one.
Killed(p) ==
    /\ stack[p] # <<>>
    /\ faults < MaxFaults
    /\ faults' = faults + 1
    /\ stack' = [stack EXCEPT ![p] = <<>>]
    /\ result' = [result EXCEPT ![p] = "error"]
    /\ UNCHANGED <<configMaps, objects, command, started>>

-----------------------------------------------------------------------------
(* apply: wrapApply and dependency.Apply *)

\* repo.List: what is installed is what has a config map.
Listed(i) == configMaps[Key(i)] # NoMap

\* The next dependency is looked up ...
ApplyDependency(p) ==
    /\ At(p, "dependencies")
    /\ \E d \in Top(p).todo :
          LET frame == [Top(p) EXCEPT !.todo = @ \ {d}, !.dep = d] IN
          IF Listed(d)
          THEN Goto(p, [frame EXCEPT !.step = "addUsedBy"])
          ELSE Call(p, [frame EXCEPT !.step = "addUsedByNew"],
                    Frame(d, Key(d), "dependencies"))
    /\ UNCHANGED <<configMaps, objects, command, result, started, faults>>

\* ... and gets the reference, by a JSON patch of its config map; a chart that was
\* found is looked for in the default namespace.
AddUsedBy(p) ==
    /\ At(p, "addUsedBy") \/ At(p, "addUsedByNew")
    /\ LET k == IF At(p, "addUsedBy") THEN ListedKey(Top(p).dep) ELSE Key(Top(p).dep) IN
       IF configMaps[k] = NoMap
       THEN Fail(p) /\ UNCHANGED configMaps
       ELSE /\ configMaps' = [configMaps EXCEPT ![k] = @ \cup {UsedBy(Top(p).inst)}]
            /\ Goto(p, [Top(p) EXCEPT !.step = "dependencies"])
            /\ UNCHANGED result
    /\ UNCHANGED <<objects, command, started, faults>>

DependenciesApplied(p) ==
    /\ At(p, "dependencies")
    /\ Top(p).todo = {}
    /\ Goto(p, [Top(p) EXCEPT !.step = "applyObjects"])
    /\ UNCHANGED <<configMaps, objects, command, result, started, faults>>

\* The wrapped apply: it adds objects and never removes one.
ApplyObjects(p) ==
    /\ At(p, "applyObjects")
    /\ objects' = [objects EXCEPT ![Top(p).inst] = "all"]
    /\ Goto(p, [Top(p) EXCEPT !.step = "getMap"])
    /\ UNCHANGED <<configMaps, command, result, started, faults>>

ApplyObjectsFails(p) ==
    /\ At(p, "applyObjects")
    /\ faults < MaxFaults
    /\ faults' = faults + 1
    /\ objects' = [objects EXCEPT ![Top(p).inst] = IF @ = "none" THEN "some" ELSE @]
    /\ Fail(p)
    /\ UNCHANGED <<configMaps, command, started>>

\* CreateOrUpdate: get the config map ...
GetMap(p) ==
    /\ At(p, "getMap")
    /\ Goto(p, [Top(p) EXCEPT !.step = "putMap", !.found = configMaps[Top(p).key] # NoMap])
    /\ UNCHANGED <<configMaps, objects, command, result, started, faults>>

\* (variant: the config map is written as it was rendered, without the
\* annotations it has gathered)
PutMapOverwriting(p) ==
    /\ At(p, "putMap")
    /\ configMaps' = [configMaps EXCEPT ![Top(p).key] = {}]
    /\ Return(p)
    /\ UNCHANGED <<objects, command, started, faults>>

\* ... and post it, or put the one it has read with new data.  The put carries the
\* resourceVersion, so it keeps the references or is refused; post is refused if
\* the map is there.  The wrapper drops the error of either.
PutMap(p) ==
    /\ At(p, "putMap")
    /\ \/ /\ configMaps' = [configMaps EXCEPT ![Top(p).key] =
                               IF @ = NoMap /\ ~Top(p).found THEN {} ELSE @]
          /\ UNCHANGED faults
       \/ /\ faults < MaxFaults
          /\ faults' = faults + 1
          /\ UNCHANGED configMaps
    /\ Return(p)
    /\ UNCHANGED <<objects, command, started>>

-----------------------------------------------------------------------------
(* delete: wrapDelete and dependency.Delete *)

\* remainingReferences of a config map that was read or patched
Remaining(m) == IF m = NoMap THEN 0 ELSE Cardinality(m)

CheckReferences(p) ==
    /\ At(p, "check")
    /\ IF ~command[p].force /\ Remaining(configMaps[Top(p).key]) > 0
       THEN Fail(p)
       ELSE Goto(p, [Top(p) EXCEPT !.step = "deleteMap"]) /\ UNCHANGED result
    /\ UNCHANGED <<configMaps, objects, command, started, faults>>

\* (variant: references are removed first, the chart's objects afterwards)
DeleteMapAndRelease(p) ==
    /\ At(p, "deleteMap")
    /\ configMaps' = [k \in Keys |->
          IF k = Top(p).key \/ configMaps[k] = NoMap THEN NoMap
          ELSE IF \E d \in DependsOn[Top(p).inst] : k = ListedKey(d)
               THEN configMaps[k] \ {UsedBy(Top(p).inst)}
               ELSE configMaps[k]]
    /\ Goto(p, [Top(p) EXCEPT !.step = "deleteObjects"])
    /\ UNCHANGED <<objects, command, result, started, faults>>

DeleteMap(p) ==
    /\ At(p, "deleteMap")
    /\ configMaps' = [configMaps EXCEPT ![Top(p).key] = NoMap]
    /\ Goto(p, [Top(p) EXCEPT !.step = "deleteObjects"])
    /\ UNCHANGED <<objects, command, result, started, faults>>

\* The wrapped delete; a chart listed in the wrong namespace deletes nothing.
DeleteObjects(p) ==
    /\ At(p, "deleteObjects")
    /\ objects' = [objects EXCEPT ![Top(p).inst] =
                      IF Top(p).key = Key(Top(p).inst) THEN "none" ELSE @]
    /\ Goto(p, [Top(p) EXCEPT !.step = "release"])
    /\ UNCHANGED <<configMaps, command, result, started, faults>>

DeleteObjectsFails(p) ==
    /\ At(p, "deleteObjects")
    /\ faults < MaxFaults
    /\ faults' = faults + 1
    /\ objects' = [objects EXCEPT ![Top(p).inst] =
                      IF Top(p).key = Key(Top(p).inst) /\ @ # "none" THEN "some" ELSE @]
    /\ Fail(p)
    /\ UNCHANGED <<configMaps, command, started>>

\* (variant: references are only removed on the way to a recursive delete)
ReleaseRecursiveOnly(p) ==
    /\ At(p, "release")
    /\ \E d \in Top(p).todo :
          Goto(p, [Top(p) EXCEPT !.todo = @ \ {d}, !.dep = d,
                      !.step = IF configMaps[Key(d)] # NoMap /\ command[p].recursive
                               THEN "removeUsedBy" ELSE "release"])
    /\ UNCHANGED <<configMaps, objects, command, result, started, faults>>

\* The next dependency is listed; one that is not installed is left alone.
ReleaseDependency(p) ==
    /\ At(p, "release")
    /\ \E d \in Top(p).todo :
          Goto(p, [Top(p) EXCEPT !.todo = @ \ {d}, !.dep = d,
                      !.step = IF configMaps[Key(d)] = NoMap THEN "release"
                               ELSE "removeUsedBy"])
    /\ UNCHANGED <<configMaps, objects, command, result, started, faults>>

\* (variant: the remaining references are not asked for)
RemoveUsedByOnly(p) ==
    /\ At(p, "removeUsedBy")
    /\ LET k == ListedKey(Top(p).dep) IN
       configMaps' = [configMaps EXCEPT ![k] =
                         IF @ = NoMap THEN NoMap ELSE @ \ {UsedBy(Top(p).inst)}]
    /\ Goto(p, [Top(p) EXCEPT !.step = "release"])
    /\ UNCHANGED <<objects, command, result, started, faults>>

\* The reference is taken out; if none remain a recursive delete goes on with the
\* dependency.  A missing map (404) or annotation (422) counts as no reference.
RemoveUsedBy(p) ==
    /\ At(p, "removeUsedBy")
    /\ LET d == Top(p).dep
           k == ListedKey(d)
           frame == [Top(p) EXCEPT !.step = "release"]
           missing == configMaps[k] = NoMap \/ UsedBy(Top(p).inst) \notin configMaps[k]
           left == IF missing THEN 0
                   ELSE Cardinality(configMaps[k] \ {UsedBy(Top(p).inst)})
       IN  /\ configMaps' = IF missing THEN configMaps
                            ELSE [configMaps EXCEPT ![k] = @ \ {UsedBy(Top(p).inst)}]
           /\ IF command[p].recursive /\ left = 0
              THEN Call(p, frame, Frame(d, k, "check"))
              ELSE Goto(p, frame)
    /\ UNCHANGED <<objects, command, result, started, faults>>

\* The patch fails, whether it took effect or not: no reference is counted, so a
\* recursive delete goes on with the dependency before it returns the error.
RemoveUsedByFails(p) ==
    /\ At(p, "removeUsedBy")
    /\ faults < MaxFaults
    /\ faults' = faults + 1
    /\ LET k == ListedKey(Top(p).dep) IN
       /\ \/ UNCHANGED configMaps
          \/ /\ configMaps[k] # NoMap
             /\ configMaps' = [configMaps EXCEPT ![k] = @ \ {UsedBy(Top(p).inst)}]
       /\ IF command[p].recursive
          THEN /\ Call(p, [Top(p) EXCEPT !.step = "failed"], Frame(Top(p).dep, k, "check"))
               /\ UNCHANGED result
          ELSE Fail(p)
    /\ UNCHANGED <<objects, command, started>>

ReleaseFailed(p) ==
    /\ At(p, "failed")
    /\ Fail(p)
    /\ UNCHANGED <<configMaps, objects, command, started, faults>>

DependenciesReleased(p) ==
    /\ At(p, "release")
    /\ Top(p).todo = {}
    /\ Return(p)
    /\ UNCHANGED <<configMaps, objects, command, started, faults>>

-----------------------------------------------------------------------------

Step(p) ==
    \/ ApplyDependency(p) \/ AddUsedBy(p) \/ DependenciesApplied(p)
    \/ ApplyObjects(p) \/ ApplyObjectsFails(p) \/ GetMap(p) \/ PutMap(p)
    \/ CheckReferences(p) \/ DeleteMap(p) \/ DeleteObjects(p) \/ DeleteObjectsFails(p)
    \/ ReleaseDependency(p) \/ RemoveUsedBy(p) \/ DependenciesReleased(p)
    \/ RemoveUsedByFails(p) \/ ReleaseFailed(p)

Next == \E p \in Procs : Start(p) \/ Killed(p) \/ Step(p)

Spec == Init /\ [][Next]_vars

-----------------------------------------------------------------------------
(* Properties *)

Idle == \A p \in Procs : stack[p] = <<>>

\* "If you install this package, kdo automatically ensures, that all required
\* dependencies are installed": between commands every chart with objects in the
\* cluster has its dependencies there in full, and each of them knows that it is
\* used, wherever earlier commands failed or were killed.
DependenciesHeld ==
    Idle => \A i \in Instances, d \in Instances :
               objects[i] # "none" /\ d \in DependsOn[i] =>
                  /\ objects[d] = "all"
                  /\ configMaps[Key(d)] # NoMap
                  /\ UsedBy(i) \in configMaps[Key(d)]

\* As long as nothing fails no reference outlives the chart that left it: every
\* chart that nobody uses can be deleted.
NoDanglingReferences ==
    Idle /\ faults = 0 =>
        \A k \in Keys : configMaps[k] # NoMap =>
            \A r \in configMaps[k] :
                \E i \in Instances : UsedBy(i) = r /\ objects[i] # "none"

\* A recursive delete that succeeds leaves none of the dependencies that nobody
\* else uses (dependency.Delete deletes at zero references).
RecursiveDeleteCleans ==
    [][\A p \in Procs :
         /\ At(p, "release")
         /\ Len(stack[p]) = 1
         /\ stack'[p] = <<>>
         /\ result'[p] = "ok"
         /\ command[p].recursive
         /\ faults = 0
         => \A d \in DependsOn[Top(p).inst] :
               configMaps[Key(d)] = NoMap \/ configMaps[Key(d)] # {}]_vars
=============================================================================
