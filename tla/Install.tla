------------------------------ MODULE Install -------------------------------
(***************************************************************************)
(* What `kdo apply' and `kdo delete' do to a cluster for a chart and its   *)
(* sub charts (pkg/kdo/chart.go, chart_template.go; pkg/k8s: k8s.go,       *)
(* object_stream.go, object.go): the sub charts come first, then the       *)
(* chart's own templates are rendered, sorted and handed to kubectl; a     *)
(* config map (and a secret) records that the chart is there.  kubectl is  *)
(* external.  Dependencies, jewels and progress have modules of their own. *)
(***************************************************************************)
EXTENDS Naturals, Sequences, FiniteSets, SequencesExt

CONSTANTS Root,         \* the chart the commands are for
          Subs,         \* chart -> its sub charts
          Manifest,     \* chart -> the documents its templates render to
          Blank,        \* a document without content
          MaxCommands,  \* bound: commands
          MaxFaults     \* bound: calls that fail, and commands that are killed

Charts == DOMAIN Manifest

\* The objects of a chart: [kind, name]; the namespace is the chart's.
Docs(c) == {Manifest[c][n] : n \in DOMAIN Manifest[c]}
Objects(c) == {<<c, d>> : d \in Docs(c) \ {Blank}}
AllObjects == UNION {Objects(c) : c \in Charts}

ASSUME TreeAssumption ==
    /\ Root \in Charts /\ Subs \in [Charts -> SUBSET (Charts \ {Root})]
    /\ \A c, d \in Charts : c # d => Subs[c] \cap Subs[d] = {}
ASSUME ManifestAssumption == \A c \in Charts : Manifest[c] \in Seq(Docs(c))
ASSUME BoundsAssumption == MaxCommands \in Nat /\ MaxFaults \in Nat

VARIABLES cluster,   \* the objects that are there
          record,    \* the charts that have a config map
          command,   \* "apply" or "delete", the one that runs or has run last
          stack,     \* its calls, the innermost last: [chart, at, subs]
          docs,      \* what is not decoded yet of the documents
          objs,      \* what Sort has collected, or what is not yet given to kubectl
          refused,   \* objects kubectl could not create or delete
          result,    \* "ok" or "failed", of the last command; "running"
          commands, faults

vars == <<cluster, record, command, stack, docs, objs, refused, result, commands, faults>>

Steps == {"begin", "unrecord", "subs", "render", "kubectl", "record"}

TypeOK ==
    /\ cluster \subseteq AllObjects /\ refused \subseteq AllObjects
    /\ record \subseteq Charts
    /\ command \in {"none", "apply", "delete"}
    /\ stack \in Seq([chart: Charts, at: Steps, subs: SUBSET Charts])
    /\ \A n \in DOMAIN stack : stack[n].chart = Root <=> n = 1
    /\ \A n \in 2..Len(stack) : /\ stack[n].chart \in Subs[stack[n - 1].chart]
                                /\ stack[n].chart \notin stack[n - 1].subs
    /\ docs \in Seq(UNION {Docs(c) : c \in Charts})
    /\ objs \in Seq(AllObjects)
    /\ result \in {"ok", "failed", "running"}
    /\ result = "running" <=> stack # <<>>
    /\ commands \in 0..MaxCommands /\ faults \in 0..MaxFaults

Init == /\ cluster = {} /\ record = {} /\ refused = {}
        /\ command = "none" /\ result = "ok"
        /\ stack = <<>> /\ docs = <<>> /\ objs = <<>>
        /\ commands = 0 /\ faults = 0

-----------------------------------------------------------------------------
(* The order *)

\* (kindOrdinal has "namespace" where the kind is "Namespace".)
InstallKinds ==
    <<"namespace", "NetworkPolicy", "ResourceQuota", "LimitRange", "PodSecurityPolicy",
      "PodDisruptionBudget", "Secret", "ConfigMap", "StorageClass", "PersistentVolume",
      "PersistentVolumeClaim", "ServiceAccount", "CustomResourceDefinition", "ClusterRole",
      "ClusterRoleList", "ClusterRoleBinding", "ClusterRoleBindingList", "Role", "RoleList",
      "RoleBinding", "RoleBindingList", "Service", "DaemonSet", "Pod",
      "ReplicationController", "ReplicaSet", "Deployment", "HorizontalPodAutoscaler",
      "StatefulSet", "Job", "CronJob", "Ingress", "APIService">>

kindOrdinal(o) ==
    LET kind == o[2].kind
    IN  IF \E n \in DOMAIN InstallKinds : InstallKinds[n] = kind
        THEN CHOOSE n \in DOMAIN InstallKinds : InstallKinds[n] = kind
        ELSE 1000

\* compare(o1, o2) < 0; names are numbers
Before(o1, o2) == \/ kindOrdinal(o1) < kindOrdinal(o2)
                  \/ kindOrdinal(o1) = kindOrdinal(o2) /\ o1[2].name < o2[2].name

Permuted(s) == {[n \in DOMAIN s |-> s[p[n]]] : p \in Bijection(DOMAIN s, DOMAIN s)}

\* (variant: what is deleted is not sorted the other way round)
SortedForward(s, reverse) ==
    {t \in Permuted(s) : \A m, n \in DOMAIN s : m < n => ~Before(t[n], t[m])}

\* What sort.Slice may return: with reverse the comparison is >=, which leaves open what it
\* does with objects that compare equal, as < does: it is not stable.
Sorted(s, reverse) ==
    {t \in Permuted(s) : \A m, n \in DOMAIN s : m < n =>
        IF reverse THEN ~Before(t[m], t[n]) ELSE ~Before(t[n], t[m])}

-----------------------------------------------------------------------------
(* Calls *)

At(step) == stack # <<>> /\ Last(stack).at = step
Top == Last(stack)
Replaced(frame) == Append(Front(stack), frame)
Goto(step) == stack' = Replaced([Top EXCEPT !.at = step])
Frame(c) == [chart |-> c, at |-> "begin", subs |-> Subs[c]]

\* A step of the command that fails ends it, and so does whoever kills it.
Fail ==
    /\ stack # <<>> /\ faults < MaxFaults
    /\ faults' = faults + 1
    /\ stack' = <<>> /\ docs' = <<>> /\ objs' = <<>>
    /\ result' = "failed"
    /\ UNCHANGED <<cluster, record, command, refused, commands>>

\* kdo apply, kdo delete: chart.Apply, chart.Delete
Command(op) ==
    /\ stack = <<>> /\ commands < MaxCommands
    /\ commands' = commands + 1
    /\ command' = op
    /\ stack' = <<Frame(Root)>>
    /\ result' = "running"
    /\ UNCHANGED <<cluster, record, docs, objs, refused, faults>>

\* (variant: the config map is left to the one who deletes the namespace)
BeginRecorded ==
    /\ At("begin")
    /\ Goto("subs")
    /\ UNCHANGED <<cluster, record, command, docs, objs, refused, result, commands, faults>>

\* wrapApply and wrapDelete, before the chart's own apply or delete
Begin ==
    /\ At("begin")
    /\ Goto(IF command = "delete" THEN "unrecord" ELSE "subs")
    /\ UNCHANGED <<cluster, record, command, docs, objs, refused, result, commands, faults>>

\* The config map and then the secret are deleted.
Unrecord ==
    /\ At("unrecord")
    /\ record' = record \ {Top.chart}
    /\ Goto("subs")
    /\ UNCHANGED <<cluster, command, docs, objs, refused, result, commands, faults>>

\* (variant: the sub chart is not ticked off)
SubChartAgain ==
    /\ At("subs")
    /\ \E c \in Top.subs : stack' = Append(stack, Frame(c))
    /\ UNCHANGED <<cluster, record, command, docs, objs, refused, result, commands, faults>>

\* eachSubChart: a map is walked, in any order.
SubChart ==
    /\ At("subs")
    /\ \E c \in Top.subs :
          stack' = Append(Replaced([Top EXCEPT !.subs = @ \ {c}]), Frame(c))
    /\ UNCHANGED <<cluster, record, command, docs, objs, refused, result, commands, faults>>

Local ==
    /\ At("subs") /\ Top.subs = {}
    /\ Goto("render")
    /\ docs' = Manifest[Top.chart] /\ objs' = <<>>
    /\ UNCHANGED <<cluster, record, command, refused, result, commands, faults>>

-----------------------------------------------------------------------------
(* applyLocal, deleteLocal *)

\* Template, Decode, Map and what Sort collects; a document without content is skipped.
Collect ==
    /\ At("render") /\ docs # <<>>
    /\ objs' = IF Head(docs) = Blank THEN objs ELSE Append(objs, <<Top.chart, Head(docs)>>)
    /\ docs' = Tail(docs)
    /\ UNCHANGED <<cluster, record, command, stack, refused, result, commands, faults>>

\* Nothing is written before everything is decoded.
Sort ==
    /\ At("render") /\ docs = <<>>
    /\ objs' \in Sorted(objs, command = "delete")
    /\ Goto("kubectl")
    /\ UNCHANGED <<cluster, record, command, docs, refused, result, commands, faults>>

\* kubectl apply -f - or kubectl delete --ignore-not-found -f -: object by object, and
\* with the next one if one cannot be created or deleted.
Kubectl ==
    /\ At("kubectl") /\ objs # <<>>
    /\ objs' = Tail(objs)
    /\ \/ /\ cluster' = IF command = "apply" THEN cluster \cup {Head(objs)}
                                             ELSE cluster \ {Head(objs)}
          /\ refused' = refused \ {Head(objs)}
          /\ UNCHANGED faults
       \/ /\ faults < MaxFaults
          /\ faults' = faults + 1
          /\ refused' = refused \cup {Head(objs)}
          /\ UNCHANGED cluster
    /\ UNCHANGED <<record, command, stack, docs, result, commands>>

Return == /\ stack' = Front(stack)
          /\ result' = IF Len(stack) = 1 THEN "ok" ELSE result

\* kubectl exits with an error if it could not do something for an object of this chart.
\* One that mentions NotFound is forgiven to kubectl delete, whatever else it says.
Exits ==
    /\ At("kubectl") /\ objs = <<>>
    /\ \/ /\ Objects(Top.chart) \cap refused # {}
          /\ stack' = <<>> /\ result' = "failed"
       \/ /\ Objects(Top.chart) \cap refused = {} /\ command = "apply"
          /\ Goto("record") /\ UNCHANGED result
       \/ /\ command = "delete"
          /\ Return
    /\ UNCHANGED <<cluster, record, command, docs, objs, refused, commands, faults>>

\* CreateOrUpdate of the config map; an error is not returned.
Record ==
    /\ At("record")
    /\ \/ record' = record \cup {Top.chart} /\ UNCHANGED faults
       \/ faults < MaxFaults /\ faults' = faults + 1 /\ UNCHANGED record
    /\ Return
    /\ UNCHANGED <<cluster, command, docs, objs, refused, commands>>

Next == \/ \E op \in {"apply", "delete"} : Command(op)
        \/ Fail \/ Begin \/ Unrecord \/ SubChart \/ Local
        \/ Collect \/ Sort \/ Kubectl \/ Exits \/ Record

Spec == Init /\ [][Next]_vars

-----------------------------------------------------------------------------
(* Properties *)

\* The chart and all charts below it.
Closed(charts) == \A c \in charts : Subs[c] \subseteq charts
Tree(c) == {d \in Charts : \A charts \in SUBSET Charts : c \in charts /\ Closed(charts) => d \in charts}

\* A chart is recorded only while it is there as a whole, with all charts below it, whichever
\* call fails and whenever a command is killed: wrapApply records it at the end, wrapDelete
\* takes the record away at the beginning.
RecordHonest ==
    \A c \in record : \A d \in Tree(c) : Objects(d) \subseteq cluster

\* An object of a chart is there only while those that are to be installed before it are
\* ("Sorts in install order", "Sorts in uninstall order"), but for the ones kubectl could
\* not create or delete.
PrerequisitesFirst ==
    \A c \in Charts : \A o, p \in Objects(c) :
        o \in cluster /\ kindOrdinal(p) < kindOrdinal(o) =>
            p \in cluster \/ {o, p} \cap refused # {}
=============================================================================
