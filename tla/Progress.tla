------------------------------ MODULE Progress ------------------------------
(***************************************************************************)
(* Running the tool, and how far an installation is (pkg/k8s/k8s.go, and   *)
(* the callers of it in pkg/kdo).  Every apply of a chart works on a K8s   *)
(* handle of its own, cloned from its caller's; a handle averages what it  *)
(* has done itself with what its clones report, and reports that to the    *)
(* handle it was cloned from, up to the one the command or the controller  *)
(* subscribed to.  The objects of a chart are written to a kubectl or kapp *)
(* process, whose output another goroutine reads, line by line.            *)
(***************************************************************************)
EXTENDS Integers, Sequences, FiniteSets

CONSTANTS Charts, Root,
          SubCharts,     \* Charts -> SUBSET Charts
          Dependencies,  \* Charts -> SUBSET Charts
          Objects,       \* Charts -> numbers of objects __apply may render, by its glob
          Custom,        \* charts with an apply function in their Chart.star
          Repeats,       \* bound: how often such a function makes the same call
          Reports,       \* what it passes to k8s.progress
          OwnTools,      \* what it sets k8s.tool to
          Tool           \* the --tool flag

ASSUME ShapeAssumption ==
    /\ Root \in Charts /\ Custom \subseteq Charts /\ IsFiniteSet(Charts)
    /\ SubCharts \in [Charts -> SUBSET Charts]
    /\ \A c \in Charts : c \notin SubCharts[c]
    /\ Dependencies \in [Charts -> SUBSET Charts]
    /\ Objects \in [Charts -> SUBSET Nat]
    /\ Repeats \in Nat /\ Reports \subseteq 0..100 /\ {Tool} \cup OwnTools \subseteq {"kubectl", "kapp"}

VARIABLES handles,   \* the K8s handles; the first is the caller's
          stack,     \* the applies that run, the innermost first
          needed,    \* Charts -> the dependencies that are not resolved yet
          shown,     \* what the subscriber saw last
          outcome,   \* of the outermost apply
          broken,    \* a tool that was given objects has failed
          abandoned  \* tools whose output is still read, though nobody waits for them

progressVars == <<handles, stack, needed, shown, outcome, broken, abandoned>>

\* children: the number of sub charts the handle was announced with; child: what its
\* clones have told it last.
Handle(parent, index, children, tool) ==
    [parent |-> parent, index |-> index, children |-> children, local |-> 0,
     child |-> <<>>, last |-> 0, tool |-> tool]

Calls(c) == SubCharts[c] \cup {c}   \* c itself stands for __apply

\* entered: through Chart.Apply, which sub charts are not.
Frame(c, h, entered) ==
    [chart |-> c, handle |-> h, entered |-> entered,
     left |-> [s \in Calls(c) |-> IF c \in Custom THEN Repeats ELSE 1],
     step |-> "body", count |-> 0, matched |-> 0]

-----------------------------------------------------------------------------
(* Reporting *)

Sum(s) == LET sum[n \in 0..Len(s)] == IF n = 0 THEN 0 ELSE sum[n - 1] + s[n]
          IN  sum[Len(s)]

\* (variant: the average of the clones there are, with a share of its own on top)
AverageOfClones(h) ==
    (h.local + Sum(h.child)) \div (IF h.child = <<>> THEN 1 ELSE Len(h.child))

\* reportProgress
Average(h) == (h.local + Sum(h.child)) \div (h.children + 1)

\* Multiples of five are passed on.
Rounded(value) == (value \div 5) * 5

WithLast(hs, n, v) == [hs EXCEPT ![n].last = v]
WithSlot(hs, n, i, v) == [hs EXCEPT ![n].child[i] = v]

\* Configs.Progress on handle r.at, if there is still one to be told: only news are
\* passed on, to the subscriber or to the slot in the handle it was cloned from,
\* whose average is then reported in its turn.
Tell(r) ==
    LET h == r.handles[r.at]
        v == Rounded(r.value)
        told == WithLast(r.handles, r.at, v)
        up == WithSlot(told, h.parent, h.index, v)
    IN  IF r.at = 0 \/ v = h.last THEN [r EXCEPT !.at = 0]
        ELSE IF h.parent = 0 THEN [r EXCEPT !.at = 0, !.handles = told, !.shown = v]
        ELSE [r EXCEPT !.at = h.parent, !.handles = up, !.value = Average(up[h.parent])]

\* Handles have higher numbers than the one they were cloned from: after n calls
\* nobody is left to be told.
Progress(hs, n, value) ==
    LET told[k \in 0..n] ==
            IF k = 0 THEN [handles |-> hs, at |-> n, value |-> value, shown |-> shown]
            ELSE Tell(told[k - 1])
    IN  told[n]

Report(hs, n, value) ==
    LET r == Progress(hs, n, value) IN handles' = r.handles /\ shown' = r.shown

\* k.Progress, called from outside
Direct(n, value) == Report(handles, n, value)

\* (variant: all clones of a handle share its first slot)
CloneSharing(hs, n, c) ==
    Append([hs EXCEPT ![n].child = IF @ = <<>> THEN <<0>> ELSE @],
           Handle(n, 1, Cardinality(SubCharts[c]), "kubectl"))

\* ForSubChart: addProgressSubscription and clone
Clone(hs, n, c) ==
    Append([hs EXCEPT ![n].child = Append(@, 0)],
           Handle(n, Len(hs[n].child) + 1, Cardinality(SubCharts[c]), "kubectl"))

\* (variant: more lines than objects count as well)
IgnoredEmpty(matched, count) == count = 0

\* What progressCb ignores: nothing to install, or more lines than objects.
Ignored(matched, count) == count = 0 \/ matched > count

\* progressCb
Local(h, matched, count) ==
    IF Ignored(matched, count) THEN h ELSE [h EXCEPT !.local = (matched * 90) \div count]

-----------------------------------------------------------------------------
(* Applying *)

ProgressInit ==
    /\ handles = Clone(<<Handle(0, 0, 0, Tool)>>, 1, Root)
    /\ stack = <<Frame(Root, 2, TRUE)>>
    /\ needed = Dependencies
    /\ shown = 0
    /\ outcome = "running"
    /\ broken = FALSE
    /\ abandoned = {}

Top == Head(stack)
At(step) == stack # <<>> /\ Top.step = step
Goto(frame) == stack' = <<frame>> \o Tail(stack)

\* The body of an apply runs; its dependencies are resolved.
InBody == At("body") /\ needed[Top.chart] = {}

\* wrapNamespace: the callee gets a clone of its caller's handle.
Call(frame, c, entered) ==
    /\ handles' = Clone(handles, Top.handle, c)
    /\ stack' = <<Frame(c, Len(handles) + 1, entered), frame>> \o Tail(stack)

\* dependency.Apply: the dependency's handle is a clone of the dependent's.
ApplyDependency ==
    /\ At("body")
    /\ \E d \in needed[Top.chart] :
          /\ needed' = [needed EXCEPT ![Top.chart] = @ \ {d}]
          /\ Call(Top, d, TRUE)
    /\ UNCHANGED <<shown, outcome, broken, abandoned>>

\* The dependency is found among the installed charts.
FindDependency ==
    /\ At("body")
    /\ \E d \in needed[Top.chart] : needed' = [needed EXCEPT ![Top.chart] = @ \ {d}]
    /\ UNCHANGED <<handles, stack, shown, outcome, broken, abandoned>>

ApplySubChart ==
    /\ InBody
    /\ \E s \in SubCharts[Top.chart] :
          /\ Top.left[s] > 0
          /\ Call([Top EXCEPT !.left[s] = @ - 1], s, FALSE)
    /\ UNCHANGED <<needed, shown, outcome, broken, abandoned>>

\* applyLocal; chartImpl.apply comes to it after the sub charts.
ApplyLocal ==
    /\ InBody
    /\ Top.left[Top.chart] > 0
    /\ Top.chart \in Custom \/ \A s \in SubCharts[Top.chart] : Top.left[s] = 0
    /\ \E count \in Objects[Top.chart] :
          Goto([Top EXCEPT !.left[Top.chart] = @ - 1, !.step = "writing",
                   !.count = count, !.matched = 0])
    /\ UNCHANGED <<handles, needed, shown, outcome, broken, abandoned>>

Matched(n, matched, count) ==
    LET h == Local(handles[n], matched, count)
    IN  IF Ignored(matched, count) THEN UNCHANGED <<handles, shown>>
        ELSE Report([handles EXCEPT ![n] = h], n, Average(h))

\* A line of kubectl: one for each object, and one for each item of a list.
KubectlPrints ==
    /\ At("writing") \/ At("waiting")
    /\ handles[Top.handle].tool = "kubectl"
    /\ Top.matched <= Top.count
    /\ Matched(Top.handle, Top.matched + 1, Top.count)
    /\ Goto([Top EXCEPT !.matched = @ + 1])
    /\ UNCHANGED <<needed, outcome, broken, abandoned>>

\* kapp tells both numbers, of the objects it waits for at the time.
KappPrints ==
    /\ At("waiting")
    /\ handles[Top.handle].tool = "kapp"
    /\ \E count \in 1..Top.count : \E matched \in 0..count :
          Matched(Top.handle, matched, count)
    /\ UNCHANGED <<stack, needed, outcome, broken, abandoned>>

-----------------------------------------------------------------------------
(* runWithStdin *)

\* (variant: the process is not waited for)
WrittenAbandoning ==
    /\ At("writing")
    /\ abandoned' = abandoned \cup {[handle |-> Top.handle, matched |-> Top.matched,
                                     count |-> Top.count]}
    /\ Goto([Top EXCEPT !.step = "waiting"])
    /\ UNCHANGED <<handles, needed, shown, outcome, broken>>

\* The objects are rendered, counted and sorted, and then written.
Written ==
    /\ At("writing")
    /\ Goto([Top EXCEPT !.step = "waiting"])
    /\ UNCHANGED <<handles, needed, shown, outcome, broken, abandoned>>

\* An error ends every apply on the stack.
Fail == stack' = <<>> /\ outcome' = "failed"

\* The tool cannot be started, or the chart cannot be rendered: nothing is written.
StartFails ==
    /\ At("writing")
    /\ Top.matched = 0
    /\ Fail
    /\ UNCHANGED <<handles, needed, shown, broken, abandoned>>

\* A write fails halfway: the error is returned, and the process is left behind.
WriteFails ==
    /\ At("writing")
    /\ Top.count > 0
    /\ abandoned' = abandoned \cup {[handle |-> Top.handle, matched |-> Top.matched,
                                     count |-> Top.count]}
    /\ Fail
    /\ UNCHANGED <<handles, needed, shown, broken>>

LatePrints ==
    /\ \E t \in abandoned :
          /\ t.matched <= t.count
          /\ abandoned' = (abandoned \ {t}) \cup {[t EXCEPT !.matched = @ + 1]}
          /\ Matched(t.handle, t.matched + 1, t.count)
    /\ UNCHANGED <<stack, needed, outcome, broken>>

ToolSucceeds ==
    /\ At("waiting")
    /\ Goto([Top EXCEPT !.step = "body"])
    /\ UNCHANGED <<handles, needed, shown, outcome, broken, abandoned>>

\* (variant: a tool that has not printed a line yet counts as one without input)
ToolFailsUnlessQuiet ==
    /\ At("waiting")
    /\ broken' = (broken \/ Top.count > 0)
    /\ IF Top.matched = 0
       THEN Goto([Top EXCEPT !.step = "body"]) /\ UNCHANGED outcome
       ELSE Fail
    /\ UNCHANGED <<handles, needed, shown, abandoned>>

\* Without any input kubectl fails as well, which is no error.
ToolFails ==
    /\ At("waiting")
    /\ broken' = (broken \/ Top.count > 0)
    /\ IF Top.count = 0
       THEN Goto([Top EXCEPT !.step = "body"]) /\ UNCHANGED outcome
       ELSE Fail
    /\ UNCHANGED <<handles, needed, shown, abandoned>>

-----------------------------------------------------------------------------
(* The ends of an apply, and apply functions of the chart's own *)

\* k8s.progress and k8s.tool in an apply function of the chart's own
OwnProgress ==
    /\ InBody /\ Top.chart \in Custom
    /\ \E value \in Reports : Direct(Top.handle, value)
    /\ UNCHANGED <<stack, needed, outcome, broken, abandoned>>

SetTool ==
    /\ InBody /\ Top.chart \in Custom
    /\ \E tool \in OwnTools :
          handles' = [handles EXCEPT ![Top.handle].tool = tool]
    /\ UNCHANGED <<stack, needed, shown, outcome, broken, abandoned>>

Finished ==
    /\ InBody
    /\ Top.chart \in Custom \/ \A s \in Calls(Top.chart) : Top.left[s] = 0

EndApply ==
    /\ stack' = Tail(stack)
    /\ outcome' = IF Len(stack) = 1 THEN "applied" ELSE outcome
    /\ UNCHANGED <<needed, broken, abandoned>>

\* The end of an apply; Chart.Apply then reports 100 on the handle it was given,
\* which is its caller's.
Applied ==
    /\ Finished
    /\ EndApply
    /\ IF Top.entered
       THEN Direct(handles[Top.handle].parent, 100)
       ELSE UNCHANGED <<handles, shown>>

ProgressNext ==
    \/ ApplyDependency \/ FindDependency \/ ApplySubChart \/ ApplyLocal
    \/ Written \/ StartFails \/ WriteFails \/ ToolSucceeds \/ ToolFails
    \/ KubectlPrints \/ KappPrints \/ LatePrints
    \/ OwnProgress \/ SetTool \/ Applied

ProgressSpec == ProgressInit /\ [][ProgressNext]_progressVars

-----------------------------------------------------------------------------
(* Properties *)

\* No more is averaged than the handle was announced with: clones, and a share of its own.
Fits(h) == Len(h.child) + (IF h.local > 0 THEN 1 ELSE 0) <= h.children + 1

\* Its progress was set, and has not been averaged since.
Overridden(h) == h.last # Rounded(Average(h))

\* "Progress of installation in percent": what the subscriber sees, the status of a
\* KdoChart for one, lies between 0 and 100 however the applies nest, unless a chart
\* applies more charts than its handle was announced with: a dependency, or a sub chart
\* again.
InPercent == (\A n \in DOMAIN handles : Fits(handles[n])) => shown \in 0..100

\* A handle's own share never exceeds the 90 percent progressCb leaves to the tool;
\* every clone has a slot in an older handle, and what it has told last lies there.
ProgressTypeOK ==
    /\ \A n \in DOMAIN handles :
          /\ handles[n].local \in 0..90
          /\ handles[n].last \in Nat /\ handles[n].last % 5 = 0
          /\ handles[n].parent < n
          /\ LET slots == handles[handles[n].parent].child
             IN  handles[n].parent # 0 =>
                    /\ handles[n].index \in DOMAIN slots
                    /\ slots[handles[n].index] = handles[n].last
    /\ \A n \in DOMAIN stack : stack[n].handle \in DOMAIN handles
    /\ needed \in [Charts -> SUBSET Charts]
    /\ shown \in Nat
    /\ outcome \in {"running", "applied", "failed"}
    /\ broken \in BOOLEAN
    /\ \A t \in abandoned : t.handle \in DOMAIN handles /\ t.matched \in 0..(t.count + 1)

\* Progress is only taken back where a tool is: it starts again on the same handle
\* (__apply twice), or it counts anew (kapp); or it was set by an apply function or the
\* end of a dependency's apply, to something else than the average.
NeverBackwards ==
    [][shown' < shown =>
          \E n \in DOMAIN handles : \/ handles'[n].local < handles[n].local
                                   \/ Overridden(handles[n]) \/ Overridden(handles'[n])]_progressVars

\* 100 is seen when the outermost apply has succeeded, whatever was reported before:
\* nothing is reported after it by a goroutine that still reads the output of a tool.
\* What is averaged stays below it until then: if 100 is shown earlier, a handle was
\* told so, or does not fit.
DoneMeansDone ==
    /\ outcome = "applied" => shown = 100
    /\ shown >= 100 => \/ outcome = "applied"
                       \/ \E n \in DOMAIN handles :
                             Overridden(handles[n]) \/ ~Fits(handles[n])

\* A successful apply means that every tool that was given objects has succeeded:
\* only the failure of one without input is forgiven.
SuccessIsHonest == outcome = "applied" => ~broken
=============================================================================
