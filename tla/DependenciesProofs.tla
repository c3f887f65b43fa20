-------------------------- MODULE DependenciesProofs --------------------------
(***************************************************************************)
(* Proofs about Dependencies, for any charts and any dependencies between  *)
(* them, any number of users and commands: what a chart depends on stays   *)
(* as long as the chart is there, and references go with their users.      *)
(* Setting names the conditions; without each of them the code breaks the  *)
(* properties, see README.                                                 *)
(***************************************************************************)
EXTENDS Dependencies, FiniteSetTheorems, SequenceTheorems, TLAPS

\* A config map that is read back names the chart it is of, and only applies overlap.
Setting ==
    /\ \A i \in Instances : NamespaceOf[i] = DefaultNamespace
    /\ \A i, j \in Instances : GenusOf[i] = GenusOf[j] => i = j
    /\ \A c \in Overlapping : c.op = "apply"
    /\ \A c \in Commands : ~c.force

-----------------------------------------------------------------------------
(* The invariant.  It is about objects and config maps as parameters, o and *)
(* m, so that the lemmas below can speak of the states before and after a   *)
(* step.                                                                    *)

\* Dependency d of chart i is installed and knows that it is used.
Held(i, d, o, m) == o[d] = "all" /\ m[Key(d)] # NoMap /\ UsedBy(i) \in m[Key(d)]

\* No chart that is there depends on d.
Unused(d, o) == \A i \in Instances : d \in DependsOn[i] => o[i] = "none"

\* The dependencies of a frame that it is done with.
Done(f) ==
    DependsOn[f.inst] \
        (f.todo \cup IF f.step \in {"addUsedBy", "addUsedByNew", "removeUsedBy"} THEN {f.dep} ELSE {})

ApplyFrame(f, o, m) ==
    /\ f.step \in {"dependencies", "addUsedBy", "addUsedByNew", "applyObjects", "getMap", "putMap"}
    /\ f.step \in {"addUsedBy", "addUsedByNew"} => f.dep \in DependsOn[f.inst]
    /\ f.step = "addUsedBy" => m[Key(f.dep)] # NoMap
    /\ f.step \in {"dependencies", "addUsedBy", "addUsedByNew"} =>
          \A d \in Done(f) : Held(f.inst, d, o, m)
    /\ f.step = "applyObjects" => \A d \in DependsOn[f.inst] : Held(f.inst, d, o, m)
    /\ f.step \in {"getMap", "putMap"} => o[f.inst] = "all"
    /\ f.step = "putMap" /\ f.found => m[f.key] # NoMap

DeleteFrame(f, o, m) ==
    /\ f.step \in {"check", "deleteMap", "deleteObjects", "release", "removeUsedBy", "failed"}
    /\ f.step \in {"deleteMap", "deleteObjects"} => Unused(f.inst, o)
    /\ f.step = "deleteObjects" => m[f.key] = NoMap
    /\ f.step \in {"check", "deleteMap", "deleteObjects"} => f.todo = DependsOn[f.inst]
    /\ f.step \in {"release", "removeUsedBy", "failed"} => o[f.inst] = "none"

FrameSound(op, f, o, m) ==
    /\ f.key = Key(f.inst)
    /\ f.todo \subseteq DependsOn[f.inst]
    /\ IF op = "apply" THEN ApplyFrame(f, o, m) ELSE DeleteFrame(f, o, m)

\* A frame waits for the dependency that is applied or deleted above it.
Waiting(op, f, callee) ==
    IF op = "apply" THEN f.step = "addUsedByNew" /\ f.dep = callee.inst
    ELSE f.step \in {"release", "failed"}

StackSound(op, s, o, m) ==
    /\ \A n \in DOMAIN s : FrameSound(op, s[n], o, m)
    /\ \A n \in DOMAIN s : n > 1 => Waiting(op, s[n], s[n - 1])

\* A command that deletes runs alone.
Alone ==
    \A p, q \in Procs : p # q /\ stack[p] # <<>> /\ stack[q] # <<>> => command[p].op = "apply"

\* What is recorded is there, and what is there has its dependencies.
Recorded(o, m) == \A i \in Instances : m[Key(i)] # NoMap => o[i] = "all"
Dependent(o, m) ==
    \A i \in Instances : o[i] # "none" => \A d \in DependsOn[i] : Held(i, d, o, m)

Sound ==
    /\ \A p \in Procs : StackSound(command[p].op, stack[p], objects, configMaps)
    /\ Recorded(objects, configMaps)
    /\ Dependent(objects, configMaps)

\* The reference of chart i at d is about to be justified, or to be taken away.
Pending(op, f, i, d) ==
    /\ f.inst = i
    /\ IF op = "apply"
       THEN f.step \in {"dependencies", "addUsedBy", "addUsedByNew", "applyObjects"}
       ELSE f.step \in {"release", "removeUsedBy"} /\ d \notin Done(f)

\* The frames of a stack, and those below its first.
FramesOf(s) == {s[n] : n \in DOMAIN s}
Below(s) == {s[n] : n \in DOMAIN s \ {1}}

Refers(i, d, m) == m[Key(d)] # NoMap /\ UsedBy(i) \in m[Key(d)]

\* As long as nothing fails, a reference is one of a chart that is there or in work, and a
\* dependency that was applied is recorded when the reference is to be added.
Accounted ==
    \A i, d \in Instances : Refers(i, d, configMaps) =>
        /\ d \in DependsOn[i]
        /\ \/ objects[i] # "none"
           \/ \E p \in Procs : \E f \in FramesOf(stack[p]) : Pending(command[p].op, f, i, d)

Ready ==
    \A p \in Procs : stack[p] # <<>> /\ Top(p).step = "addUsedByNew" =>
        configMaps[Key(Top(p).dep)] # NoMap

\* A recursive delete has dealt with the dependencies nobody uses, but for the one on top.
Cleaned ==
    \A p \in Procs : command[p].op = "delete" /\ command[p].recursive =>
        \A f \in FramesOf(stack[p]) : \A d \in Done(f) :
            configMaps[Key(d)] = {} => Top(p).inst = d /\ Top(p).step \in {"check", "deleteMap"}

Tidy == Accounted /\ Ready /\ Cleaned

\* ... and no reference was one whose removal failed.
Unfailed == \A p \in Procs : \A f \in FramesOf(stack[p]) : f.step # "failed"

IInv == TypeOK /\ Alone /\ Sound /\ (faults = 0 => Tidy /\ Unfailed)

-----------------------------------------------------------------------------
(* Stacks *)

\* The sequence t is s with f in the place of its first element, k elements behind it.
Replaced(t, f, s, k) ==
    t # <<>> /\ DOMAIN t = 1..(k + 1) /\ t[1] = f /\ \A n \in 2..(k + 1) : t[n] = s[n]

\* It is s with g and f in the place of its first element.
Pushed(t, g, f, s, k) ==
    /\ t # <<>> /\ DOMAIN t = 1..(k + 2) /\ t[1] = g /\ t[2] = f
    /\ \A n \in 3..(k + 2) : t[n] = s[n - 1]

\* It is s without its first element.
Popped(t, s, k) == DOMAIN t = 1..k /\ (t = <<>> <=> k = 0) /\ \A n \in 1..k : t[n] = s[n + 1]

\* The stack s has a first frame and k others.
Behind(s, k) == s # <<>> /\ Len(s) = k + 1 /\ DOMAIN s = 1..(k + 1)

LEMMA HeadAndTail ==
    ASSUME NEW S, NEW s \in Seq(S), s # <<>>
    PROVE  \E k \in Nat :
              /\ Behind(s, k) /\ Head(s) = s[1] /\ \A n \in 1..(k + 1) : s[n] \in S
              /\ Tail(s) \in Seq(S) /\ Len(Tail(s)) = k /\ Popped(Tail(s), s, k)
<1>1. Len(s) \in Nat \ {0} /\ DOMAIN s = 1..Len(s) /\ \A n \in 1..Len(s) : s[n] \in S
  BY EmptySeq, ElementOfSeq, LenProperties
<1>2. PICK k \in Nat : Len(s) = k + 1
  <2>1. Len(s) - 1 \in Nat /\ Len(s) = (Len(s) - 1) + 1
    BY <1>1
  <2> QED
    BY <2>1
<1>3. PICK t : t = Tail(s)
  OBVIOUS
<1>4. t \in Seq(S) /\ Len(t) = k /\ \A n \in 1..k : t[n] = s[n + 1]
  <2>1. Tail(s) \in Seq(S) /\ Len(Tail(s)) = Len(s) - 1
        /\ \A n \in 1..Len(Tail(s)) : Tail(s)[n] = s[n + 1]
    BY HeadTailProperties
  <2>2. Len(t) = k
    BY <1>2, <1>3, <2>1
  <2> QED
    BY <1>3, <2>1, <2>2
<1>5. DOMAIN t = 1..k /\ (t = <<>> <=> k = 0)
  <2>1. DOMAIN t = 1..k
    BY <1>4, LenProperties
  <2>2. t = <<>> <=> k = 0
    BY <1>4, EmptySeq
  <2> QED
    BY <2>1, <2>2
<1>6. Behind(s, k) /\ Head(s) = s[1] /\ \A n \in 1..(k + 1) : s[n] \in S
  BY <1>1, <1>2 DEF Behind
<1>7. Popped(t, s, k)
  BY <1>4, <1>5 DEF Popped
<1> QED
  BY <1>3, <1>4, <1>6, <1>7

LEMMA ReplacedTop ==
    ASSUME NEW S, NEW s \in Seq(S), NEW k \in Nat, Behind(s, k), NEW f \in S,
           NEW t, t = <<f>> \o Tail(s)
    PROVE  t \in Seq(S) /\ Replaced(t, f, s, k)
<1>1. PICK r : r = Tail(s)
  OBVIOUS
<1>2. r \in Seq(S) /\ Len(r) = k /\ \A n \in 1..k : r[n] = s[n + 1]
  BY <1>1, HeadAndTail DEF Behind, Popped
<1>3. PICK h : h = <<f>>
  OBVIOUS
<1>4. h \in Seq(S) /\ Len(h) = 1 /\ h[1] = f
  BY <1>3
<1>5. t \in Seq(S) /\ Len(t) = k + 1
      /\ \A n \in 1..(k + 1) : t[n] = IF n <= 1 THEN h[n] ELSE r[n - 1]
  <2>1. t = h \o r
    BY <1>1, <1>3
  <2>2. /\ t \in Seq(S) /\ Len(t) = Len(h) + Len(r)
        /\ \A n \in 1..(Len(h) + Len(r)) : t[n] = IF n <= Len(h) THEN h[n] ELSE r[n - Len(h)]
    <3>1. h \in Seq(S) /\ r \in Seq(S)
      BY <1>2, <1>4
    <3>2. /\ h \o r \in Seq(S) /\ Len(h \o r) = Len(h) + Len(r)
          /\ \A n \in 1..(Len(h) + Len(r)) : (h \o r)[n] = IF n <= Len(h) THEN h[n] ELSE r[n - Len(h)]
      BY <3>1, ConcatProperties, Zenon
    <3> QED
      BY <2>1, <3>2, Zenon
  <2>3. Len(h) + Len(r) = k + 1
    BY <1>2, <1>4
  <2> QED
    BY <1>4, <2>2, <2>3
<1>6. DOMAIN t = 1..(k + 1)
  BY <1>5, LenProperties
<1>7. t[1] = f /\ \A n \in 2..(k + 1) : t[n] = s[n]
  BY <1>2, <1>5, <1>4
<1>8. t # <<>>
  BY <1>5, EmptySeq
<1> QED
  BY <1>5, <1>6, <1>7, <1>8 DEF Replaced

LEMMA PushedTop ==
    ASSUME NEW S, NEW s \in Seq(S), NEW k \in Nat, Behind(s, k), NEW g \in S, NEW f \in S,
           NEW t, t = <<g, f>> \o Tail(s)
    PROVE  t \in Seq(S) /\ Pushed(t, g, f, s, k)
<1>1. PICK r : r = Tail(s)
  OBVIOUS
<1>2. r \in Seq(S) /\ Len(r) = k /\ \A n \in 1..k : r[n] = s[n + 1]
  BY <1>1, HeadAndTail DEF Behind, Popped
<1>3. PICK h : h = <<g, f>>
  OBVIOUS
<1>4. h \in Seq(S) /\ Len(h) = 2 /\ h[1] = g /\ h[2] = f
  BY <1>3
<1>5. t \in Seq(S) /\ Len(t) = k + 2
      /\ \A n \in 1..(k + 2) : t[n] = IF n <= 2 THEN h[n] ELSE r[n - 2]
  <2>1. t = h \o r
    BY <1>1, <1>3
  <2>2. /\ t \in Seq(S) /\ Len(t) = Len(h) + Len(r)
        /\ \A n \in 1..(Len(h) + Len(r)) : t[n] = IF n <= Len(h) THEN h[n] ELSE r[n - Len(h)]
    <3>1. h \in Seq(S) /\ r \in Seq(S)
      BY <1>2, <1>4
    <3>2. /\ h \o r \in Seq(S) /\ Len(h \o r) = Len(h) + Len(r)
          /\ \A n \in 1..(Len(h) + Len(r)) : (h \o r)[n] = IF n <= Len(h) THEN h[n] ELSE r[n - Len(h)]
      BY <3>1, ConcatProperties, Zenon
    <3> QED
      BY <2>1, <3>2, Zenon
  <2>3. Len(h) + Len(r) = k + 2
    BY <1>2, <1>4
  <2> QED
    BY <1>4, <2>2, <2>3
<1>6. DOMAIN t = 1..(k + 2)
  BY <1>5, LenProperties
<1>7. t[1] = g /\ t[2] = f /\ \A n \in 3..(k + 2) : t[n] = s[n - 1]
  BY <1>2, <1>4, <1>5
<1>8. t # <<>>
  BY <1>5, EmptySeq
<1> QED
  BY <1>5, <1>6, <1>7, <1>8 DEF Pushed

\* The stack of a command that runs.
LEMMA TopFacts ==
    ASSUME TypeOK, NEW p \in Procs, stack[p] # <<>>
    PROVE  /\ stack[p] \in Seq(Frames) /\ Top(p) \in Frames
           /\ \E k \in Nat : Behind(stack[p], k) /\ Top(p) = stack[p][1]
<1>1. stack[p] \in Seq(Frames)
  BY DEF TypeOK
<1>2. PICK k \in Nat : /\ Behind(stack[p], k) /\ Head(stack[p]) = stack[p][1]
                       /\ \A n \in 1..(k + 1) : stack[p][n] \in Frames
  BY <1>1, HeadAndTail
<1> QED
  BY <1>1, <1>2 DEF Top

\* What the operators of the stack discipline do to it.
LEMMA GotoFacts ==
    ASSUME TypeOK, NEW p \in Procs, stack[p] # <<>>, NEW f \in Frames, Goto(p, f)
    PROVE  /\ stack' \in [Procs -> Seq(Frames)] /\ stack'[p] # <<>>
           /\ \A q \in Procs : q # p => stack'[q] = stack[q]
           /\ \A k \in Nat : Behind(stack[p], k) => Replaced(stack'[p], f, stack[p], k)
<1>1. PICK t : t = <<f>> \o Tail(stack[p])
  OBVIOUS
<1>2. stack' = [stack EXCEPT ![p] = t] /\ stack[p] \in Seq(Frames)
  BY <1>1 DEF Goto, TypeOK
<1>3. \A k \in Nat : Behind(stack[p], k) => t \in Seq(Frames) /\ Replaced(t, f, stack[p], k)
  BY <1>1, <1>2, ReplacedTop
<1>4. t \in Seq(Frames) /\ t # <<>>
  BY <1>3, TopFacts DEF Replaced
<1> QED
  BY <1>2, <1>3, <1>4 DEF TypeOK

LEMMA CallFacts ==
    ASSUME TypeOK, NEW p \in Procs, stack[p] # <<>>, NEW f \in Frames, NEW g \in Frames,
           Call(p, f, g)
    PROVE  /\ stack' \in [Procs -> Seq(Frames)] /\ stack'[p] # <<>>
           /\ \A q \in Procs : q # p => stack'[q] = stack[q]
           /\ \A k \in Nat : Behind(stack[p], k) => Pushed(stack'[p], g, f, stack[p], k)
<1>1. PICK t : t = <<g, f>> \o Tail(stack[p])
  OBVIOUS
<1>2. stack' = [stack EXCEPT ![p] = t] /\ stack[p] \in Seq(Frames)
  BY <1>1 DEF Call, TypeOK
<1>3. \A k \in Nat : Behind(stack[p], k) => t \in Seq(Frames) /\ Pushed(t, g, f, stack[p], k)
  BY <1>1, <1>2, PushedTop
<1>4. t \in Seq(Frames) /\ t # <<>>
  BY <1>3, TopFacts DEF Pushed
<1> QED
  BY <1>2, <1>3, <1>4 DEF TypeOK

\* The innermost frame is taken off.
LEMMA PopFacts ==
    ASSUME TypeOK, NEW p \in Procs, stack[p] # <<>>, stack' = [stack EXCEPT ![p] = Tail(@)]
    PROVE  /\ stack' \in [Procs -> Seq(Frames)]
           /\ \A q \in Procs : q # p => stack'[q] = stack[q]
           /\ \A k \in Nat : Behind(stack[p], k) => Popped(stack'[p], stack[p], k)
           /\ stack'[p] = <<>> <=> Len(stack[p]) = 1
<1>1. stack[p] \in Seq(Frames) /\ stack'[p] = Tail(stack[p])
      /\ \A q \in Procs : q # p => stack'[q] = stack[q]
  BY DEF TypeOK
<1>2. PICK k \in Nat : /\ Behind(stack[p], k) /\ Tail(stack[p]) \in Seq(Frames)
                       /\ Popped(Tail(stack[p]), stack[p], k)
  BY <1>1, HeadAndTail
<1>3. \A j \in Nat : Behind(stack[p], j) => j = k
  BY <1>2 DEF Behind
<1>4. stack' \in [Procs -> Seq(Frames)]
  BY <1>1, <1>2 DEF TypeOK
<1> QED
  BY <1>1, <1>2, <1>3, <1>4 DEF Popped, Behind

\* The command ends, one way or the other.
LEMMA EndFacts ==
    ASSUME TypeOK, NEW p \in Procs, stack' = [stack EXCEPT ![p] = <<>>]
    PROVE  /\ stack' \in [Procs -> Seq(Frames)] /\ stack'[p] = <<>>
           /\ \A q \in Procs : q # p => stack'[q] = stack[q]
BY EmptySeq DEF TypeOK

LEMMA ReturnFacts ==
    ASSUME TypeOK, NEW p \in Procs, stack[p] # <<>>, Return(p)
    PROVE  /\ stack' = [stack EXCEPT ![p] = Tail(@)]
           /\ stack' \in [Procs -> Seq(Frames)]
           /\ result' \in [Procs -> {"running", "ok", "error"}]
           /\ \A q \in Procs : result'[q] = "running" <=> stack'[q] # <<>>
<1>1. /\ stack' \in [Procs -> Seq(Frames)] /\ \A q \in Procs : q # p => stack'[q] = stack[q]
      /\ stack'[p] = <<>> <=> Len(stack[p]) = 1
  BY PopFacts DEF Return
<1>2. result' = [result EXCEPT ![p] = IF stack'[p] = <<>> THEN "ok" ELSE @]
  BY <1>1 DEF Return
<1> QED
  BY <1>1, <1>2 DEF Return, TypeOK

LEMMA FailFacts ==
    ASSUME TypeOK, NEW p \in Procs, stack[p] # <<>>, Fail(p)
    PROVE  /\ stack' \in [Procs -> Seq(Frames)]
           /\ result' \in [Procs -> {"running", "ok", "error"}]
           /\ \A q \in Procs : result'[q] = "running" <=> stack'[q] # <<>>
           /\ \A q \in Procs : q # p => stack'[q] = stack[q]
           /\ \/ /\ stack' = [stack EXCEPT ![p] = Tail(@)]
                 /\ command[p].op = "delete" /\ Len(stack[p]) > 1
              \/ stack'[p] = <<>>
<1>1. CASE command[p].op = "delete" /\ Len(stack[p]) > 1
  <2>1. stack' = [stack EXCEPT ![p] = Tail(@)] /\ result' = result
    BY <1>1 DEF Fail
  <2>2. /\ stack' \in [Procs -> Seq(Frames)] /\ \A q \in Procs : q # p => stack'[q] = stack[q]
        /\ stack'[p] # <<>>
    <3>1. Len(stack[p]) # 1
      <4>1. PICK k \in Nat : Len(stack[p]) = k + 1
        BY TopFacts DEF Behind
      <4>2. k + 1 # 1
        BY <1>1, <4>1
      <4> QED
        BY <4>1, <4>2
    <3> QED
      BY <2>1, <3>1, PopFacts
  <2> QED
    BY <1>1, <2>1, <2>2 DEF TypeOK
<1>2. CASE ~(command[p].op = "delete" /\ Len(stack[p]) > 1)
  <2>1. stack' = [stack EXCEPT ![p] = <<>>] /\ result' = [result EXCEPT ![p] = "error"]
    BY <1>2 DEF Fail
  <2> QED
    BY <2>1, EndFacts DEF TypeOK
<1> QED
  BY <1>1, <1>2

-----------------------------------------------------------------------------
(* Type correctness *)

LEMMA KeyTypes ==
    ASSUME NEW i \in Instances
    PROVE  /\ Key(i) \in Keys /\ ListedKey(i) \in Keys /\ UsedBy(i) \in References
           /\ \A k \in Keys, step \in Steps : Frame(i, k, step) \in Frames
BY ShapeAssumption DEF Keys, References, Frame, Frames

\* A frame goes on.
LEMMA FrameUpdates ==
    ASSUME NEW f \in Frames
    PROVE  /\ \A step \in Steps : [f EXCEPT !.step = step] \in Frames
           /\ \A step \in Steps, d \in Instances :
                 [f EXCEPT !.todo = f.todo \ {d}, !.dep = d, !.step = step] \in Frames
           /\ \A found \in BOOLEAN : [f EXCEPT !.step = "putMap", !.found = found] \in Frames
           /\ f.inst \in Instances /\ f.dep \in Instances /\ f.key \in Keys
           /\ f.todo \subseteq Instances /\ f.step \in Steps
BY DEF Frames, Steps

\* What a step leaves to show for TypeOK.
LEMMA TypesFrom ==
    ASSUME TypeOK, stack' \in [Procs -> Seq(Frames)],
           result' \in [Procs -> {"running", "ok", "error"}],
           \A q \in Procs : result'[q] = "running" <=> stack'[q] # <<>>,
           configMaps' \in [Keys -> (SUBSET References) \cup {NoMap}],
           objects' \in [Instances -> {"none", "some", "all"}],
           command' \in [Procs -> Commands],
           started' \in 0..MaxCommands, faults' \in 0..MaxFaults
    PROVE  TypeOK'
BY DEF TypeOK

\* The process that goes on or calls is running, and stays so.
LEMMA StillRunning ==
    ASSUME TypeOK, NEW p \in Procs, stack[p] # <<>>, stack'[p] # <<>>, UNCHANGED result,
           \A q \in Procs : q # p => stack'[q] = stack[q]
    PROVE  /\ result' \in [Procs -> {"running", "ok", "error"}]
           /\ \A q \in Procs : result'[q] = "running" <=> stack'[q] # <<>>
BY DEF TypeOK

LEMMA StartTypes ==
    ASSUME TypeOK, NEW p \in Procs, Start(p)
    PROVE  /\ TypeOK'
           /\ \E c \in Commands, i \in Instances :
                 LET t == <<Frame(i, Key(i), IF c.op = "apply" THEN "dependencies" ELSE "check")>>
                 IN  /\ \A q \in Procs : stack[q] # <<>> => {c, command[q]} \subseteq Overlapping
                     /\ command'[p] = c /\ stack'[p] = t
                     /\ DOMAIN stack'[p] = {1} /\ stack'[p] # <<>>
                     /\ \A q \in Procs : q # p => stack'[q] = stack[q] /\ command'[q] = command[q]
<1>1. PICK c \in Commands, i \in Instances :
         /\ \A q \in Procs : stack[q] # <<>> => {c, command[q]} \subseteq Overlapping
         /\ command' = [command EXCEPT ![p] = c]
         /\ stack' = [stack EXCEPT ![p] = <<Frame(i, Key(i),
                         IF c.op = "apply" THEN "dependencies" ELSE "check")>>]
  BY DEF Start
<1>2. PICK f : f = Frame(i, Key(i), IF c.op = "apply" THEN "dependencies" ELSE "check")
  OBVIOUS
<1>3. f \in Frames
  BY <1>2, KeyTypes DEF Steps
<1>4. <<f>> \in Seq(Frames) /\ DOMAIN <<f>> = {1} /\ <<f>> # <<>>
  BY <1>3
<1>5. stack' = [stack EXCEPT ![p] = <<f>>]
  BY <1>1, <1>2
<1>6. stack' \in [Procs -> Seq(Frames)] /\ stack'[p] = <<f>>
      /\ \A q \in Procs : q # p => stack'[q] = stack[q]
  BY <1>4, <1>5 DEF TypeOK
<1>7. /\ command' \in [Procs -> Commands] /\ command'[p] = c
      /\ \A q \in Procs : q # p => command'[q] = command[q]
  BY <1>1 DEF TypeOK
<1>8. /\ result' \in [Procs -> {"running", "ok", "error"}]
      /\ \A q \in Procs : result'[q] = "running" <=> stack'[q] # <<>>
  BY <1>4, <1>6 DEF Start, TypeOK
<1>9. TypeOK'
  BY <1>6, <1>7, <1>8, BoundsAssumption DEF Start, TypeOK
<1> QED
  BY <1>1, <1>2, <1>4, <1>6, <1>7, <1>9

\* A step that goes on in the same frame or calls.
LEMMA GotoTypes ==
    ASSUME TypeOK, NEW p \in Procs, stack[p] # <<>>, NEW f \in Frames, UNCHANGED result,
           Goto(p, f) \/ \E g \in Frames : Call(p, f, g)
    PROVE  /\ stack' \in [Procs -> Seq(Frames)]
           /\ result' \in [Procs -> {"running", "ok", "error"}]
           /\ \A q \in Procs : result'[q] = "running" <=> stack'[q] # <<>>
<1>1. /\ stack' \in [Procs -> Seq(Frames)] /\ stack'[p] # <<>>
      /\ \A q \in Procs : q # p => stack'[q] = stack[q]
  BY GotoFacts, CallFacts
<1> QED
  BY <1>1, StillRunning

\* What a step may do to the other variables.
Others ==
    /\ configMaps' \in [Keys -> (SUBSET References) \cup {NoMap}]
    /\ objects' \in [Instances -> {"none", "some", "all"}]
    /\ command' = command /\ started' = started
    /\ faults' \in 0..MaxFaults

LEMMA GotoOthers ==
    ASSUME TypeOK, NEW p \in Procs, stack[p] # <<>>, NEW f \in Frames, UNCHANGED result, Others,
           Goto(p, f) \/ \E g \in Frames : Call(p, f, g)
    PROVE  TypeOK'
<1>1. command' \in [Procs -> Commands] /\ started' \in 0..MaxCommands
  BY DEF Others, TypeOK
<1>2. /\ stack' \in [Procs -> Seq(Frames)]
      /\ result' \in [Procs -> {"running", "ok", "error"}]
      /\ \A q \in Procs : result'[q] = "running" <=> stack'[q] # <<>>
  BY GotoTypes
<1> QED
  BY <1>1, <1>2, TypesFrom DEF Others

LEMMA EndOthers ==
    ASSUME TypeOK, NEW p \in Procs, stack[p] # <<>>, Others, Return(p) \/ Fail(p)
    PROVE  TypeOK'
<1>1. command' \in [Procs -> Commands] /\ started' \in 0..MaxCommands
  BY DEF Others, TypeOK
<1>2. /\ stack' \in [Procs -> Seq(Frames)]
      /\ result' \in [Procs -> {"running", "ok", "error"}]
      /\ \A q \in Procs : result'[q] = "running" <=> stack'[q] # <<>>
  BY ReturnFacts, FailFacts
<1> QED
  BY <1>1, <1>2, TypesFrom DEF Others

LEMMA OthersUnchanged ==
    ASSUME TypeOK, UNCHANGED <<configMaps, objects, command, started, faults>>
    PROVE  Others
BY DEF TypeOK, Others

LEMMA StepTypes ==
    ASSUME TypeOK, NEW p \in Procs, Step(p)
    PROVE  TypeOK'
<1> PICK f : f = Top(p)
  OBVIOUS
<1>1. stack[p] # <<>>
  BY DEF Step, At, ApplyDependency, AddUsedBy, DependenciesApplied, ApplyObjects,
         ApplyObjectsFails, GetMap, PutMap, CheckReferences, DeleteMap, DeleteObjects,
         DeleteObjectsFails, ReleaseDependency, RemoveUsedBy, DependenciesReleased,
         RemoveUsedByFails, ReleaseFailed
<1>2. f \in Frames
  BY <1>1, TopFacts
<1>3. /\ configMaps \in [Keys -> (SUBSET References) \cup {NoMap}]
      /\ objects \in [Instances -> {"none", "some", "all"}] /\ faults \in 0..MaxFaults
  BY DEF TypeOK
<1>4. /\ \A step \in Steps : [f EXCEPT !.step = step] \in Frames
      /\ \A step \in Steps, d \in Instances :
            [f EXCEPT !.todo = f.todo \ {d}, !.dep = d, !.step = step] \in Frames
      /\ \A found \in BOOLEAN : [f EXCEPT !.step = "putMap", !.found = found] \in Frames
      /\ f.inst \in Instances /\ f.dep \in Instances /\ f.key \in Keys
      /\ f.todo \subseteq Instances /\ f.step \in Steps
  BY <1>2, FrameUpdates
<1>5. CASE ApplyDependency(p)
  <2>1. PICK d \in f.todo :
           IF Listed(d)
           THEN Goto(p, [[f EXCEPT !.todo = @ \ {d}, !.dep = d] EXCEPT !.step = "addUsedBy"])
           ELSE Call(p, [[f EXCEPT !.todo = @ \ {d}, !.dep = d] EXCEPT !.step = "addUsedByNew"],
                     Frame(d, Key(d), "dependencies"))
    BY <1>5 DEF ApplyDependency
  <2>2. \A step \in Steps : [[f EXCEPT !.todo = @ \ {d}, !.dep = d] EXCEPT !.step = step] \in Frames
    <3>1. d \in Instances
      BY <1>4
    <3>2. [f EXCEPT !.todo = @ \ {d}, !.dep = d] \in Frames
      BY <1>2, <3>1 DEF Frames
    <3> QED
      BY <3>2, FrameUpdates
  <2>3. Frame(d, Key(d), "dependencies") \in Frames
    BY <1>4, KeyTypes DEF Steps
  <2>4. Others /\ UNCHANGED result
    BY <1>5, OthersUnchanged DEF ApplyDependency
  <2>5. "addUsedBy" \in Steps /\ "addUsedByNew" \in Steps
    BY DEF Steps
  <2> QED
    BY <1>1, <2>1, <2>2, <2>3, <2>4, <2>5, GotoOthers
<1>6. CASE AddUsedBy(p)
  <2>1. PICK k \in Keys :
           IF configMaps[k] = NoMap
           THEN Fail(p) /\ UNCHANGED configMaps
           ELSE /\ configMaps' = [configMaps EXCEPT ![k] = @ \cup {UsedBy(f.inst)}]
                /\ Goto(p, [f EXCEPT !.step = "dependencies"])
                /\ UNCHANGED result
    BY <1>4, <1>6, KeyTypes DEF AddUsedBy
  <2>2. Others
    <3>1. configMaps' \in [Keys -> (SUBSET References) \cup {NoMap}]
      <4>1. UsedBy(f.inst) \in References
        BY <1>4, KeyTypes
      <4>2. CASE configMaps' = configMaps
        BY <1>3, <4>2
      <4>3. CASE /\ configMaps[k] # NoMap
                 /\ configMaps' = [configMaps EXCEPT ![k] = @ \cup {UsedBy(f.inst)}]
        <5>1. configMaps[k] \cup {UsedBy(f.inst)} \in SUBSET References
          BY <1>3, <4>1, <4>3
        <5> QED
          BY <1>3, <4>3, <5>1
      <4> QED
        BY <2>1, <4>2, <4>3
    <3> QED
      BY <1>3, <1>6, <3>1 DEF AddUsedBy, Others
  <2>3. [f EXCEPT !.step = "dependencies"] \in Frames
    BY <1>4 DEF Steps
  <2> QED
    BY <1>1, <2>1, <2>2, <2>3, GotoOthers, EndOthers
<1>7. CASE DependenciesApplied(p)
  <2>1. [f EXCEPT !.step = "applyObjects"] \in Frames
    BY <1>4 DEF Steps
  <2> QED
    BY <1>1, <1>7, <2>1, GotoOthers, OthersUnchanged DEF DependenciesApplied
<1>8. CASE ApplyObjects(p)
  <2>1. [f EXCEPT !.step = "getMap"] \in Frames
    BY <1>4 DEF Steps
  <2>2. Others
    BY <1>3, <1>4, <1>8 DEF ApplyObjects, Others
  <2> QED
    BY <1>1, <1>8, <2>1, <2>2, GotoOthers DEF ApplyObjects
<1>9. CASE ApplyObjectsFails(p)
  <2>1. objects' \in [Instances -> {"none", "some", "all"}]
    BY <1>3, <1>4, <1>9 DEF ApplyObjectsFails
  <2>2. faults' \in 0..MaxFaults
    BY <1>3, <1>9, BoundsAssumption DEF ApplyObjectsFails
  <2>3. Others
    BY <1>3, <1>9, <2>1, <2>2 DEF ApplyObjectsFails, Others
  <2> QED
    BY <1>1, <1>9, <2>3, EndOthers DEF ApplyObjectsFails
<1>10. CASE GetMap(p)
  <2>1. [f EXCEPT !.step = "putMap", !.found = configMaps[f.key] # NoMap] \in Frames
    BY <1>4
  <2> QED
    BY <1>1, <1>10, <2>1, GotoOthers, OthersUnchanged DEF GetMap
<1>11. CASE PutMap(p)
  <2>1. configMaps' \in [Keys -> (SUBSET References) \cup {NoMap}]
    BY <1>3, <1>4, <1>11 DEF PutMap
  <2>2. Others
    BY <1>3, <1>11, <2>1, BoundsAssumption DEF PutMap, Others
  <2> QED
    BY <1>1, <1>11, <2>2, EndOthers DEF PutMap
<1>12. CASE CheckReferences(p)
  <2>1. [f EXCEPT !.step = "deleteMap"] \in Frames
    BY <1>4 DEF Steps
  <2>2. Others
    BY <1>12, OthersUnchanged DEF CheckReferences
  <2> QED
    BY <1>1, <1>12, <2>1, <2>2, GotoOthers, EndOthers DEF CheckReferences
<1>13. CASE DeleteMap(p)
  <2>1. [f EXCEPT !.step = "deleteObjects"] \in Frames
    BY <1>4 DEF Steps
  <2>2. Others
    BY <1>3, <1>4, <1>13 DEF DeleteMap, Others
  <2> QED
    BY <1>1, <1>13, <2>1, <2>2, GotoOthers DEF DeleteMap
<1>14. CASE DeleteObjects(p)
  <2>1. [f EXCEPT !.step = "release"] \in Frames
    BY <1>4 DEF Steps
  <2>2. Others
    BY <1>3, <1>4, <1>14 DEF DeleteObjects, Others
  <2> QED
    BY <1>1, <1>14, <2>1, <2>2, GotoOthers DEF DeleteObjects
<1>15. CASE DeleteObjectsFails(p)
  <2>1. objects' \in [Instances -> {"none", "some", "all"}]
    BY <1>3, <1>4, <1>15 DEF DeleteObjectsFails
  <2>2. faults' \in 0..MaxFaults
    BY <1>3, <1>15, BoundsAssumption DEF DeleteObjectsFails
  <2>3. Others
    BY <1>3, <1>15, <2>1, <2>2 DEF DeleteObjectsFails, Others
  <2> QED
    BY <1>1, <1>15, <2>3, EndOthers DEF DeleteObjectsFails
<1>16. CASE ReleaseDependency(p)
  <2>1. PICK d \in f.todo, step \in {"release", "removeUsedBy"} :
           Goto(p, [f EXCEPT !.todo = f.todo \ {d}, !.dep = d, !.step = step])
    BY <1>16 DEF ReleaseDependency
  <2>2. [f EXCEPT !.todo = f.todo \ {d}, !.dep = d, !.step = step] \in Frames
    BY <1>4 DEF Steps
  <2>3. Others /\ UNCHANGED result
    BY <1>16, OthersUnchanged DEF ReleaseDependency
  <2> QED
    BY <1>1, <2>1, <2>2, <2>3, GotoOthers
<1>17. CASE RemoveUsedBy(p)
  <2>1. PICK k \in Keys :
           /\ k = ListedKey(f.dep)
           /\ \/ configMaps' = configMaps
              \/ /\ configMaps[k] # NoMap
                 /\ configMaps' = [configMaps EXCEPT ![k] = @ \ {UsedBy(f.inst)}]
           /\ \/ Call(p, [f EXCEPT !.step = "release"], Frame(f.dep, k, "check"))
              \/ Goto(p, [f EXCEPT !.step = "release"])
    BY <1>4, <1>17, KeyTypes DEF RemoveUsedBy
  <2>2. [f EXCEPT !.step = "release"] \in Frames /\ Frame(f.dep, k, "check") \in Frames
    BY <1>4, KeyTypes DEF Steps
  <2>3. configMaps' \in [Keys -> (SUBSET References) \cup {NoMap}]
    BY <1>3, <2>1
  <2>4. Others /\ UNCHANGED result
    BY <1>3, <1>17, <2>3 DEF RemoveUsedBy, Others
  <2> QED
    BY <1>1, <2>1, <2>2, <2>4, GotoOthers
<1>18. CASE DependenciesReleased(p)
  BY <1>1, <1>18, EndOthers, OthersUnchanged DEF DependenciesReleased
<1>19. CASE RemoveUsedByFails(p)
  <2>1. PICK k \in Keys :
           /\ k = ListedKey(f.dep)
           /\ \/ configMaps' = configMaps
              \/ /\ configMaps[k] # NoMap
                 /\ configMaps' = [configMaps EXCEPT ![k] = @ \ {UsedBy(f.inst)}]
           /\ \/ /\ Call(p, [f EXCEPT !.step = "failed"], Frame(f.dep, k, "check"))
                 /\ UNCHANGED result
              \/ Fail(p)
    BY <1>4, <1>19, KeyTypes DEF RemoveUsedByFails
  <2>2. [f EXCEPT !.step = "failed"] \in Frames /\ Frame(f.dep, k, "check") \in Frames
    BY <1>4, KeyTypes DEF Steps
  <2>3. configMaps' \in [Keys -> (SUBSET References) \cup {NoMap}]
    BY <1>3, <2>1
  <2>4. faults' \in 0..MaxFaults
    BY <1>3, <1>19, BoundsAssumption DEF RemoveUsedByFails
  <2>5. Others
    BY <1>3, <1>19, <2>3, <2>4 DEF RemoveUsedByFails, Others
  <2> QED
    BY <1>1, <2>1, <2>2, <2>5, GotoOthers, EndOthers
<1>20. CASE ReleaseFailed(p)
  BY <1>1, <1>20, EndOthers, OthersUnchanged DEF ReleaseFailed
<1> QED
  BY <1>5, <1>6, <1>7, <1>8, <1>9, <1>10, <1>11, <1>12, <1>13, <1>14, <1>15, <1>16, <1>17, <1>18,
     <1>19, <1>20 DEF Step

LEMMA KilledTypes ==
    ASSUME TypeOK, NEW p \in Procs, Killed(p)
    PROVE  TypeOK'
<1>1. /\ stack' \in [Procs -> Seq(Frames)] /\ stack'[p] = <<>>
      /\ \A q \in Procs : q # p => stack'[q] = stack[q]
  BY EndFacts DEF Killed
<1> QED
  BY <1>1, BoundsAssumption DEF Killed, TypeOK

LEMMA InitTypes == Init => TypeOK
BY EmptySeq, BoundsAssumption DEF Init, TypeOK

LEMMA TypesKept == TypeOK /\ [Next]_vars => TypeOK'
<1>1. CASE UNCHANGED vars
  BY <1>1 DEF vars, TypeOK
<1> QED
  BY <1>1, StartTypes, KilledTypes, StepTypes DEF Next

\* Types hold for any charts, commands and processes.
THEOREM TypeCorrect == Spec => []TypeOK
BY InitTypes, TypesKept, PTL DEF Spec

-----------------------------------------------------------------------------
(* Frames and stacks under a step *)

LEMMA KeysTellApart ==
    ASSUME Setting
    PROVE  /\ \A i \in Instances : ListedKey(i) = Key(i)
           /\ \A i, j \in Instances : Key(i) = Key(j) => i = j
           /\ \A i, j \in Instances : UsedBy(i) = UsedBy(j) => i = j
BY DEF Setting, Key, ListedKey, UsedBy

\* An apply takes nothing away.
Grows(o, m, o2, m2) ==
    /\ \A i \in Instances : o[i] = "all" => o2[i] = "all"
    /\ \A k \in Keys : m[k] # NoMap => m2[k] # NoMap /\ m[k] \subseteq m2[k]

\* A delete installs nothing.
Keeps(op, o, m, o2, m2) ==
    IF op = "apply" THEN Grows(o, m, o2, m2)
    ELSE \A i \in Instances : o[i] = "none" => o2[i] = "none"

LEMMA HeldKept ==
    ASSUME NEW o, NEW m, NEW o2, NEW m2, Grows(o, m, o2, m2),
           NEW i \in Instances, NEW d \in Instances, Held(i, d, o, m)
    PROVE  Held(i, d, o2, m2)
BY KeyTypes DEF Held, Grows

LEMMA DependsOnTypes == \A i \in Instances : DependsOn[i] \subseteq Instances
BY ShapeAssumption

LEMMA ApplyFrameKept ==
    ASSUME NEW o, NEW m, NEW o2, NEW m2, Grows(o, m, o2, m2), NEW f \in Frames,
           FrameSound("apply", f, o, m)
    PROVE  FrameSound("apply", f, o2, m2)
<1>1. f.inst \in Instances /\ f.dep \in Instances /\ f.key \in Keys /\ Key(f.dep) \in Keys
  BY KeyTypes, FrameUpdates
<1>2. Done(f) \subseteq Instances /\ DependsOn[f.inst] \subseteq Instances
  BY <1>1, DependsOnTypes DEF Done
<1>3. \A d \in Instances : Held(f.inst, d, o, m) => Held(f.inst, d, o2, m2)
  BY <1>1, HeldKept
<1>4. ApplyFrame(f, o, m)
  BY DEF FrameSound
<1>5. ApplyFrame(f, o2, m2)
  BY <1>1, <1>2, <1>3, <1>4 DEF ApplyFrame, Grows
<1> QED
  BY <1>5 DEF FrameSound

\* The frames that wait keep what they rely on.
LEMMA LowerKept ==
    ASSUME NEW op, NEW s \in Seq(Frames), NEW k \in Nat, Behind(s, k),
           NEW o, NEW m, NEW o2, NEW m2, StackSound(op, s, o, m), Keeps(op, o, m, o2, m2)
    PROVE  \A n \in 2..(k + 1) : FrameSound(op, s[n], o2, m2)
<1> SUFFICES ASSUME NEW n \in 2..(k + 1)
             PROVE  FrameSound(op, s[n], o2, m2)
  OBVIOUS
<1> PICK f : f = s[n]
  OBVIOUS
<1>1. n \in DOMAIN s /\ n > 1 /\ f \in Frames
  <2>1. n \in DOMAIN s /\ n > 1
    BY DEF Behind
  <2>2. f \in Frames
    BY <2>1, LenProperties, ElementOfSeq
  <2> QED
    BY <2>1, <2>2
<1>2. FrameSound(op, f, o, m) /\ Waiting(op, f, s[n - 1])
  BY <1>1 DEF StackSound
<1>3. CASE op = "apply"
  BY <1>1, <1>2, <1>3, ApplyFrameKept DEF Keeps
<1>4. CASE op # "apply"
  <2>1. f.step \in {"release", "failed"} /\ o[f.inst] = "none" /\ f.inst \in Instances
    BY <1>1, <1>2, <1>4, FrameUpdates DEF Waiting, FrameSound, DeleteFrame
  <2>2. o2[f.inst] = "none"
    BY <1>4, <2>1 DEF Keeps
  <2> QED
    BY <1>2, <1>4, <2>1, <2>2 DEF FrameSound, DeleteFrame
<1> QED
  BY <1>3, <1>4

LEMMA ReplacedSound ==
    ASSUME NEW op, NEW s \in Seq(Frames), NEW k \in Nat, Behind(s, k),
           NEW o, NEW m, NEW o2, NEW m2, StackSound(op, s, o, m), Keeps(op, o, m, o2, m2),
           NEW f, NEW t, Replaced(t, f, s, k), FrameSound(op, f, o2, m2), f.inst = s[1].inst
    PROVE  StackSound(op, t, o2, m2)
<1>1. \A n \in 2..(k + 1) : FrameSound(op, s[n], o2, m2)
  BY LowerKept
<1>2. \A n \in DOMAIN t : FrameSound(op, t[n], o2, m2)
  <2> SUFFICES ASSUME NEW n \in 1..(k + 1)
               PROVE  FrameSound(op, t[n], o2, m2)
    BY DEF Replaced
  <2>1. CASE n = 1
    BY <2>1 DEF Replaced
  <2>2. CASE n # 1
    <3>1. n \in 2..(k + 1) /\ t[n] = s[n]
      BY <2>2 DEF Replaced
    <3> QED
      BY <1>1, <3>1
  <2> QED
    BY <2>1, <2>2
<1>3. \A n \in DOMAIN t : n > 1 => Waiting(op, t[n], t[n - 1])
  <2> SUFFICES ASSUME NEW n \in 2..(k + 1)
               PROVE  Waiting(op, t[n], t[n - 1])
    BY DEF Replaced
  <2>1. Waiting(op, s[n], s[n - 1]) /\ t[n] = s[n]
    <3>1. n \in DOMAIN s /\ n > 1 /\ t[n] = s[n]
      BY DEF Replaced, Behind
    <3> QED
      BY <3>1 DEF StackSound
  <2>2. CASE n = 2
    BY <2>1, <2>2 DEF Replaced, Waiting
  <2>3. CASE n # 2
    BY <2>1, <2>3 DEF Replaced
  <2> QED
    BY <2>2, <2>3
<1> QED
  BY <1>2, <1>3 DEF StackSound

LEMMA PushedSound ==
    ASSUME NEW op, NEW s \in Seq(Frames), NEW k \in Nat, Behind(s, k),
           NEW o, NEW m, NEW o2, NEW m2, StackSound(op, s, o, m), Keeps(op, o, m, o2, m2),
           NEW f, NEW g, NEW t, Pushed(t, g, f, s, k), f.inst = s[1].inst,
           FrameSound(op, f, o2, m2), FrameSound(op, g, o2, m2), Waiting(op, f, g)
    PROVE  StackSound(op, t, o2, m2)
<1>1. \A n \in 2..(k + 1) : FrameSound(op, s[n], o2, m2)
  BY LowerKept
<1>2. \A n \in DOMAIN t : FrameSound(op, t[n], o2, m2)
  <2> SUFFICES ASSUME NEW n \in 1..(k + 2)
               PROVE  FrameSound(op, t[n], o2, m2)
    BY DEF Pushed
  <2>1. CASE n = 1 \/ n = 2
    BY <2>1 DEF Pushed
  <2>2. CASE n # 1 /\ n # 2
    <3>1. n \in 3..(k + 2) /\ n - 1 \in 2..(k + 1) /\ t[n] = s[n - 1]
      BY <2>2 DEF Pushed
    <3> QED
      BY <1>1, <3>1
  <2> QED
    BY <2>1, <2>2
<1>3. \A n \in DOMAIN t : n > 1 => Waiting(op, t[n], t[n - 1])
  <2> SUFFICES ASSUME NEW n \in 2..(k + 2)
               PROVE  Waiting(op, t[n], t[n - 1])
    BY DEF Pushed
  <2>1. CASE n = 2
    BY <2>1 DEF Pushed
  <2>2. CASE n # 2
    <3>1. n - 1 \in DOMAIN s /\ n - 1 > 1 /\ t[n] = s[n - 1]
      BY <2>2 DEF Pushed, Behind
    <3>2. Waiting(op, s[n - 1], s[(n - 1) - 1])
      BY <3>1 DEF StackSound
    <3>3. CASE n = 3
      BY <3>1, <3>2, <3>3 DEF Pushed, Waiting
    <3>4. CASE n # 3
      <4>1. t[n - 1] = s[(n - 1) - 1]
        BY <2>2, <3>4 DEF Pushed
      <4> QED
        BY <3>1, <3>2, <4>1
    <3> QED
      BY <3>3, <3>4
  <2> QED
    BY <2>1, <2>2
<1> QED
  BY <1>2, <1>3 DEF StackSound

LEMMA PoppedSound ==
    ASSUME NEW op, NEW s \in Seq(Frames), NEW k \in Nat, Behind(s, k),
           NEW o, NEW m, NEW o2, NEW m2, StackSound(op, s, o, m), Keeps(op, o, m, o2, m2),
           NEW t, Popped(t, s, k)
    PROVE  StackSound(op, t, o2, m2)
<1>1. \A n \in 2..(k + 1) : FrameSound(op, s[n], o2, m2)
  BY LowerKept
<1>2. \A n \in DOMAIN t : FrameSound(op, t[n], o2, m2)
  BY <1>1 DEF Popped
<1>3. \A n \in DOMAIN t : n > 1 => Waiting(op, t[n], t[n - 1])
  <2> SUFFICES ASSUME NEW n \in 1..k, n > 1
               PROVE  Waiting(op, t[n], t[n - 1])
    BY DEF Popped
  <2>1. t[n] = s[n + 1] /\ t[n - 1] = s[n]
    BY DEF Popped
  <2>2. PICK j : j = n + 1
    OBVIOUS
  <2>3. j \in DOMAIN s /\ j > 1 /\ j - 1 = n
    BY <2>2 DEF Behind
  <2>4. Waiting(op, s[j], s[j - 1])
    BY <2>3 DEF StackSound
  <2> QED
    BY <2>1, <2>2, <2>3, <2>4
<1> QED
  BY <1>2, <1>3 DEF StackSound

-----------------------------------------------------------------------------
(* What is installed has its dependencies *)

LEMMA TopSound ==
    ASSUME TypeOK, Sound, NEW p \in Procs, stack[p] # <<>>
    PROVE  /\ Top(p) \in Frames /\ FrameSound(command[p].op, Top(p), objects, configMaps)
           /\ command[p].op \in {"apply", "delete"}
           /\ Top(p).inst \in Instances /\ Top(p).key = Key(Top(p).inst)
           /\ Top(p).todo \subseteq DependsOn[Top(p).inst]
           /\ DependsOn[Top(p).inst] \subseteq Instances
           /\ command[p].op = "apply" => ApplyFrame(Top(p), objects, configMaps)
           /\ command[p].op = "delete" => DeleteFrame(Top(p), objects, configMaps)
<1> PICK f : f = Top(p)
  OBVIOUS
<1>1. f \in Frames /\ 1 \in DOMAIN stack[p] /\ f = stack[p][1]
  <2>1. PICK k \in Nat : Behind(stack[p], k) /\ f = stack[p][1]
    BY TopFacts
  <2> QED
    BY <2>1, TopFacts DEF Behind
<1>2. FrameSound(command[p].op, f, objects, configMaps)
  BY <1>1 DEF Sound, StackSound
<1>3. command[p].op \in {"apply", "delete"}
  BY ShapeAssumption DEF TypeOK
<1> QED
  BY <1>1, <1>2, <1>3, FrameUpdates, DependsOnTypes DEF FrameSound

LEMMA GotoSound ==
    ASSUME TypeOK, Sound, NEW p \in Procs, stack[p] # <<>>, NEW f \in Frames, Goto(p, f),
           f.inst = Top(p).inst, FrameSound(command[p].op, f, objects', configMaps'),
           Keeps(command[p].op, objects, configMaps, objects', configMaps')
    PROVE  /\ StackSound(command[p].op, stack'[p], objects', configMaps')
           /\ \A q \in Procs : q # p => stack'[q] = stack[q]
<1>1. PICK k \in Nat : Behind(stack[p], k) /\ Top(p) = stack[p][1]
  BY TopFacts
<1>2. Replaced(stack'[p], f, stack[p], k) /\ \A q \in Procs : q # p => stack'[q] = stack[q]
  BY <1>1, GotoFacts
<1>3. stack[p] \in Seq(Frames) /\ StackSound(command[p].op, stack[p], objects, configMaps)
  BY TopFacts DEF Sound
<1>4. PICK s, t, op, o, m, o2, m2 :
         /\ s = stack[p] /\ t = stack'[p] /\ op = command[p].op
         /\ o = objects /\ m = configMaps /\ o2 = objects' /\ m2 = configMaps'
  OBVIOUS
<1>5. StackSound(op, t, o2, m2)
  BY <1>1, <1>2, <1>3, <1>4, ReplacedSound
<1> QED
  BY <1>2, <1>4, <1>5

LEMMA CallSound ==
    ASSUME TypeOK, Sound, NEW p \in Procs, stack[p] # <<>>, NEW f \in Frames, NEW g \in Frames,
           Call(p, f, g), f.inst = Top(p).inst,
           FrameSound(command[p].op, f, objects', configMaps'),
           FrameSound(command[p].op, g, objects', configMaps'), Waiting(command[p].op, f, g),
           Keeps(command[p].op, objects, configMaps, objects', configMaps')
    PROVE  /\ StackSound(command[p].op, stack'[p], objects', configMaps')
           /\ \A q \in Procs : q # p => stack'[q] = stack[q]
<1>1. PICK k \in Nat : Behind(stack[p], k) /\ Top(p) = stack[p][1]
  BY TopFacts
<1>2. Pushed(stack'[p], g, f, stack[p], k) /\ \A q \in Procs : q # p => stack'[q] = stack[q]
  BY <1>1, CallFacts
<1>3. stack[p] \in Seq(Frames) /\ StackSound(command[p].op, stack[p], objects, configMaps)
  BY TopFacts DEF Sound
<1>4. PICK s, t, op, o, m, o2, m2 :
         /\ s = stack[p] /\ t = stack'[p] /\ op = command[p].op
         /\ o = objects /\ m = configMaps /\ o2 = objects' /\ m2 = configMaps'
  OBVIOUS
<1>5. StackSound(op, t, o2, m2)
  BY <1>1, <1>2, <1>3, <1>4, PushedSound
<1> QED
  BY <1>2, <1>4, <1>5

\* A frame is taken off, or the command ends.
LEMMA EndSound ==
    ASSUME TypeOK, Sound, NEW p \in Procs, stack[p] # <<>>, Return(p) \/ Fail(p),
           Keeps(command[p].op, objects, configMaps, objects', configMaps')
    PROVE  /\ StackSound(command[p].op, stack'[p], objects', configMaps')
           /\ \A q \in Procs : q # p => stack'[q] = stack[q]
<1>1. CASE stack' = [stack EXCEPT ![p] = Tail(@)]
  <2>1. PICK k \in Nat : Behind(stack[p], k) /\ Top(p) = stack[p][1]
    BY TopFacts
  <2>2. Popped(stack'[p], stack[p], k) /\ \A q \in Procs : q # p => stack'[q] = stack[q]
    BY <1>1, <2>1, PopFacts
  <2>3. stack[p] \in Seq(Frames) /\ StackSound(command[p].op, stack[p], objects, configMaps)
    BY TopFacts DEF Sound
  <2>4. PICK s, t, op, o, m, o2, m2 :
           /\ s = stack[p] /\ t = stack'[p] /\ op = command[p].op
           /\ o = objects /\ m = configMaps /\ o2 = objects' /\ m2 = configMaps'
    OBVIOUS
  <2>5. StackSound(op, t, o2, m2)
    BY <2>1, <2>2, <2>3, <2>4, PoppedSound
  <2> QED
    BY <2>2, <2>4, <2>5
<1>2. CASE stack'[p] = <<>> /\ \A q \in Procs : q # p => stack'[q] = stack[q]
  BY <1>2 DEF StackSound
<1> QED
  BY <1>1, <1>2, ReturnFacts, FailFacts

LEMMA SoundFrom ==
    ASSUME TypeOK, Alone, Sound, NEW p \in Procs, stack[p] # <<>>, command' = command,
           \A q \in Procs : q # p => stack'[q] = stack[q],
           Keeps(command[p].op, objects, configMaps, objects', configMaps'),
           StackSound(command[p].op, stack'[p], objects', configMaps'),
           Recorded(objects', configMaps'), Dependent(objects', configMaps')
    PROVE  Sound'
<1> SUFFICES ASSUME NEW q \in Procs
             PROVE  StackSound(command[q].op, stack'[q], objects', configMaps')
  BY DEF Sound
<1>1. CASE q = p
  BY <1>1
<1>2. CASE q # p /\ stack[q] = <<>>
  BY <1>2 DEF StackSound
<1>3. CASE q # p /\ stack[q] # <<>>
  <2>1. command[p].op = "apply" /\ command[q].op = "apply"
    BY <1>3 DEF Alone
  <2>2. Grows(objects, configMaps, objects', configMaps')
    BY <2>1 DEF Keeps
  <2>3. StackSound("apply", stack[q], objects, configMaps)
    BY <2>1 DEF Sound
  <2>4. ASSUME NEW n \in DOMAIN stack[q]
        PROVE  FrameSound("apply", stack[q][n], objects', configMaps')
    <3>1. stack[q][n] \in Frames
      BY LenProperties, ElementOfSeq DEF TypeOK
    <3>2. PICK f, o, m, o2, m2 :
             /\ f = stack[q][n] /\ o = objects /\ m = configMaps /\ o2 = objects'
             /\ m2 = configMaps'
      OBVIOUS
    <3>3. FrameSound("apply", f, o2, m2)
      BY <2>2, <2>3, <3>1, <3>2, ApplyFrameKept DEF StackSound
    <3> QED
      BY <3>2, <3>3
  <2>5. StackSound("apply", stack[q], objects', configMaps')
    BY <2>3, <2>4 DEF StackSound
  <2> QED
    BY <1>3, <2>1, <2>5
<1> QED
  BY <1>1, <1>2, <1>3

LEMMA ApplyDependencySound ==
    ASSUME Setting, TypeOK, Alone, Sound, NEW p \in Procs, ApplyDependency(p)
    PROVE  Sound'
<1> PICK f, o, m, op : f = Top(p) /\ o = objects /\ m = configMaps /\ op = command[p].op
  OBVIOUS
<1>1. /\ stack[p] # <<>> /\ f.step = "dependencies"
      /\ objects' = o /\ configMaps' = m /\ command' = command
  BY DEF ApplyDependency, At
<1>2. /\ f \in Frames /\ FrameSound(op, f, o, m) /\ op = "apply" /\ ApplyFrame(f, o, m)
      /\ f.inst \in Instances /\ f.key = Key(f.inst)
      /\ f.todo \subseteq DependsOn[f.inst] /\ DependsOn[f.inst] \subseteq Instances
  BY <1>1, TopSound DEF DeleteFrame
<1>3. PICK d \in f.todo :
         IF Listed(d)
         THEN Goto(p, [[f EXCEPT !.todo = @ \ {d}, !.dep = d] EXCEPT !.step = "addUsedBy"])
         ELSE Call(p, [[f EXCEPT !.todo = @ \ {d}, !.dep = d] EXCEPT !.step = "addUsedByNew"],
                   Frame(d, Key(d), "dependencies"))
  BY DEF ApplyDependency
<1>4. d \in Instances /\ d \in DependsOn[f.inst]
  BY <1>2
<1>5. ASSUME NEW step \in {"addUsedBy", "addUsedByNew"}, step = "addUsedBy" => m[Key(d)] # NoMap,
             NEW g, g = [[f EXCEPT !.todo = @ \ {d}, !.dep = d] EXCEPT !.step = step]
      PROVE  /\ g \in Frames /\ FrameSound("apply", g, o, m) /\ g.inst = f.inst
             /\ g.step = step /\ g.dep = d
  <2>1. /\ g.inst = f.inst /\ g.key = f.key /\ g.step = step /\ g.todo = f.todo \ {d} /\ g.dep = d
        /\ g \in Frames
    BY <1>2, <1>4, <1>5 DEF Frames, Steps
  <2>2. Done(g) = Done(f)
    BY <1>1, <1>5, <2>1 DEF Done
  <2>3. ApplyFrame(g, o, m)
    BY <1>1, <1>2, <1>4, <1>5, <2>1, <2>2 DEF ApplyFrame
  <2> QED
    BY <1>2, <2>1, <2>3 DEF FrameSound
<1>6. Keeps(op, o, m, o, m)
  BY <1>2 DEF Keeps, Grows
<1>7. CASE Listed(d)
  <2>1. PICK g : g = [[f EXCEPT !.todo = @ \ {d}, !.dep = d] EXCEPT !.step = "addUsedBy"]
    OBVIOUS
  <2>2. g \in Frames /\ FrameSound(op, g, o, m) /\ g.inst = f.inst /\ Goto(p, g)
    BY <1>2, <1>3, <1>5, <1>7, <2>1 DEF Listed
  <2>3. StackSound(op, stack'[p], o, m) /\ \A q \in Procs : q # p => stack'[q] = stack[q]
    BY <1>1, <1>6, <2>2, GotoSound
  <2> QED
    BY <1>1, <1>6, <2>3, SoundFrom DEF Sound
<1>8. CASE ~Listed(d)
  <2>1. PICK g : g = [[f EXCEPT !.todo = @ \ {d}, !.dep = d] EXCEPT !.step = "addUsedByNew"]
    OBVIOUS
  <2>2. /\ g \in Frames /\ FrameSound(op, g, o, m) /\ g.inst = f.inst
        /\ g.step = "addUsedByNew" /\ g.dep = d
    BY <1>2, <1>5, <2>1
  <2>3. PICK h : h = Frame(d, Key(d), "dependencies")
    OBVIOUS
  <2>4. h \in Frames
    BY <1>4, <2>3, KeyTypes DEF Steps
  <2>5. h.inst = d /\ h.key = Key(d) /\ h.step = "dependencies" /\ h.todo = DependsOn[d]
    BY <2>3 DEF Frame
  <2>6. FrameSound(op, h, o, m) /\ Waiting(op, g, h)
    BY <1>2, <2>2, <2>5 DEF FrameSound, ApplyFrame, Done, Waiting
  <2>7. Call(p, g, h)
    BY <1>3, <1>8, <2>1, <2>3
  <2>8. StackSound(op, stack'[p], o, m) /\ \A q \in Procs : q # p => stack'[q] = stack[q]
    BY <1>1, <1>6, <2>2, <2>4, <2>6, <2>7, CallSound
  <2> QED
    BY <1>1, <1>6, <2>8, SoundFrom DEF Sound
<1> QED
  BY <1>7, <1>8

LEMMA AddUsedBySound ==
    ASSUME Setting, TypeOK, Alone, Sound, NEW p \in Procs, AddUsedBy(p)
    PROVE  Sound'
<1> PICK f, o, m, m2, op : /\ f = Top(p) /\ o = objects /\ m = configMaps /\ m2 = configMaps'
                           /\ op = command[p].op
  OBVIOUS
<1>1. /\ stack[p] # <<>> /\ f.step \in {"addUsedBy", "addUsedByNew"}
      /\ objects' = o /\ command' = command
  BY DEF AddUsedBy, At
<1>2. /\ f \in Frames /\ FrameSound(op, f, o, m) /\ op = "apply" /\ ApplyFrame(f, o, m)
      /\ f.inst \in Instances /\ f.key = Key(f.inst)
      /\ f.todo \subseteq DependsOn[f.inst] /\ DependsOn[f.inst] \subseteq Instances
      /\ f.dep \in DependsOn[f.inst] /\ f.dep \in Instances
  BY <1>1, TopSound DEF DeleteFrame, ApplyFrame
<1>3. PICK k : /\ k = Key(f.dep) /\ k \in Keys
               /\ IF m[k] = NoMap
                  THEN Fail(p) /\ m2 = m
                  ELSE /\ m2 = [m EXCEPT ![k] = @ \cup {UsedBy(f.inst)}]
                       /\ Goto(p, [f EXCEPT !.step = "dependencies"])
  BY <1>2, KeyTypes, KeysTellApart DEF AddUsedBy
<1>4. CASE m[k] = NoMap
  <2>1. Keeps(op, o, m, o, m) /\ m2 = m /\ Fail(p)
    BY <1>2, <1>3, <1>4 DEF Keeps, Grows
  <2>2. StackSound(op, stack'[p], o, m) /\ \A q \in Procs : q # p => stack'[q] = stack[q]
    BY <1>1, <2>1, EndSound
  <2> QED
    BY <1>1, <2>1, <2>2, SoundFrom DEF Sound
<1>5. CASE m[k] # NoMap
  <2>1. m \in [Keys -> (SUBSET References) \cup {NoMap}] /\ UsedBy(f.inst) \in References
    BY <1>2, KeyTypes DEF TypeOK
  <2>2. m[k] \cup {UsedBy(f.inst)} \in SUBSET References
    BY <1>3, <1>5, <2>1
  <2>3. /\ m2 = [m EXCEPT ![k] = m[k] \cup {UsedBy(f.inst)}]
        /\ m2[k] = m[k] \cup {UsedBy(f.inst)} /\ m2[k] # NoMap
        /\ \A j \in Keys \ {k} : m2[j] = m[j]
    BY <1>3, <1>5, <2>1, <2>2, NothingAssumption
  <2>4. Grows(o, m, o, m2)
    BY <2>3 DEF Grows
  <2>5. Recorded(o, m2)
    <3>1. \A i \in Instances : Key(i) \in Keys
      BY KeyTypes
    <3> QED
      BY <1>3, <1>5, <2>3, <3>1 DEF Sound, Recorded
  <2>6. Dependent(o, m2)
    BY <2>4, HeldKept, DependsOnTypes DEF Sound, Dependent
  <2>7. PICK g : g = [f EXCEPT !.step = "dependencies"]
    OBVIOUS
  <2>8. /\ g \in Frames /\ g.inst = f.inst /\ g.key = f.key /\ g.todo = f.todo
        /\ g.step = "dependencies"
    BY <1>2, <2>7 DEF Frames, Steps
  <2>9. FrameSound(op, g, o, m2)
    <3>1. Held(f.inst, f.dep, o, m2)
      BY <1>2, <1>3, <1>5, <2>3 DEF Held, Sound, Recorded
    <3>2. Done(g) \subseteq Done(f) \cup {f.dep} /\ Done(g) \subseteq Instances
      BY <1>2, <2>8 DEF Done
    <3>3. \A d \in Done(g) : Held(f.inst, d, o, m2)
      <4>1. \A d \in Done(f) : Held(f.inst, d, o, m)
        BY <1>1, <1>2 DEF ApplyFrame
      <4> QED
        BY <1>2, <2>4, <3>1, <3>2, <4>1, HeldKept
    <3> QED
      BY <1>2, <2>8, <3>3 DEF FrameSound, ApplyFrame
  <2>10. Keeps(op, o, m, o, m2) /\ Goto(p, g)
    BY <1>2, <1>3, <1>5, <2>4, <2>7 DEF Keeps
  <2>11. StackSound(op, stack'[p], o, m2) /\ \A q \in Procs : q # p => stack'[q] = stack[q]
    BY <1>1, <2>8, <2>9, <2>10, GotoSound
  <2> QED
    BY <1>1, <2>5, <2>6, <2>10, <2>11, SoundFrom
<1> QED
  BY <1>4, <1>5

\* The steps of an apply that leave objects and config maps alone.
LEMMA ApplyGoesOnSound ==
    ASSUME Setting, TypeOK, Alone, Sound, NEW p \in Procs, DependenciesApplied(p) \/ GetMap(p)
    PROVE  Sound'
<1> PICK f, o, m, op : f = Top(p) /\ o = objects /\ m = configMaps /\ op = command[p].op
  OBVIOUS
<1>1. /\ stack[p] # <<>> /\ f.step \in {"dependencies", "getMap"}
      /\ objects' = o /\ configMaps' = m /\ command' = command
  BY DEF DependenciesApplied, GetMap, At
<1>2. /\ f \in Frames /\ FrameSound(op, f, o, m) /\ op = "apply" /\ ApplyFrame(f, o, m)
  BY <1>1, TopSound DEF DeleteFrame
<1>3. PICK g : /\ Goto(p, g)
               /\ \/ g = [f EXCEPT !.step = "applyObjects"] /\ f.step = "dependencies" /\ f.todo = {}
                  \/ /\ g = [f EXCEPT !.step = "putMap", !.found = m[f.key] # NoMap]
                     /\ f.step = "getMap"
  BY DEF DependenciesApplied, GetMap, At
<1>4. /\ g \in Frames /\ g.inst = f.inst /\ g.key = f.key /\ g.todo = f.todo
      /\ \/ g.step = "applyObjects" /\ f.step = "dependencies" /\ f.todo = {}
         \/ g.step = "putMap" /\ g.found = (m[f.key] # NoMap) /\ f.step = "getMap"
  BY <1>2, <1>3 DEF Frames, Steps
<1>5. FrameSound(op, g, o, m)
  BY <1>2, <1>4 DEF FrameSound, ApplyFrame, Done
<1>6. Keeps(op, o, m, o, m)
  BY <1>2 DEF Keeps, Grows
<1>7. StackSound(op, stack'[p], o, m) /\ \A q \in Procs : q # p => stack'[q] = stack[q]
  BY <1>1, <1>3, <1>4, <1>5, <1>6, GotoSound
<1> QED
  BY <1>1, <1>6, <1>7, SoundFrom DEF Sound

LEMMA ApplyObjectsSound ==
    ASSUME Setting, TypeOK, Alone, Sound, NEW p \in Procs, ApplyObjects(p) \/ ApplyObjectsFails(p)
    PROVE  Sound'
<1> PICK f, o, m, o2, op : /\ f = Top(p) /\ o = objects /\ m = configMaps /\ o2 = objects'
                           /\ op = command[p].op
  OBVIOUS
<1>1. /\ stack[p] # <<>> /\ f.step = "applyObjects"
      /\ configMaps' = m /\ command' = command
  BY DEF ApplyObjects, ApplyObjectsFails, At
<1>2. /\ f \in Frames /\ FrameSound(op, f, o, m) /\ op = "apply" /\ ApplyFrame(f, o, m)
      /\ f.inst \in Instances
  BY <1>1, TopSound DEF DeleteFrame
<1>3. /\ \A i \in Instances \ {f.inst} : o2[i] = o[i]
      /\ o[f.inst] = "all" => o2[f.inst] = "all"
      /\ ApplyObjects(p) => o2[f.inst] = "all"
  BY <1>2 DEF ApplyObjects, ApplyObjectsFails, TypeOK
<1>4. Grows(o, m, o2, m)
  BY <1>3 DEF Grows
<1>5. Recorded(o2, m)
  BY <1>3 DEF Sound, Recorded
<1>6. Dependent(o2, m)
  <2> SUFFICES ASSUME NEW i \in Instances, o2[i] # "none", NEW d \in DependsOn[i]
               PROVE  Held(i, d, o2, m)
    BY DEF Dependent
  <2>1. d \in Instances
    BY DependsOnTypes
  <2>2. Held(i, d, o, m)
    <3>1. CASE i = f.inst
      BY <1>1, <1>2, <3>1 DEF ApplyFrame
    <3>2. CASE i # f.inst
      BY <1>3, <3>2 DEF Sound, Dependent
    <3> QED
      BY <3>1, <3>2
  <2> QED
    BY <1>4, <2>1, <2>2, HeldKept
<1>7. Keeps(op, o, m, o2, m)
  BY <1>2, <1>4 DEF Keeps
<1>8. StackSound(op, stack'[p], o2, m) /\ \A q \in Procs : q # p => stack'[q] = stack[q]
  <2>1. CASE ApplyObjects(p)
    <3>1. PICK g : g = [f EXCEPT !.step = "getMap"] /\ Goto(p, g)
      BY <2>1 DEF ApplyObjects
    <3>2. /\ g \in Frames /\ g.inst = f.inst /\ g.key = f.key /\ g.todo = f.todo
          /\ g.step = "getMap"
      BY <1>2, <3>1 DEF Frames, Steps
    <3>3. FrameSound(op, g, o2, m)
      BY <1>2, <1>3, <2>1, <3>2 DEF FrameSound, ApplyFrame
    <3> QED
      BY <1>1, <1>7, <3>1, <3>2, <3>3, GotoSound
  <2>2. CASE ApplyObjectsFails(p)
    BY <1>1, <1>7, <2>2, EndSound DEF ApplyObjectsFails
  <2> QED
    BY <2>1, <2>2
<1> QED
  BY <1>1, <1>5, <1>6, <1>7, <1>8, SoundFrom

LEMMA PutMapSound ==
    ASSUME Setting, TypeOK, Alone, Sound, NEW p \in Procs, PutMap(p)
    PROVE  Sound'
<1> PICK f, o, m, m2, op : /\ f = Top(p) /\ o = objects /\ m = configMaps /\ m2 = configMaps'
                           /\ op = command[p].op
  OBVIOUS
<1>1. stack[p] # <<>> /\ f.step = "putMap" /\ objects' = o /\ command' = command /\ Return(p)
  BY DEF PutMap, At
<1>2. /\ f \in Frames /\ FrameSound(op, f, o, m) /\ op = "apply" /\ ApplyFrame(f, o, m)
      /\ f.inst \in Instances /\ f.key = Key(f.inst) /\ f.key \in Keys
  BY <1>1, TopSound, KeyTypes DEF DeleteFrame
<1>3. /\ \A k \in Keys : m[k] # NoMap => m2[k] = m[k]
      /\ \A k \in Keys \ {f.key} : m2[k] = m[k]
  BY <1>2 DEF PutMap, TypeOK
<1>4. Grows(o, m, o, m2)
  BY <1>3 DEF Grows
<1>5. Recorded(o, m2)
  <2> SUFFICES ASSUME NEW i \in Instances, m2[Key(i)] # NoMap
               PROVE  o[i] = "all"
    BY DEF Recorded
  <2>1. CASE Key(i) = f.key
    BY <1>1, <1>2, <2>1, KeysTellApart DEF ApplyFrame
  <2>2. CASE Key(i) # f.key
    BY <1>3, <2>2, KeyTypes DEF Sound, Recorded
  <2> QED
    BY <2>1, <2>2
<1>6. Dependent(o, m2)
  BY <1>4, HeldKept, DependsOnTypes DEF Sound, Dependent
<1>7. Keeps(op, o, m, o, m2)
  BY <1>2, <1>4 DEF Keeps
<1>8. StackSound(op, stack'[p], o, m2) /\ \A q \in Procs : q # p => stack'[q] = stack[q]
  BY <1>1, <1>7, EndSound
<1> QED
  BY <1>1, <1>5, <1>6, <1>7, <1>8, SoundFrom

LEMMA ReferencesFinite ==
    ASSUME NEW m \in SUBSET References
    PROVE  IsFiniteSet(m) /\ Cardinality(m) \in Nat /\ (m = {} <=> Cardinality(m) = 0)
<1>1. IsFiniteSet(References)
  <2>1. [i \in Instances |-> UsedBy(i)] \in Surjection(Instances, References)
    BY DEF Surjection, References
  <2> QED
    BY <2>1, FS_Surjection, ShapeAssumption
<1> QED
  BY <1>1, FS_Subset, FS_CardinalityType, FS_EmptySet

\* A chart without references has no users.
LEMMA NoReferencesUnused ==
    ASSUME Dependent(objects, configMaps), NEW d \in Instances,
           configMaps[Key(d)] = NoMap \/ configMaps[Key(d)] = {}
    PROVE  Unused(d, objects)
BY DEF Dependent, Unused, Held

LEMMA CheckReferencesSound ==
    ASSUME Setting, TypeOK, Alone, Sound, NEW p \in Procs, CheckReferences(p)
    PROVE  Sound'
<1> PICK f, o, m, op : f = Top(p) /\ o = objects /\ m = configMaps /\ op = command[p].op
  OBVIOUS
<1>1. /\ stack[p] # <<>> /\ f.step = "check"
      /\ objects' = o /\ configMaps' = m /\ command' = command
  BY DEF CheckReferences, At
<1>2. /\ f \in Frames /\ FrameSound(op, f, o, m) /\ op = "delete" /\ DeleteFrame(f, o, m)
      /\ f.inst \in Instances /\ f.key = Key(f.inst) /\ f.key \in Keys
  BY <1>1, TopSound, KeyTypes DEF ApplyFrame
<1>3. IF Remaining(m[f.key]) > 0 THEN Fail(p) ELSE Goto(p, [f EXCEPT !.step = "deleteMap"])
  <2>1. ~command[p].force
    BY DEF Setting, TypeOK
  <2> QED
    BY <2>1 DEF CheckReferences
<1>4. Keeps(op, o, m, o, m)
  BY <1>2 DEF Keeps
<1>5. CASE Fail(p)
  <2>1. StackSound(op, stack'[p], o, m) /\ \A q \in Procs : q # p => stack'[q] = stack[q]
    BY <1>1, <1>4, <1>5, EndSound
  <2> QED
    BY <1>1, <1>4, <2>1, SoundFrom DEF Sound
<1>6. CASE ~(Remaining(m[f.key]) > 0)
  <2>1. PICK g : g = [f EXCEPT !.step = "deleteMap"]
    OBVIOUS
  <2>2. /\ g \in Frames /\ g.inst = f.inst /\ g.key = f.key /\ g.todo = f.todo
        /\ g.step = "deleteMap"
    BY <1>2, <2>1 DEF Frames, Steps
  <2>3. m[f.key] = NoMap \/ m[f.key] = {}
    <3>1. m[f.key] \in SUBSET References \/ m[f.key] = NoMap
      BY <1>2 DEF TypeOK
    <3> QED
      BY <1>6, <3>1, ReferencesFinite DEF Remaining
  <2>4. Unused(f.inst, o)
    BY <1>2, <2>3, NoReferencesUnused DEF Sound
  <2>5. FrameSound(op, g, o, m)
    BY <1>1, <1>2, <2>2, <2>4 DEF FrameSound, DeleteFrame
  <2>6. Goto(p, g)
    BY <1>3, <1>6, <2>1
  <2>7. StackSound(op, stack'[p], o, m) /\ \A q \in Procs : q # p => stack'[q] = stack[q]
    BY <1>1, <1>4, <2>2, <2>5, <2>6, GotoSound
  <2> QED
    BY <1>1, <1>4, <2>7, SoundFrom DEF Sound
<1> QED
  BY <1>3, <1>5, <1>6

LEMMA DeleteMapSound ==
    ASSUME Setting, TypeOK, Alone, Sound, NEW p \in Procs, DeleteMap(p)
    PROVE  Sound'
<1> PICK f, o, m, m2, op : /\ f = Top(p) /\ o = objects /\ m = configMaps /\ m2 = configMaps'
                           /\ op = command[p].op
  OBVIOUS
<1>1. stack[p] # <<>> /\ f.step = "deleteMap" /\ objects' = o /\ command' = command
  BY DEF DeleteMap, At
<1>2. /\ f \in Frames /\ FrameSound(op, f, o, m) /\ op = "delete" /\ DeleteFrame(f, o, m)
      /\ f.inst \in Instances /\ f.key = Key(f.inst) /\ f.key \in Keys
  BY <1>1, TopSound, KeyTypes DEF ApplyFrame
<1>3. m2[f.key] = NoMap /\ \A k \in Keys \ {f.key} : m2[k] = m[k]
  BY <1>2 DEF DeleteMap, TypeOK
<1>4. Keeps(op, o, m, o, m2)
  BY <1>2 DEF Keeps
<1>5. Recorded(o, m2)
  BY <1>2, <1>3, KeyTypes DEF Sound, Recorded
<1>6. Dependent(o, m2)
  <2> SUFFICES ASSUME NEW i \in Instances, o[i] # "none", NEW d \in DependsOn[i]
               PROVE  Held(i, d, o, m2)
    BY DEF Dependent
  <2>1. d \in Instances /\ Held(i, d, o, m)
    BY DependsOnTypes DEF Sound, Dependent
  <2>2. d # f.inst
    BY <1>1, <1>2 DEF DeleteFrame, Unused
  <2>3. m2[Key(d)] = m[Key(d)]
    BY <1>2, <1>3, <2>1, <2>2, KeyTypes, KeysTellApart
  <2> QED
    BY <2>1, <2>3 DEF Held
<1>7. PICK g : g = [f EXCEPT !.step = "deleteObjects"] /\ Goto(p, g)
  BY DEF DeleteMap
<1>8. /\ g \in Frames /\ g.inst = f.inst /\ g.key = f.key /\ g.todo = f.todo
      /\ g.step = "deleteObjects"
  BY <1>2, <1>7 DEF Frames, Steps
<1>9. FrameSound(op, g, o, m2)
  BY <1>1, <1>2, <1>3, <1>8 DEF FrameSound, DeleteFrame
<1>10. StackSound(op, stack'[p], o, m2) /\ \A q \in Procs : q # p => stack'[q] = stack[q]
  BY <1>1, <1>4, <1>7, <1>8, <1>9, GotoSound
<1> QED
  BY <1>1, <1>4, <1>5, <1>6, <1>10, SoundFrom

LEMMA DeleteObjectsSound ==
    ASSUME Setting, TypeOK, Alone, Sound, NEW p \in Procs,
           DeleteObjects(p) \/ DeleteObjectsFails(p)
    PROVE  Sound'
<1> PICK f, o, m, o2, op : /\ f = Top(p) /\ o = objects /\ m = configMaps /\ o2 = objects'
                           /\ op = command[p].op
  OBVIOUS
<1>1. /\ stack[p] # <<>> /\ f.step = "deleteObjects"
      /\ configMaps' = m /\ command' = command
  BY DEF DeleteObjects, DeleteObjectsFails, At
<1>2. /\ f \in Frames /\ FrameSound(op, f, o, m) /\ op = "delete" /\ DeleteFrame(f, o, m)
      /\ f.inst \in Instances /\ f.key = Key(f.inst) /\ f.key \in Keys
  BY <1>1, TopSound, KeyTypes DEF ApplyFrame
<1>3. /\ \A i \in Instances \ {f.inst} : o2[i] = o[i]
      /\ o[f.inst] = "none" => o2[f.inst] = "none"
      /\ DeleteObjects(p) => o2[f.inst] = "none"
  BY <1>2 DEF DeleteObjects, DeleteObjectsFails, TypeOK
<1>4. Keeps(op, o, m, o2, m)
  BY <1>2, <1>3 DEF Keeps
<1>5. Unused(f.inst, o) /\ m[Key(f.inst)] = NoMap
  BY <1>1, <1>2 DEF DeleteFrame
<1>6. Recorded(o2, m)
  BY <1>3, <1>5 DEF Sound, Recorded
<1>7. Dependent(o2, m)
  <2> SUFFICES ASSUME NEW i \in Instances, o2[i] # "none", NEW d \in DependsOn[i]
               PROVE  Held(i, d, o2, m)
    BY DEF Dependent
  <2>1. d \in Instances /\ o[i] # "none"
    BY <1>3, DependsOnTypes
  <2>2. Held(i, d, o, m)
    BY <2>1 DEF Sound, Dependent
  <2>3. d # f.inst
    BY <1>5, <2>1 DEF Unused
  <2> QED
    BY <1>3, <2>1, <2>2, <2>3 DEF Held
<1>8. StackSound(op, stack'[p], o2, m) /\ \A q \in Procs : q # p => stack'[q] = stack[q]
  <2>1. CASE DeleteObjects(p)
    <3>1. PICK g : g = [f EXCEPT !.step = "release"] /\ Goto(p, g)
      BY <2>1 DEF DeleteObjects
    <3>2. /\ g \in Frames /\ g.inst = f.inst /\ g.key = f.key /\ g.todo = f.todo
          /\ g.step = "release"
      BY <1>2, <3>1 DEF Frames, Steps
    <3>3. FrameSound(op, g, o2, m)
      BY <1>2, <1>3, <2>1, <3>2 DEF FrameSound, DeleteFrame
    <3> QED
      BY <1>1, <1>4, <3>1, <3>2, <3>3, GotoSound
  <2>2. CASE DeleteObjectsFails(p)
    BY <1>1, <1>4, <2>2, EndSound DEF DeleteObjectsFails
  <2> QED
    BY <2>1, <2>2
<1> QED
  BY <1>1, <1>4, <1>6, <1>7, <1>8, SoundFrom

LEMMA ReleaseDependencySound ==
    ASSUME Setting, TypeOK, Alone, Sound, NEW p \in Procs, ReleaseDependency(p)
    PROVE  Sound'
<1> PICK f, o, m, op : f = Top(p) /\ o = objects /\ m = configMaps /\ op = command[p].op
  OBVIOUS
<1>1. /\ stack[p] # <<>> /\ f.step = "release"
      /\ objects' = o /\ configMaps' = m /\ command' = command
  BY DEF ReleaseDependency, At
<1>2. /\ f \in Frames /\ FrameSound(op, f, o, m) /\ op = "delete" /\ DeleteFrame(f, o, m)
      /\ f.inst \in Instances /\ f.todo \subseteq DependsOn[f.inst]
      /\ DependsOn[f.inst] \subseteq Instances
  BY <1>1, TopSound DEF ApplyFrame
<1>3. PICK d \in f.todo, step \in {"release", "removeUsedBy"} :
         Goto(p, [f EXCEPT !.todo = f.todo \ {d}, !.dep = d, !.step = step])
  BY DEF ReleaseDependency
<1>4. PICK g : g = [f EXCEPT !.todo = f.todo \ {d}, !.dep = d, !.step = step] /\ Goto(p, g)
  BY <1>3
<1>5. d \in Instances
  BY <1>2
<1>6. /\ g \in Frames /\ g.inst = f.inst /\ g.key = f.key /\ g.todo = f.todo \ {d}
      /\ g.step = step
  BY <1>2, <1>4, <1>5 DEF Frames, Steps
<1>7. FrameSound(op, g, o, m)
  BY <1>1, <1>2, <1>6 DEF FrameSound, DeleteFrame
<1>8. Keeps(op, o, m, o, m)
  BY <1>2 DEF Keeps
<1>9. StackSound(op, stack'[p], o, m) /\ \A q \in Procs : q # p => stack'[q] = stack[q]
  BY <1>1, <1>4, <1>6, <1>7, <1>8, GotoSound
<1> QED
  BY <1>1, <1>8, <1>9, SoundFrom DEF Sound

LEMMA RemoveUsedBySound ==
    ASSUME Setting, TypeOK, Alone, Sound, NEW p \in Procs,
           RemoveUsedBy(p) \/ RemoveUsedByFails(p)
    PROVE  Sound'
<1> PICK f, o, m, m2, op : /\ f = Top(p) /\ o = objects /\ m = configMaps /\ m2 = configMaps'
                           /\ op = command[p].op
  OBVIOUS
<1>1. stack[p] # <<>> /\ f.step = "removeUsedBy" /\ objects' = o /\ command' = command
  BY DEF RemoveUsedBy, RemoveUsedByFails, At
<1>2. /\ f \in Frames /\ FrameSound(op, f, o, m) /\ op = "delete" /\ DeleteFrame(f, o, m)
      /\ f.inst \in Instances /\ f.dep \in Instances /\ o[f.inst] = "none"
  BY <1>1, TopSound, FrameUpdates DEF ApplyFrame, DeleteFrame
<1>3. PICK k \in Keys, step \in {"release", "failed"} :
         /\ k = ListedKey(f.dep)
         /\ \/ m2 = m
            \/ m[k] # NoMap /\ m2 = [m EXCEPT ![k] = @ \ {UsedBy(f.inst)}]
         /\ \/ Call(p, [f EXCEPT !.step = step], Frame(f.dep, k, "check"))
            \/ Goto(p, [f EXCEPT !.step = step])
            \/ Fail(p)
  <2>1. CASE RemoveUsedBy(p)
    <3>1. LET k == ListedKey(f.dep)
          IN  /\ k \in Keys
              /\ \/ m2 = m
                 \/ m[k] # NoMap /\ m2 = [m EXCEPT ![k] = @ \ {UsedBy(f.inst)}]
              /\ \/ Call(p, [f EXCEPT !.step = "release"], Frame(f.dep, k, "check"))
                 \/ Goto(p, [f EXCEPT !.step = "release"])
      BY <1>2, <2>1, KeyTypes DEF RemoveUsedBy
    <3> QED
      BY <3>1
  <2>2. CASE RemoveUsedByFails(p)
    <3>1. LET k == ListedKey(f.dep)
          IN  /\ k \in Keys
              /\ \/ m2 = m
                 \/ m[k] # NoMap /\ m2 = [m EXCEPT ![k] = @ \ {UsedBy(f.inst)}]
              /\ \/ Call(p, [f EXCEPT !.step = "failed"], Frame(f.dep, k, "check"))
                 \/ Fail(p)
      BY <1>2, <2>2, KeyTypes DEF RemoveUsedByFails
    <3> QED
      BY <3>1
  <2> QED
    BY <2>1, <2>2
<1>4. \A j \in Keys : /\ m[j] = NoMap => m2[j] = NoMap
                      /\ m[j] # NoMap => m2[j] # NoMap
                      /\ \A r \in References :
                            m[j] # NoMap /\ r \in m[j] /\ r # UsedBy(f.inst) => r \in m2[j]
  <2>1. m \in [Keys -> (SUBSET References) \cup {NoMap}]
    BY DEF TypeOK
  <2>2. CASE m[k] # NoMap /\ m2 = [m EXCEPT ![k] = @ \ {UsedBy(f.inst)}]
    <3>1. m[k] \ {UsedBy(f.inst)} \in SUBSET References
      BY <2>1, <2>2
    <3> QED
      BY <2>1, <2>2, <3>1, NothingAssumption
  <2> QED
    BY <1>3, <2>2
<1>5. Keeps(op, o, m, o, m2)
  BY <1>2 DEF Keeps
<1>6. Recorded(o, m2)
  <2>1. Recorded(o, m) /\ \A i \in Instances : Key(i) \in Keys
    BY KeyTypes DEF Sound
  <2> QED
    BY <1>4, <2>1 DEF Recorded
<1>7. Dependent(o, m2)
  <2> SUFFICES ASSUME NEW i \in Instances, o[i] # "none", NEW d \in DependsOn[i]
               PROVE  Held(i, d, o, m2)
    BY DEF Dependent
  <2>1. d \in Instances /\ Held(i, d, o, m) /\ i # f.inst
    BY <1>2, DependsOnTypes DEF Sound, Dependent
  <2>2. UsedBy(i) # UsedBy(f.inst) /\ Key(d) \in Keys /\ UsedBy(i) \in References
    BY <1>2, <2>1, KeysTellApart, KeyTypes
  <2> QED
    BY <1>4, <2>1, <2>2 DEF Held
<1>8. PICK g : g = [f EXCEPT !.step = step]
  OBVIOUS
<1>9. /\ g \in Frames /\ g.inst = f.inst /\ g.key = f.key /\ g.todo = f.todo
      /\ g.step = step
  BY <1>2, <1>8 DEF Frames, Steps
<1>10. FrameSound(op, g, o, m2)
  BY <1>2, <1>9 DEF FrameSound, DeleteFrame
<1>11. PICK h : h = Frame(f.dep, k, "check")
  OBVIOUS
<1>12. h \in Frames /\ h.inst = f.dep /\ h.key = k /\ h.step = "check" /\ h.todo = DependsOn[f.dep]
  BY <1>2, <1>11, KeyTypes DEF Frame, Steps
<1>13. FrameSound(op, h, o, m2) /\ Waiting(op, g, h)
  BY <1>2, <1>3, <1>9, <1>12, KeysTellApart DEF FrameSound, DeleteFrame, Waiting
<1>14. StackSound(op, stack'[p], o, m2) /\ \A q \in Procs : q # p => stack'[q] = stack[q]
  <2>1. CASE Call(p, g, h)
    BY <1>1, <1>5, <1>9, <1>10, <1>12, <1>13, <2>1, CallSound
  <2>2. CASE Goto(p, g)
    BY <1>1, <1>5, <1>9, <1>10, <2>2, GotoSound
  <2>3. CASE Fail(p)
    BY <1>1, <1>5, <2>3, EndSound
  <2> QED
    BY <1>3, <1>8, <1>11, <2>1, <2>2, <2>3
<1> QED
  BY <1>1, <1>5, <1>6, <1>7, <1>14, SoundFrom

LEMMA DependenciesReleasedSound ==
    ASSUME Setting, TypeOK, Alone, Sound, NEW p \in Procs,
           DependenciesReleased(p) \/ ReleaseFailed(p)
    PROVE  Sound'
<1> PICK f, o, m, op : f = Top(p) /\ o = objects /\ m = configMaps /\ op = command[p].op
  OBVIOUS
<1>1. /\ stack[p] # <<>> /\ f.step \in {"release", "failed"} /\ (Return(p) \/ Fail(p))
      /\ objects' = o /\ configMaps' = m /\ command' = command
  BY DEF DependenciesReleased, ReleaseFailed, At
<1>2. op = "delete"
  BY <1>1, TopSound DEF ApplyFrame
<1>3. Keeps(op, o, m, o, m)
  BY <1>2 DEF Keeps
<1>4. StackSound(op, stack'[p], o, m) /\ \A q \in Procs : q # p => stack'[q] = stack[q]
  BY <1>1, <1>3, EndSound
<1> QED
  BY <1>1, <1>3, <1>4, SoundFrom DEF Sound

LEMMA StartSound ==
    ASSUME Setting, TypeOK, Alone, Sound, NEW p \in Procs, Start(p)
    PROVE  Sound' /\ Alone'
<1>1. PICK c \in Commands, i \in Instances :
         /\ \A q \in Procs : stack[q] # <<>> => {c, command[q]} \subseteq Overlapping
         /\ command'[p] = c
         /\ stack'[p] = <<Frame(i, Key(i), IF c.op = "apply" THEN "dependencies" ELSE "check")>>
         /\ DOMAIN stack'[p] = {1}
         /\ \A q \in Procs : q # p => stack'[q] = stack[q] /\ command'[q] = command[q]
  BY StartTypes
<1>2. objects' = objects /\ configMaps' = configMaps
  BY DEF Start
<1>3. PICK o, m, s, f : /\ o = objects /\ m = configMaps /\ s = stack'[p] /\ f = s[1]
  OBVIOUS
<1>4. /\ f.inst = i /\ f.key = Key(i) /\ f.todo = DependsOn[i]
      /\ f.step = IF c.op = "apply" THEN "dependencies" ELSE "check"
  BY <1>1, <1>3 DEF Frame
<1>5. FrameSound(c.op, f, o, m)
  BY <1>4 DEF FrameSound, ApplyFrame, DeleteFrame, Done
<1>6. StackSound(c.op, s, o, m)
  BY <1>1, <1>3, <1>5 DEF StackSound
<1>7. Sound'
  <2> SUFFICES ASSUME NEW q \in Procs
               PROVE  StackSound(command'[q].op, stack'[q], objects, configMaps)
    BY <1>2 DEF Sound
  <2> QED
    BY <1>1, <1>3, <1>6 DEF Sound
<1>8. Alone'
  <2> SUFFICES ASSUME NEW q \in Procs, NEW r \in Procs, q # r,
                      stack'[q] # <<>>, stack'[r] # <<>>
               PROVE  command'[q].op = "apply"
    BY DEF Alone
  <2>1. CASE q # p /\ r # p
    BY <1>1, <2>1 DEF Alone
  <2>2. CASE q = p
    BY <1>1, <2>2 DEF Setting
  <2>3. CASE r = p
    BY <1>1, <2>3 DEF Setting
  <2> QED
    BY <2>1, <2>2, <2>3
<1> QED
  BY <1>7, <1>8

LEMMA KilledSound ==
    ASSUME Setting, TypeOK, Alone, Sound, NEW p \in Procs, Killed(p)
    PROVE  Sound' /\ Alone'
<1>1. /\ objects' = objects /\ configMaps' = configMaps /\ command' = command
      /\ stack'[p] = <<>> /\ \A q \in Procs : q # p => stack'[q] = stack[q]
  BY EndFacts DEF Killed
<1>2. Sound'
  <2> SUFFICES ASSUME NEW q \in Procs
               PROVE  StackSound(command[q].op, stack'[q], objects, configMaps)
    BY <1>1 DEF Sound
  <2> QED
    BY <1>1 DEF Sound, StackSound
<1> QED
  BY <1>1, <1>2 DEF Alone

\* A step is one of a process that runs; it leaves the others alone.
LEMMA StepOfOne ==
    ASSUME TypeOK, NEW p \in Procs, Step(p)
    PROVE  /\ stack[p] # <<>> /\ command' = command
           /\ \A q \in Procs : q # p => stack'[q] = stack[q]
<1>1. stack[p] # <<>> /\ command' = command
  BY DEF Step, At, ApplyDependency, AddUsedBy, DependenciesApplied, ApplyObjects,
         ApplyObjectsFails, GetMap, PutMap, CheckReferences, DeleteMap, DeleteObjects,
         DeleteObjectsFails, ReleaseDependency, RemoveUsedBy, DependenciesReleased,
         RemoveUsedByFails, ReleaseFailed
<1>2. \E t : stack' = [stack EXCEPT ![p] = t]
  BY DEF Step, Goto, Call, Return, Fail, ApplyDependency, AddUsedBy, DependenciesApplied,
         ApplyObjects, ApplyObjectsFails, GetMap, PutMap, CheckReferences, DeleteMap,
         DeleteObjects, DeleteObjectsFails, ReleaseDependency, RemoveUsedBy, DependenciesReleased,
         RemoveUsedByFails, ReleaseFailed
<1> QED
  BY <1>1, <1>2 DEF TypeOK

LEMMA StepSound ==
    ASSUME Setting, TypeOK, Alone, Sound, NEW p \in Procs, Step(p)
    PROVE  Sound' /\ Alone'
<1>1. Sound'
  BY ApplyDependencySound, AddUsedBySound, ApplyGoesOnSound, ApplyObjectsSound, PutMapSound,
     CheckReferencesSound, DeleteMapSound, DeleteObjectsSound, ReleaseDependencySound,
     RemoveUsedBySound, DependenciesReleasedSound DEF Step
<1>2. Alone'
  BY StepOfOne DEF Alone
<1> QED
  BY <1>1, <1>2

LEMMA SoundKept ==
    ASSUME Setting
    PROVE  TypeOK /\ Alone /\ Sound /\ [Next]_vars => (Alone /\ Sound)'
<1> SUFFICES ASSUME TypeOK, Alone, Sound, [Next]_vars
             PROVE  (Alone /\ Sound)'
  OBVIOUS
<1>1. CASE UNCHANGED vars
  BY <1>1 DEF vars, Alone, Sound
<1> QED
  BY <1>1, StartSound, KilledSound, StepSound DEF Next

LEMMA InitSound == Init => Alone /\ Sound
BY KeyTypes DEF Init, Alone, Sound, StackSound, Recorded, Dependent

LEMMA AlwaysSound ==
    ASSUME Setting
    PROVE  Spec => [](TypeOK /\ Alone /\ Sound)
BY InitTypes, TypesKept, InitSound, SoundKept, PTL DEF Spec

\* "If you install this package, kdo automatically ensures, that all required dependencies
\* are installed": between commands every chart with objects in the cluster has its
\* dependencies there in full, each with a reference to it, whatever was killed or failed
\* (wrapApply, wrapDelete, dependency.Apply and dependency.Delete).
THEOREM DependenciesAreHeld ==
    ASSUME Setting
    PROVE  Spec => []DependenciesHeld
<1>1. TypeOK /\ Alone /\ Sound => DependenciesHeld
  BY DependsOnTypes DEF Sound, Dependent, Held, DependenciesHeld
<1> QED
  BY <1>1, AlwaysSound, PTL

-----------------------------------------------------------------------------
(* References go with their users, as long as nothing fails *)

LEMMA FramesOfStacks ==
    ASSUME NEW s, NEW k \in Nat, Behind(s, k), NEW t
    PROVE  /\ FramesOf(s) = {s[1]} \cup Below(s)
           /\ \A f : Replaced(t, f, s, k) => FramesOf(t) = {f} \cup Below(s)
           /\ \A f, g : Pushed(t, g, f, s, k) => FramesOf(t) = {g, f} \cup Below(s)
           /\ Popped(t, s, k) => FramesOf(t) = Below(s)
<1>1. FramesOf(s) = {s[1]} \cup Below(s)
  BY DEF FramesOf, Below, Behind
<1>2. Below(s) = {s[n] : n \in 2..(k + 1)}
  <2>1. 1..(k + 1) \ {1} = 2..(k + 1)
    OBVIOUS
  <2> QED
    BY <2>1 DEF Below, Behind
<1>3. ASSUME NEW f, Replaced(t, f, s, k)
      PROVE  FramesOf(t) = {f} \cup Below(s)
  <2>1. 1..(k + 1) = {1} \cup 2..(k + 1)
    OBVIOUS
  <2> QED
    BY <1>2, <1>3, <2>1 DEF FramesOf, Replaced
<1>4. ASSUME NEW f, NEW g, Pushed(t, g, f, s, k)
      PROVE  FramesOf(t) = {g, f} \cup Below(s)
  <2>1. \A n \in 1..(k + 2) : n = 1 \/ n = 2 \/ (n \in 3..(k + 2) /\ n - 1 \in 2..(k + 1))
    OBVIOUS
  <2>2. FramesOf(t) \subseteq {g, f} \cup Below(s)
    BY <1>2, <1>4, <2>1 DEF FramesOf, Pushed
  <2>3. g \in FramesOf(t) /\ f \in FramesOf(t)
    BY <1>4 DEF FramesOf, Pushed
  <2>4. ASSUME NEW n \in 2..(k + 1)
        PROVE  s[n] \in FramesOf(t)
    <3>1. PICK j : j = n + 1
      OBVIOUS
    <3>2. j \in 3..(k + 2) /\ j - 1 = n /\ j \in 1..(k + 2)
      BY <3>1
    <3>3. t[j] = s[n] /\ j \in DOMAIN t
      BY <1>4, <3>2 DEF Pushed
    <3> QED
      BY <3>3 DEF FramesOf
  <2> QED
    BY <1>2, <2>2, <2>3, <2>4
<1>5. ASSUME Popped(t, s, k)
      PROVE  FramesOf(t) = Below(s)
  <2>1. FramesOf(t) \subseteq Below(s)
    BY <1>2, <1>5 DEF FramesOf, Popped
  <2>2. ASSUME NEW n \in 2..(k + 1)
        PROVE  s[n] \in FramesOf(t)
    <3>1. PICK j : j = n - 1
      OBVIOUS
    <3>2. j \in 1..k /\ j + 1 = n
      BY <3>1
    <3>3. t[j] = s[n] /\ j \in DOMAIN t
      BY <1>5, <3>2 DEF Popped
    <3> QED
      BY <3>3 DEF FramesOf
  <2> QED
    BY <1>2, <2>1, <2>2
<1> QED
  BY <1>1, <1>3, <1>4, <1>5

LEMMA TopFrames ==
    ASSUME TypeOK, NEW p \in Procs, stack[p] # <<>>
    PROVE  FramesOf(stack[p]) = {Top(p)} \cup Below(stack[p])
<1>1. PICK k \in Nat : Behind(stack[p], k) /\ Top(p) = stack[p][1]
  BY TopFacts
<1> QED
  BY <1>1, FramesOfStacks

\* Frames are done with charts.
LEMMA BelowTypes ==
    ASSUME TypeOK, NEW p \in Procs, NEW h \in FramesOf(stack[p]), NEW d \in Done(h)
    PROVE  h \in Frames /\ d \in Instances
<1>1. h \in Frames
  BY LenProperties, ElementOfSeq DEF FramesOf, TypeOK
<1> QED
  BY <1>1, FrameUpdates, DependsOnTypes DEF Done

\* The head of a stack that is not empty.
LEMMA HeadIsFirst ==
    ASSUME NEW s \in Seq(Frames), s # <<>>
    PROVE  Head(s) = s[1]
BY HeadAndTail

LEMMA GotoFrames ==
    ASSUME TypeOK, NEW p \in Procs, stack[p] # <<>>, NEW f \in Frames, Goto(p, f)
    PROVE  /\ stack'[p] # <<>> /\ Top(p)' = f
           /\ FramesOf(stack'[p]) = {f} \cup Below(stack[p])
<1>1. PICK k \in Nat : Behind(stack[p], k)
  BY TopFacts
<1>2. Replaced(stack'[p], f, stack[p], k) /\ stack'[p] \in Seq(Frames) /\ stack'[p] # <<>>
  BY <1>1, GotoFacts
<1>3. Head(stack'[p]) = f
  BY <1>2, HeadIsFirst DEF Replaced
<1>4. FramesOf(stack'[p]) = {f} \cup Below(stack[p])
  BY <1>1, <1>2, FramesOfStacks
<1> QED
  BY <1>2, <1>3, <1>4 DEF Top

LEMMA CallFrames ==
    ASSUME TypeOK, NEW p \in Procs, stack[p] # <<>>, NEW f \in Frames, NEW g \in Frames,
           Call(p, f, g)
    PROVE  /\ stack'[p] # <<>> /\ Top(p)' = g
           /\ FramesOf(stack'[p]) = {g, f} \cup Below(stack[p])
<1>1. PICK k \in Nat : Behind(stack[p], k)
  BY TopFacts
<1>2. Pushed(stack'[p], g, f, stack[p], k) /\ stack'[p] \in Seq(Frames) /\ stack'[p] # <<>>
  BY <1>1, CallFacts
<1>3. Head(stack'[p]) = g
  BY <1>2, HeadIsFirst DEF Pushed
<1>4. FramesOf(stack'[p]) = {g, f} \cup Below(stack[p])
  BY <1>1, <1>2, FramesOfStacks
<1> QED
  BY <1>2, <1>3, <1>4 DEF Top

LEMMA PopFrames ==
    ASSUME TypeOK, Sound, NEW p \in Procs, stack[p] # <<>>, stack' = [stack EXCEPT ![p] = Tail(@)]
    PROVE  /\ FramesOf(stack'[p]) = Below(stack[p])
           /\ stack'[p] # <<>> => Waiting(command[p].op, Top(p)', Top(p))
<1>1. PICK k \in Nat : Behind(stack[p], k) /\ Top(p) = stack[p][1]
  BY TopFacts
<1>2. Popped(stack'[p], stack[p], k) /\ stack'[p] \in Seq(Frames)
  BY <1>1, PopFacts
<1>3. FramesOf(stack'[p]) = Below(stack[p])
  BY <1>1, <1>2, FramesOfStacks
<1>4. ASSUME stack'[p] # <<>>
      PROVE  Waiting(command[p].op, Top(p)', Top(p))
  <2>1. k # 0 /\ Head(stack'[p]) = stack'[p][1]
    BY <1>2, <1>4, HeadIsFirst DEF Popped
  <2>2. 1 \in 1..k /\ 2 \in 1..(k + 1) /\ 2 > 1 /\ 1 + 1 = 2 /\ 2 - 1 = 1
    BY <2>1
  <2>3. stack'[p][1] = stack[p][2]
    BY <1>2, <2>2 DEF Popped
  <2>4. Waiting(command[p].op, stack[p][2], stack[p][1])
    <3>1. StackSound(command[p].op, stack[p], objects, configMaps)
      BY DEF Sound
    <3>2. 2 \in DOMAIN stack[p]
      BY <1>1, <2>2 DEF Behind
    <3>3. Waiting(command[p].op, stack[p][2], stack[p][2 - 1])
      BY <3>1, <3>2, <2>2 DEF StackSound
    <3> QED
      BY <2>2, <3>3
  <2> QED
    BY <1>1, <2>1, <2>3, <2>4 DEF Top
<1> QED
  BY <1>3, <1>4

\* What a step leaves to show.
Justified(p, i, d) ==
    objects'[i] # "none" \/ \E f \in FramesOf(stack'[p]) : Pending(command[p].op, f, i, d)

LEMMA AccountedFrom ==
    ASSUME TypeOK, Accounted, NEW p \in Procs, stack[p] # <<>>, command' = command,
           \A q \in Procs : q # p => stack'[q] = stack[q],
           Below(stack[p]) \subseteq FramesOf(stack'[p]),
           \A i \in Instances : objects[i] # "none" => objects'[i] # "none" \/ Top(p).inst = i,
           \A i, d \in Instances : Refers(i, d, configMaps') =>
              \/ Refers(i, d, configMaps)
              \/ d \in DependsOn[i] /\ Justified(p, i, d),
           \A i, d \in Instances :
              /\ Refers(i, d, configMaps') /\ d \in DependsOn[i] /\ Top(p).inst = i
              /\ objects[i] # "none" \/ Pending(command[p].op, Top(p), i, d)
              => Justified(p, i, d)
    PROVE  Accounted'
<1> SUFFICES ASSUME NEW i \in Instances, NEW d \in Instances, Refers(i, d, configMaps')
             PROVE  /\ d \in DependsOn[i]
                    /\ \/ objects'[i] # "none"
                       \/ \E q \in Procs : \E f \in FramesOf(stack'[q]) :
                             Pending(command[q].op, f, i, d)
  BY DEF Accounted, Refers
<1>1. CASE d \in DependsOn[i] /\ Justified(p, i, d)
  BY <1>1 DEF Justified
<1>2. CASE Refers(i, d, configMaps)
  <2>1. d \in DependsOn[i]
    BY <1>2 DEF Accounted
  <2>2. CASE objects[i] # "none"
    <3>1. objects'[i] # "none" \/ Justified(p, i, d)
      BY <2>1, <2>2
    <3> QED
      BY <2>1, <3>1 DEF Justified
  <2>3. ASSUME NEW q \in Procs, NEW f \in FramesOf(stack[q]), Pending(command[q].op, f, i, d)
        PROVE  \/ objects'[i] # "none"
               \/ \E r \in Procs : \E g \in FramesOf(stack'[r]) : Pending(command[r].op, g, i, d)
    <3>1. CASE q # p
      BY <2>3, <3>1
    <3>2. CASE q = p /\ f \in Below(stack[p])
      BY <2>3, <3>2
    <3>3. CASE q = p /\ f = Top(p)
      <4>1. Top(p).inst = i
        BY <2>3, <3>3 DEF Pending
      <4>2. Justified(p, i, d)
        BY <2>1, <2>3, <3>3, <4>1
      <4> QED
        BY <4>2 DEF Justified
    <3> QED
      BY <3>1, <3>2, <3>3, TopFrames
  <2> QED
    BY <1>2, <2>1, <2>2, <2>3 DEF Accounted
<1> QED
  BY <1>1, <1>2

LEMMA ReadyFrom ==
    ASSUME TypeOK, Alone, Ready, NEW p \in Procs, stack[p] # <<>>,
           \A q \in Procs : q # p => stack'[q] = stack[q],
           command[p].op = "apply" =>
              \A k \in Keys : configMaps[k] # NoMap => configMaps'[k] # NoMap,
           stack'[p] # <<>> /\ Top(p)'.step = "addUsedByNew" =>
              configMaps'[Key(Top(p)'.dep)] # NoMap
    PROVE  Ready'
<1> SUFFICES ASSUME NEW q \in Procs, q # p, stack[q] # <<>>, Top(q).step = "addUsedByNew"
             PROVE  configMaps'[Key(Top(q).dep)] # NoMap
  BY DEF Ready, Top
<1>1. command[p].op = "apply"
  BY DEF Alone
<1>2. Key(Top(q).dep) \in Keys
  BY TopFacts, FrameUpdates, KeyTypes
<1> QED
  BY <1>1, <1>2 DEF Ready

LEMMA CleanedFrom ==
    ASSUME TypeOK, Alone, NEW p \in Procs, stack[p] # <<>>, command' = command,
           \A q \in Procs : q # p => stack'[q] = stack[q],
           command[p].op = "delete" /\ command[p].recursive =>
              \A f \in FramesOf(stack'[p]) : \A d \in Done(f) : configMaps'[Key(d)] = {} =>
                 Top(p)'.inst = d /\ Top(p)'.step \in {"check", "deleteMap"}
    PROVE  Cleaned'
<1> SUFFICES ASSUME NEW q \in Procs, q # p, command[q].op = "delete", stack[q] # <<>>
             PROVE  FALSE
  BY DEF Cleaned, FramesOf
<1> QED
  BY DEF Alone

LEMMA ApplyDependencyTidy ==
    ASSUME Setting, TypeOK, Alone, Sound, Tidy, NEW p \in Procs, ApplyDependency(p)
    PROVE  Tidy'
<1> PICK f, o, m, op : f = Top(p) /\ o = objects /\ m = configMaps /\ op = command[p].op
  OBVIOUS
<1>1. /\ stack[p] # <<>> /\ f.step = "dependencies"
      /\ objects' = o /\ configMaps' = m /\ command' = command
      /\ \A q \in Procs : q # p => stack'[q] = stack[q]
  BY StepOfOne DEF ApplyDependency, At, Step
<1>2. /\ f \in Frames /\ op = "apply" /\ f.todo \subseteq Instances
  BY <1>1, TopSound DEF DeleteFrame
<1>3. PICK d \in f.todo :
         IF Listed(d)
         THEN Goto(p, [[f EXCEPT !.todo = @ \ {d}, !.dep = d] EXCEPT !.step = "addUsedBy"])
         ELSE Call(p, [[f EXCEPT !.todo = @ \ {d}, !.dep = d] EXCEPT !.step = "addUsedByNew"],
                   Frame(d, Key(d), "dependencies"))
  BY DEF ApplyDependency
<1>4. PICK step, h : /\ step = IF Listed(d) THEN "addUsedBy" ELSE "addUsedByNew"
                     /\ h = Frame(d, Key(d), "dependencies")
  OBVIOUS
<1>5. PICK g : g = [[f EXCEPT !.todo = @ \ {d}, !.dep = d] EXCEPT !.step = step]
  OBVIOUS
<1>6. /\ d \in Instances /\ step \in {"addUsedBy", "addUsedByNew"}
      /\ g \in Frames /\ g.inst = f.inst /\ g.step = step
  BY <1>2, <1>4, <1>5 DEF Frames, Steps
<1>7. /\ g \in FramesOf(stack'[p]) /\ Below(stack[p]) \subseteq FramesOf(stack'[p])
      /\ Top(p)'.step # "addUsedByNew"
  <2>1. h \in Frames /\ h.step = "dependencies"
    BY <1>4, <1>6, KeyTypes DEF Frame, Steps
  <2>2. CASE Listed(d)
    <3>1. Goto(p, g) /\ g.step = "addUsedBy"
      BY <1>3, <1>4, <1>5, <1>6, <2>2
    <3> QED
      BY <1>1, <1>6, <3>1, GotoFrames
  <2>3. CASE ~Listed(d)
    <3>1. Call(p, g, h)
      BY <1>3, <1>4, <1>5, <2>3
    <3> QED
      BY <1>1, <1>6, <2>1, <3>1, CallFrames
  <2> QED
    BY <2>2, <2>3
<1>8. Accounted'
  <2>1. \A i, e \in Instances : f.inst = i => Justified(p, i, e)
    BY <1>2, <1>6, <1>7 DEF Justified, Pending
  <2> QED
    BY <1>1, <1>7, <2>1, AccountedFrom DEF Tidy
<1>9. Ready'
  BY <1>1, <1>7, ReadyFrom DEF Tidy
<1>10. Cleaned'
  BY <1>1, <1>2, CleanedFrom
<1> QED
  BY <1>8, <1>9, <1>10 DEF Tidy

LEMMA AddUsedByTidy ==
    ASSUME Setting, TypeOK, Alone, Sound, Tidy, NEW p \in Procs, AddUsedBy(p)
    PROVE  Tidy'
<1> PICK f, o, m, m2, op : /\ f = Top(p) /\ o = objects /\ m = configMaps /\ m2 = configMaps'
                           /\ op = command[p].op
  OBVIOUS
<1>1. /\ stack[p] # <<>> /\ f.step \in {"addUsedBy", "addUsedByNew"}
      /\ objects' = o /\ command' = command
      /\ \A q \in Procs : q # p => stack'[q] = stack[q]
  BY StepOfOne DEF AddUsedBy, At, Step
<1>2. /\ f \in Frames /\ op = "apply" /\ ApplyFrame(f, o, m) /\ f.inst \in Instances
      /\ f.dep \in DependsOn[f.inst] /\ f.dep \in Instances
  BY <1>1, TopSound, FrameUpdates DEF DeleteFrame, ApplyFrame
<1>3. PICK k : /\ k = Key(f.dep) /\ k \in Keys
               /\ IF m[k] = NoMap
                  THEN Fail(p) /\ m2 = m
                  ELSE /\ m2 = [m EXCEPT ![k] = @ \cup {UsedBy(f.inst)}]
                       /\ Goto(p, [f EXCEPT !.step = "dependencies"])
  BY <1>2, KeyTypes, KeysTellApart DEF AddUsedBy
<1>4. m[k] # NoMap
  BY <1>1, <1>2, <1>3 DEF ApplyFrame, Tidy, Ready
<1>5. PICK g : g = [f EXCEPT !.step = "dependencies"] /\ Goto(p, g)
  BY <1>3, <1>4
<1>6. g \in Frames /\ g.inst = f.inst /\ g.step = "dependencies"
  BY <1>2, <1>5 DEF Frames, Steps
<1>7. /\ g \in FramesOf(stack'[p]) /\ Below(stack[p]) \subseteq FramesOf(stack'[p])
      /\ Top(p)' = g
  BY <1>1, <1>5, <1>6, GotoFrames
<1>8. /\ m2[k] = m[k] \cup {UsedBy(f.inst)} /\ m2[k] # NoMap
      /\ \A j \in Keys \ {k} : m2[j] = m[j]
  <2>1. m \in [Keys -> (SUBSET References) \cup {NoMap}] /\ UsedBy(f.inst) \in References
    BY <1>2, KeyTypes DEF TypeOK
  <2>2. m[k] \cup {UsedBy(f.inst)} \in SUBSET References
    BY <1>3, <1>4, <2>1
  <2> QED
    BY <1>3, <1>4, <2>1, <2>2, NothingAssumption
<1>9. Accounted'
  <2>1. \A i, e \in Instances : f.inst = i => Justified(p, i, e)
    BY <1>2, <1>6, <1>7 DEF Justified, Pending
  <2>2. ASSUME NEW i \in Instances, NEW e \in Instances, Refers(i, e, m2)
        PROVE  Refers(i, e, m) \/ (e = f.dep /\ i = f.inst)
    <3>1. CASE Key(e) # k
      BY <1>8, <2>2, <3>1, KeyTypes DEF Refers
    <3>2. CASE Key(e) = k
      <4>1. e = f.dep
        BY <1>2, <1>3, <3>2, KeysTellApart
      <4>2. UsedBy(i) = UsedBy(f.inst) => i = f.inst
        BY <1>2, KeysTellApart
      <4> QED
        BY <1>4, <1>8, <2>2, <3>2, <4>1, <4>2 DEF Refers
    <3> QED
      BY <3>1, <3>2
  <2> QED
    BY <1>1, <1>2, <1>7, <2>1, <2>2, AccountedFrom DEF Tidy
<1>10. Ready'
  BY <1>1, <1>6, <1>7, <1>8, ReadyFrom DEF Tidy
<1>11. Cleaned'
  BY <1>1, <1>2, CleanedFrom
<1> QED
  BY <1>9, <1>10, <1>11 DEF Tidy

LEMMA ApplyGoesOnTidy ==
    ASSUME Setting, TypeOK, Alone, Sound, Tidy, NEW p \in Procs,
           DependenciesApplied(p) \/ ApplyObjects(p) \/ GetMap(p)
    PROVE  Tidy'
<1> PICK f, o, m, o2, op : /\ f = Top(p) /\ o = objects /\ m = configMaps /\ o2 = objects'
                           /\ op = command[p].op
  OBVIOUS
<1>1. /\ stack[p] # <<>> /\ f.step \in {"dependencies", "applyObjects", "getMap"}
      /\ configMaps' = m /\ command' = command
      /\ \A q \in Procs : q # p => stack'[q] = stack[q]
  BY StepOfOne DEF DependenciesApplied, ApplyObjects, GetMap, At, Step
<1>2. f \in Frames /\ op = "apply" /\ ApplyFrame(f, o, m) /\ f.inst \in Instances
  BY <1>1, TopSound DEF DeleteFrame
<1>3. \A i \in Instances : o[i] # "none" => o2[i] # "none"
  BY <1>2 DEF DependenciesApplied, ApplyObjects, GetMap, TypeOK
<1>4. PICK step \in {"applyObjects", "getMap", "putMap"}, found \in BOOLEAN :
         /\ \/ Goto(p, [f EXCEPT !.step = step])
            \/ Goto(p, [f EXCEPT !.step = step, !.found = found])
         /\ step \in {"getMap", "putMap"} => o2[f.inst] = "all"
  <2>1. CASE DependenciesApplied(p)
    BY <2>1 DEF DependenciesApplied
  <2>2. CASE ApplyObjects(p)
    <3>1. o2[f.inst] = "all"
      BY <1>2, <2>2 DEF ApplyObjects, TypeOK
    <3> QED
      BY <2>2, <3>1 DEF ApplyObjects
  <2>3. CASE GetMap(p)
    <3>1. o2[f.inst] = "all"
      BY <1>2, <2>3 DEF GetMap, At, ApplyFrame
    <3> QED
      BY <2>3, <3>1 DEF GetMap
  <2> QED
    BY <2>1, <2>2, <2>3
<1>5. PICK g : /\ g = [f EXCEPT !.step = step] \/ g = [f EXCEPT !.step = step, !.found = found]
               /\ Goto(p, g)
  BY <1>4
<1>6. /\ g \in Frames /\ g.inst = f.inst /\ g.step = step
      /\ g \in FramesOf(stack'[p]) /\ Below(stack[p]) \subseteq FramesOf(stack'[p])
      /\ Top(p)' = g
  <2>1. g \in Frames /\ g.inst = f.inst /\ g.step = step
    BY <1>2, <1>4, <1>5 DEF Frames, Steps
  <2>2. g \in Frames /\ Goto(p, g)
    BY <1>5, <2>1
  <2>3. /\ g \in FramesOf(stack'[p]) /\ Below(stack[p]) \subseteq FramesOf(stack'[p])
        /\ Top(p)' = g
    BY <1>1, <2>2, GotoFrames
  <2> QED
    BY <2>1, <2>3
<1>7. Accounted'
  <2>1. \A i, e \in Instances : f.inst = i => Justified(p, i, e)
    BY <1>2, <1>4, <1>6 DEF Justified, Pending
  <2> QED
    BY <1>1, <1>3, <1>6, <2>1, AccountedFrom DEF Tidy
<1>8. Ready'
  BY <1>1, <1>6, ReadyFrom DEF Tidy
<1>9. Cleaned'
  BY <1>1, <1>2, CleanedFrom
<1> QED
  BY <1>7, <1>8, <1>9 DEF Tidy

LEMMA PutMapTidy ==
    ASSUME Setting, TypeOK, Alone, Sound, Tidy, NEW p \in Procs, PutMap(p), faults = 0, faults' = 0
    PROVE  Tidy'
<1> PICK f, o, m, m2, op : /\ f = Top(p) /\ o = objects /\ m = configMaps /\ m2 = configMaps'
                           /\ op = command[p].op
  OBVIOUS
<1>1. /\ stack[p] # <<>> /\ f.step = "putMap" /\ objects' = o /\ command' = command
      /\ \A q \in Procs : q # p => stack'[q] = stack[q]
  BY StepOfOne DEF PutMap, At, Step
<1>2. /\ f \in Frames /\ op = "apply" /\ ApplyFrame(f, o, m) /\ f.inst \in Instances
      /\ f.key = Key(f.inst) /\ f.key \in Keys
  BY <1>1, TopSound, KeyTypes DEF DeleteFrame
<1>3. /\ stack' = [stack EXCEPT ![p] = Tail(@)]
      /\ m2 = [m EXCEPT ![f.key] = IF @ = NoMap /\ ~f.found THEN {} ELSE @]
  BY DEF PutMap, Return
<1>4. /\ \A k \in Keys : m[k] # NoMap => m2[k] = m[k]
      /\ \A k \in Keys : m[k] = NoMap => m2[k] = NoMap \/ m2[k] = {}
      /\ m2[f.key] # NoMap
  <2>1. m[f.key] = NoMap => ~f.found
    BY <1>1, <1>2 DEF ApplyFrame
  <2>2. {} # NoMap
    BY NothingAssumption
  <2> QED
    BY <1>2, <1>3, <2>1, <2>2 DEF TypeOK
<1>5. /\ FramesOf(stack'[p]) = Below(stack[p])
      /\ stack'[p] # <<>> => Waiting(op, Top(p)', f)
  BY <1>1, <1>3, PopFrames
<1>6. Accounted'
  <2>1. \A i, e \in Instances : Refers(i, e, m2) => Refers(i, e, m)
    BY <1>4, KeyTypes DEF Refers
  <2>2. \A i, e \in Instances : objects[i] # "none" => Justified(p, i, e)
    BY <1>1 DEF Justified
  <2>3. \A i, e \in Instances : ~Pending(op, f, i, e)
    BY <1>1, <1>2 DEF Pending
  <2> QED
    BY <1>1, <1>5, <2>1, <2>2, <2>3, AccountedFrom DEF Tidy
<1>7. Ready'
  BY <1>1, <1>2, <1>4, <1>5, ReadyFrom DEF Tidy, Waiting
<1>8. Cleaned'
  BY <1>1, <1>2, CleanedFrom
<1> QED
  BY <1>6, <1>7, <1>8 DEF Tidy

LEMMA CheckReferencesTidy ==
    ASSUME Setting, TypeOK, Alone, Sound, Tidy, NEW p \in Procs, CheckReferences(p)
    PROVE  Tidy'
<1> PICK f, o, m, op : f = Top(p) /\ o = objects /\ m = configMaps /\ op = command[p].op
  OBVIOUS
<1>1. /\ stack[p] # <<>> /\ f.step = "check"
      /\ objects' = o /\ configMaps' = m /\ command' = command
      /\ \A q \in Procs : q # p => stack'[q] = stack[q]
  BY StepOfOne DEF CheckReferences, At, Step
<1>2. /\ f \in Frames /\ op = "delete" /\ DeleteFrame(f, o, m)
      /\ f.inst \in Instances /\ f.key = Key(f.inst) /\ f.key \in Keys
  BY <1>1, TopSound, KeyTypes DEF ApplyFrame
<1>3. IF Remaining(m[f.key]) > 0 THEN Fail(p) ELSE Goto(p, [f EXCEPT !.step = "deleteMap"])
  <2>1. ~command[p].force
    BY DEF Setting, TypeOK
  <2> QED
    BY <2>1 DEF CheckReferences
<1>4. \A i, e \in Instances : /\ o[i] # "none" => Justified(p, i, e)
                              /\ ~Pending(op, f, i, e)
  BY <1>1, <1>2 DEF Justified, Pending
<1>5. command[p].recursive => \A h \in FramesOf(stack[p]) : \A d \in Done(h) :
         m[Key(d)] = {} => f.inst = d
  BY <1>2 DEF Tidy, Cleaned
<1>6. CASE Goto(p, [f EXCEPT !.step = "deleteMap"])
  <2>1. PICK g : g = [f EXCEPT !.step = "deleteMap"]
    OBVIOUS
  <2>2. g \in Frames /\ g.inst = f.inst /\ g.step = "deleteMap" /\ g.todo = f.todo
    BY <1>2, <2>1 DEF Frames, Steps
  <2>3. Goto(p, g)
    BY <1>6, <2>1
  <2>4. FramesOf(stack'[p]) = {g} \cup Below(stack[p]) /\ Top(p)' = g
    BY <1>1, <2>2, <2>3, GotoFrames
  <2>5. Accounted'
    BY <1>1, <1>4, <2>4, AccountedFrom DEF Tidy
  <2>6. Ready'
    BY <1>1, <1>2, <2>2, <2>4, ReadyFrom DEF Tidy
  <2>7. Cleaned'
    <3>1. Done(g) = Done(f)
      BY <1>1, <2>2 DEF Done
    <3>2. f \in FramesOf(stack[p]) /\ Below(stack[p]) \subseteq FramesOf(stack[p])
      BY <1>1, TopFrames
    <3> QED
      BY <1>1, <1>5, <2>2, <2>4, <3>1, <3>2, CleanedFrom
  <2> QED
    BY <2>5, <2>6, <2>7 DEF Tidy
<1>7. CASE Remaining(m[f.key]) > 0 /\ Fail(p)
  <2>1. m[f.key] # {}
    BY <1>7, FS_EmptySet DEF Remaining
  <2>2. command[p].recursive => \A h \in Below(stack[p]) : \A d \in Done(h) : m[Key(d)] # {}
    BY <1>1, <1>2, <1>5, <2>1, TopFrames
  <2>3. /\ FramesOf(stack'[p]) = Below(stack[p])
        /\ stack'[p] # <<>> => Top(p)'.step \in {"release", "failed"}
    <3>1. CASE stack' = [stack EXCEPT ![p] = Tail(@)]
      BY <1>1, <1>2, <3>1, PopFrames DEF Waiting
    <3>2. CASE stack'[p] = <<>> /\ Len(stack[p]) = 1
      <4>1. Below(stack[p]) = {}
        <5>1. DOMAIN stack[p] = 1..1
          BY <1>1, <3>2, TopFacts, LenProperties
        <5> QED
          BY <5>1 DEF Below
      <4> QED
        BY <3>2, <4>1 DEF FramesOf
    <3>3. \/ stack' = [stack EXCEPT ![p] = Tail(@)]
          \/ stack'[p] = <<>> /\ Len(stack[p]) = 1
      <4>1. PICK k \in Nat : Len(stack[p]) = k + 1
        BY <1>1, TopFacts DEF Behind
      <4>2. Len(stack[p]) > 1 \/ Len(stack[p]) = 1
        BY <4>1
      <4>3. stack' = [stack EXCEPT ![p] = Tail(@)] \/ stack' = [stack EXCEPT ![p] = <<>>]
        BY <1>7 DEF Fail
      <4>4. Len(stack[p]) > 1 => stack' = [stack EXCEPT ![p] = Tail(@)]
        BY <1>2, <1>7 DEF Fail
      <4> QED
        BY <4>2, <4>3, <4>4 DEF TypeOK
    <3> QED
      BY <3>1, <3>2, <3>3
  <2>4. Accounted'
    BY <1>1, <1>4, <2>3, AccountedFrom DEF Tidy
  <2>5. Ready'
    BY <1>1, <1>2, <2>3, ReadyFrom DEF Tidy
  <2>6. Cleaned'
    BY <1>1, <2>2, <2>3, CleanedFrom
  <2> QED
    BY <2>4, <2>5, <2>6 DEF Tidy
<1> QED
  BY <1>3, <1>6, <1>7

LEMMA DeleteMapTidy ==
    ASSUME Setting, TypeOK, Alone, Sound, Tidy, NEW p \in Procs, DeleteMap(p)
    PROVE  Tidy'
<1> PICK f, o, m, m2, op : /\ f = Top(p) /\ o = objects /\ m = configMaps /\ m2 = configMaps'
                           /\ op = command[p].op
  OBVIOUS
<1>1. /\ stack[p] # <<>> /\ f.step = "deleteMap" /\ objects' = o /\ command' = command
      /\ \A q \in Procs : q # p => stack'[q] = stack[q]
  BY StepOfOne DEF DeleteMap, At, Step
<1>2. /\ f \in Frames /\ op = "delete" /\ DeleteFrame(f, o, m)
      /\ f.inst \in Instances /\ f.key = Key(f.inst) /\ f.key \in Keys
  BY <1>1, TopSound, KeyTypes DEF ApplyFrame
<1>3. m2[f.key] = NoMap /\ \A k \in Keys \ {f.key} : m2[k] = m[k]
  BY <1>2 DEF DeleteMap, TypeOK
<1>4. PICK g : g = [f EXCEPT !.step = "deleteObjects"] /\ Goto(p, g)
  BY DEF DeleteMap
<1>5. g \in Frames /\ g.inst = f.inst /\ g.step = "deleteObjects" /\ g.todo = f.todo
  BY <1>2, <1>4 DEF Frames, Steps
<1>6. FramesOf(stack'[p]) = {g} \cup Below(stack[p]) /\ Top(p)' = g
  BY <1>1, <1>4, <1>5, GotoFrames
<1>7. Accounted'
  <2>1. \A i, e \in Instances : Refers(i, e, m2) => Refers(i, e, m)
    BY <1>3, KeyTypes DEF Refers
  <2>2. \A i, e \in Instances : /\ o[i] # "none" => Justified(p, i, e)
                                /\ ~Pending(op, f, i, e)
    BY <1>1, <1>2 DEF Justified, Pending
  <2> QED
    BY <1>1, <1>6, <2>1, <2>2, AccountedFrom DEF Tidy
<1>8. Ready'
  BY <1>1, <1>2, <1>5, <1>6, ReadyFrom DEF Tidy
<1>9. Cleaned'
  <2>1. Done(g) = {}
    BY <1>1, <1>2, <1>5 DEF Done, DeleteFrame
  <2>2. ASSUME command[p].recursive, NEW h \in Below(stack[p]), NEW d \in Done(h)
        PROVE  m2[Key(d)] # {}
    <3>1. m[Key(d)] = {} => f.inst = d
      BY <1>1, <1>2, <2>2, TopFrames DEF Tidy, Cleaned
    <3>2. {} # NoMap
      BY NothingAssumption
    <3>3. CASE d = f.inst
      BY <1>2, <1>3, <3>2, <3>3
    <3>4. CASE d # f.inst
      <4>1. d \in Instances
        BY <1>1, <2>2, TopFrames, BelowTypes
      <4>2. Key(d) \in Keys /\ Key(d) # f.key
        BY <1>2, <3>4, <4>1, KeyTypes, KeysTellApart
      <4> QED
        BY <1>3, <3>1, <3>4, <4>2
    <3> QED
      BY <3>3, <3>4
  <2> QED
    BY <1>1, <1>6, <2>1, <2>2, CleanedFrom
<1> QED
  BY <1>7, <1>8, <1>9 DEF Tidy

LEMMA DeleteObjectsTidy ==
    ASSUME Setting, TypeOK, Alone, Sound, Tidy, NEW p \in Procs, DeleteObjects(p)
    PROVE  Tidy'
<1> PICK f, o, m, o2, op : /\ f = Top(p) /\ o = objects /\ m = configMaps /\ o2 = objects'
                           /\ op = command[p].op
  OBVIOUS
<1>1. /\ stack[p] # <<>> /\ f.step = "deleteObjects" /\ configMaps' = m /\ command' = command
      /\ \A q \in Procs : q # p => stack'[q] = stack[q]
  BY StepOfOne DEF DeleteObjects, At, Step
<1>2. /\ f \in Frames /\ op = "delete" /\ DeleteFrame(f, o, m)
      /\ f.inst \in Instances /\ f.key = Key(f.inst) /\ f.key \in Keys
  BY <1>1, TopSound, KeyTypes DEF ApplyFrame
<1>3. \A i \in Instances \ {f.inst} : o2[i] = o[i]
  BY <1>2 DEF DeleteObjects, TypeOK
<1>4. PICK g : g = [f EXCEPT !.step = "release"] /\ Goto(p, g)
  BY DEF DeleteObjects
<1>5. g \in Frames /\ g.inst = f.inst /\ g.step = "release" /\ g.todo = f.todo
  BY <1>2, <1>4 DEF Frames, Steps
<1>6. FramesOf(stack'[p]) = {g} \cup Below(stack[p]) /\ Top(p)' = g
  BY <1>1, <1>4, <1>5, GotoFrames
<1>7. Done(g) = {}
  BY <1>1, <1>2, <1>5 DEF Done, DeleteFrame
<1>8. Accounted'
  <2>1. \A i, e \in Instances : f.inst = i => Justified(p, i, e)
    BY <1>2, <1>5, <1>6, <1>7 DEF Justified, Pending
  <2> QED
    BY <1>1, <1>3, <1>6, <2>1, AccountedFrom DEF Tidy
<1>9. Ready'
  BY <1>1, <1>2, <1>5, <1>6, ReadyFrom DEF Tidy
<1>10. Cleaned'
  <2>1. command[p].recursive => \A h \in Below(stack[p]) : \A d \in Done(h) : m[Key(d)] # {}
    BY <1>1, <1>2, TopFrames DEF Tidy, Cleaned
  <2> QED
    BY <1>1, <1>6, <1>7, <2>1, CleanedFrom
<1> QED
  BY <1>8, <1>9, <1>10 DEF Tidy

LEMMA ReleaseDependencyTidy ==
    ASSUME Setting, TypeOK, Alone, Sound, Tidy, NEW p \in Procs, ReleaseDependency(p)
    PROVE  Tidy'
<1> PICK f, o, m, op : f = Top(p) /\ o = objects /\ m = configMaps /\ op = command[p].op
  OBVIOUS
<1>1. /\ stack[p] # <<>> /\ f.step = "release"
      /\ objects' = o /\ configMaps' = m /\ command' = command
      /\ \A q \in Procs : q # p => stack'[q] = stack[q]
  BY StepOfOne DEF ReleaseDependency, At, Step
<1>2. f \in Frames /\ op = "delete" /\ f.inst \in Instances /\ f.todo \subseteq Instances
  BY <1>1, TopSound DEF ApplyFrame
<1>3. PICK d \in f.todo :
         Goto(p, [f EXCEPT !.todo = @ \ {d}, !.dep = d,
                     !.step = IF m[Key(d)] = NoMap THEN "release" ELSE "removeUsedBy"])
  BY DEF ReleaseDependency
<1>4. PICK step : step = IF m[Key(d)] = NoMap THEN "release" ELSE "removeUsedBy"
  OBVIOUS
<1>5. PICK g : g = [f EXCEPT !.todo = @ \ {d}, !.dep = d, !.step = step] /\ Goto(p, g)
  BY <1>3, <1>4
<1>6. /\ g \in Frames /\ g.inst = f.inst /\ g.step = step /\ g.todo = f.todo \ {d} /\ g.dep = d
      /\ step \in {"release", "removeUsedBy"} /\ d \in Instances
  BY <1>2, <1>4, <1>5 DEF Frames, Steps
<1>7. FramesOf(stack'[p]) = {g} \cup Below(stack[p]) /\ Top(p)' = g
  <2>1. g \in Frames /\ Goto(p, g)
    BY <1>5, <1>6
  <2> QED
    BY <1>1, <2>1, GotoFrames
<1>8. Done(g) \subseteq Done(f) \cup {d} /\ (d \in Done(g) => m[Key(d)] = NoMap)
  BY <1>1, <1>4, <1>6 DEF Done
<1>9. Accounted'
  <2>1. ASSUME NEW i \in Instances, NEW e \in Instances, Refers(i, e, m), e \in DependsOn[i],
               o[i] # "none" \/ Pending(op, f, i, e)
        PROVE  Justified(p, i, e)
    <3>1. CASE o[i] # "none"
      BY <1>1, <3>1 DEF Justified
    <3>2. CASE Pending(op, f, i, e)
      <4>1. f.inst = i /\ e \notin Done(f)
        BY <1>2, <3>2 DEF Pending
      <4>2. e \notin Done(g)
        BY <1>8, <2>1, <4>1 DEF Refers
      <4>3. Pending(op, g, i, e)
        BY <1>2, <1>6, <4>1, <4>2 DEF Pending
      <4> QED
        BY <1>7, <4>3 DEF Justified
    <3> QED
      BY <2>1, <3>1, <3>2
  <2> QED
    BY <1>1, <1>7, <2>1, AccountedFrom DEF Tidy
<1>10. Ready'
  BY <1>1, <1>2, <1>6, <1>7, ReadyFrom DEF Tidy
<1>11. Cleaned'
  <2>1. command[p].recursive => \A h \in FramesOf(stack[p]) : \A e \in Done(h) : m[Key(e)] # {}
    BY <1>1, <1>2 DEF Tidy, Cleaned
  <2>2. f \in FramesOf(stack[p]) /\ Below(stack[p]) \subseteq FramesOf(stack[p])
    BY <1>1, TopFrames
  <2>3. {} # NoMap
    BY NothingAssumption
  <2>4. command[p].recursive => \A h \in FramesOf(stack'[p]) : \A e \in Done(h) : m[Key(e)] # {}
    BY <1>7, <1>8, <2>1, <2>2, <2>3
  <2> QED
    BY <1>1, <2>4, CleanedFrom
<1> QED
  BY <1>9, <1>10, <1>11 DEF Tidy

LEMMA RemoveUsedByTidy ==
    ASSUME Setting, TypeOK, Alone, Sound, Tidy, NEW p \in Procs, RemoveUsedBy(p)
    PROVE  Tidy'
<1> PICK f, o, m, m2, op : /\ f = Top(p) /\ o = objects /\ m = configMaps /\ m2 = configMaps'
                           /\ op = command[p].op
  OBVIOUS
<1>1. /\ stack[p] # <<>> /\ f.step = "removeUsedBy" /\ objects' = o /\ command' = command
      /\ \A q \in Procs : q # p => stack'[q] = stack[q]
  BY StepOfOne DEF RemoveUsedBy, At, Step
<1>2. f \in Frames /\ op = "delete" /\ f.inst \in Instances /\ f.dep \in Instances
  BY <1>1, TopSound, FrameUpdates DEF ApplyFrame
<1> PICK k : k = ListedKey(f.dep)
  OBVIOUS
<1> DEFINE missing == m[k] = NoMap \/ UsedBy(f.inst) \notin m[k]
           left == IF missing THEN 0 ELSE Cardinality(m[k] \ {UsedBy(f.inst)})
<1>3. /\ k = Key(f.dep) /\ k \in Keys
      /\ m2 = IF missing THEN m ELSE [m EXCEPT ![k] = @ \ {UsedBy(f.inst)}]
      /\ IF command[p].recursive /\ left = 0
         THEN Call(p, [f EXCEPT !.step = "release"], Frame(f.dep, k, "check"))
         ELSE Goto(p, [f EXCEPT !.step = "release"])
  BY <1>2, KeyTypes, KeysTellApart DEF RemoveUsedBy
<1>4. /\ \A j \in Keys \ {k} : m2[j] = m[j]
      /\ missing => m2 = m
      /\ ~missing => m2[k] = m[k] \ {UsedBy(f.inst)}
  BY <1>3 DEF TypeOK
<1>5. PICK g, h : g = [f EXCEPT !.step = "release"] /\ h = Frame(f.dep, k, "check")
  OBVIOUS
<1>6. /\ g \in Frames /\ g.inst = f.inst /\ g.step = "release" /\ g.todo = f.todo
      /\ h \in Frames /\ h.inst = f.dep /\ h.step = "check" /\ h.todo = DependsOn[f.dep]
  <2>1. g \in Frames /\ g.inst = f.inst /\ g.step = "release" /\ g.todo = f.todo
    BY <1>2, <1>5 DEF Frames, Steps
  <2>2. h \in Frames /\ h.inst = f.dep /\ h.step = "check" /\ h.todo = DependsOn[f.dep]
    BY <1>2, <1>3, <1>5, KeyTypes DEF Frame, Steps
  <2> QED
    BY <2>1, <2>2
<1>7. IF command[p].recursive /\ left = 0 THEN Call(p, g, h) ELSE Goto(p, g)
  BY <1>3, <1>5
<1>8. \/ /\ FramesOf(stack'[p]) = {h, g} \cup Below(stack[p]) /\ Top(p)' = h
      \/ /\ FramesOf(stack'[p]) = {g} \cup Below(stack[p]) /\ Top(p)' = g
         /\ ~(command[p].recursive /\ left = 0)
  <2>1. CASE command[p].recursive /\ left = 0
    <3>1. Call(p, g, h)
      BY <1>7, <2>1
    <3> QED
      BY <1>1, <1>6, <3>1, CallFrames
  <2>2. CASE ~(command[p].recursive /\ left = 0)
    <3>1. Goto(p, g)
      BY <1>7, <2>2
    <3> QED
      BY <1>1, <1>6, <2>2, <3>1, GotoFrames
  <2> QED
    BY <2>1, <2>2
<1>9. Done(g) \subseteq Done(f) \cup {f.dep} /\ Done(h) = {}
  BY <1>1, <1>6 DEF Done
<1>10. Accounted'
  <2>1. ASSUME NEW i \in Instances, NEW e \in Instances, Refers(i, e, m2)
        PROVE  Refers(i, e, m) /\ ~(i = f.inst /\ e = f.dep)
    <3>1. CASE Key(e) # k
      BY <1>3, <1>4, <2>1, <3>1, KeyTypes DEF Refers
    <3>2. CASE Key(e) = k
      BY <1>3, <1>4, <2>1, <3>2 DEF Refers
    <3> QED
      BY <3>1, <3>2
  <2>2. ASSUME NEW i \in Instances, NEW e \in Instances, Refers(i, e, m2), e \in DependsOn[i],
               o[i] # "none" \/ Pending(op, f, i, e)
        PROVE  Justified(p, i, e)
    <3>1. CASE o[i] # "none"
      BY <1>1, <3>1 DEF Justified
    <3>2. CASE Pending(op, f, i, e)
      <4>1. f.inst = i /\ e \notin Done(f)
        BY <1>2, <3>2 DEF Pending
      <4>2. e \notin Done(g)
        BY <1>9, <2>1, <2>2, <4>1
      <4>3. Pending(op, g, i, e)
        BY <1>2, <1>6, <4>1, <4>2 DEF Pending
      <4> QED
        BY <1>8, <4>3 DEF Justified
    <3> QED
      BY <2>2, <3>1, <3>2
  <2>3. Below(stack[p]) \subseteq FramesOf(stack'[p])
    BY <1>8
  <2> QED
    BY <1>1, <2>1, <2>2, <2>3, AccountedFrom DEF Tidy
<1>11. Ready'
  BY <1>1, <1>2, <1>6, <1>8, ReadyFrom DEF Tidy
<1>12. Cleaned'
  <2> SUFFICES ASSUME command[p].recursive, NEW s \in FramesOf(stack'[p]), NEW d \in Done(s),
                      m2[Key(d)] = {}
               PROVE  Top(p)' = h /\ h.inst = d
    BY <1>1, <1>6, CleanedFrom
  <2>1. \A t \in FramesOf(stack[p]) : \A e \in Done(t) : m[Key(e)] # {} /\ e \in Instances
    BY <1>1, <1>2, BelowTypes DEF Tidy, Cleaned
  <2>2. f \in FramesOf(stack[p]) /\ Below(stack[p]) \subseteq FramesOf(stack[p])
    BY <1>1, TopFrames
  <2>3. d \in Instances /\ (m[Key(d)] # {} \/ d = f.dep)
    BY <1>2, <1>8, <1>9, <2>1, <2>2
  <2>4. Key(d) = k
    BY <1>3, <1>4, <2>3, KeyTypes
  <2>5. d = f.dep
    BY <1>2, <1>3, <2>3, <2>4, KeysTellApart
  <2>6. left = 0
    <3>1. CASE missing
      BY <1>3, <3>1
    <3>2. CASE ~missing
      BY <1>3, <1>4, <2>4, <3>2, FS_EmptySet
    <3> QED
      BY <3>1, <3>2
  <2> QED
    BY <1>6, <1>8, <2>5, <2>6
<1> QED
  BY <1>10, <1>11, <1>12 DEF Tidy

LEMMA DependenciesReleasedTidy ==
    ASSUME Setting, TypeOK, Alone, Sound, Tidy, NEW p \in Procs, DependenciesReleased(p)
    PROVE  Tidy'
<1> PICK f, o, m, op : f = Top(p) /\ o = objects /\ m = configMaps /\ op = command[p].op
  OBVIOUS
<1>1. /\ stack[p] # <<>> /\ f.step = "release" /\ f.todo = {}
      /\ objects' = o /\ configMaps' = m /\ command' = command
      /\ stack' = [stack EXCEPT ![p] = Tail(@)]
      /\ \A q \in Procs : q # p => stack'[q] = stack[q]
  BY StepOfOne DEF DependenciesReleased, At, Step, Return
<1>2. f \in Frames /\ op = "delete"
  BY <1>1, TopSound DEF ApplyFrame
<1>3. /\ FramesOf(stack'[p]) = Below(stack[p])
      /\ stack'[p] # <<>> => Top(p)'.step \in {"release", "failed"}
  BY <1>1, <1>2, PopFrames DEF Waiting
<1>4. Accounted'
  <2>1. \A i, e \in Instances : /\ o[i] # "none" => Justified(p, i, e)
                                /\ e \in DependsOn[i] => ~Pending(op, f, i, e)
    BY <1>1, <1>2 DEF Justified, Pending, Done
  <2> QED
    BY <1>1, <1>3, <2>1, AccountedFrom DEF Tidy
<1>5. Ready'
  BY <1>1, <1>2, <1>3, ReadyFrom DEF Tidy
<1>6. Cleaned'
  <2>1. command[p].recursive => \A h \in Below(stack[p]) : \A d \in Done(h) : m[Key(d)] # {}
    BY <1>1, <1>2, TopFrames DEF Tidy, Cleaned
  <2> QED
    BY <1>1, <1>3, <2>1, CleanedFrom
<1> QED
  BY <1>4, <1>5, <1>6 DEF Tidy

LEMMA StartTidy ==
    ASSUME Setting, TypeOK, Alone, Sound, Tidy, NEW p \in Procs, Start(p)
    PROVE  Tidy'
<1>1. PICK c \in Commands, i \in Instances :
         /\ command'[p] = c
         /\ stack'[p] = <<Frame(i, Key(i), IF c.op = "apply" THEN "dependencies" ELSE "check")>>
         /\ DOMAIN stack'[p] = {1}
         /\ \A q \in Procs : q # p => stack'[q] = stack[q] /\ command'[q] = command[q]
  BY StartTypes
<1>2. objects' = objects /\ configMaps' = configMaps /\ stack[p] = <<>>
  BY DEF Start
<1>3. PICK f : /\ f = Frame(i, Key(i), IF c.op = "apply" THEN "dependencies" ELSE "check")
               /\ stack'[p] = <<f>>
  BY <1>1
<1>4. /\ f.todo = DependsOn[i] /\ f.inst = i
      /\ f.step = IF c.op = "apply" THEN "dependencies" ELSE "check"
  BY <1>3 DEF Frame
<1>5. FramesOf(stack'[p]) = {f} /\ Top(p)' = f
  <2>1. f \in Frames
    BY <1>3, KeyTypes DEF Steps
  <2>2. <<f>>[1] = f /\ Head(<<f>>) = f
    OBVIOUS
  <2> QED
    BY <1>1, <1>3, <2>2 DEF FramesOf, Top
<1>6. Accounted'
  <2> SUFFICES ASSUME NEW j \in Instances, NEW d \in Instances, Refers(j, d, configMaps)
               PROVE  /\ d \in DependsOn[j]
                      /\ \/ objects[j] # "none"
                         \/ \E q \in Procs : \E g \in FramesOf(stack'[q]) :
                               Pending(command'[q].op, g, j, d)
    BY <1>2 DEF Accounted, Refers
  <2>1. \A q \in Procs : \A g \in FramesOf(stack[q]) : q # p
    BY <1>2 DEF FramesOf
  <2> QED
    BY <1>1, <2>1 DEF Tidy, Accounted
<1>7. Ready'
  <2> SUFFICES ASSUME NEW q \in Procs, stack'[q] # <<>>, Top(q)'.step = "addUsedByNew"
               PROVE  configMaps[Key(Top(q)'.dep)] # NoMap
    BY <1>2 DEF Ready, Top
  <2>1. q # p
    BY <1>4, <1>5
  <2> QED
    BY <1>1, <2>1 DEF Tidy, Ready, Top
<1>8. Cleaned'
  <2> SUFFICES ASSUME NEW q \in Procs, command'[q].op = "delete", command'[q].recursive,
                      NEW g \in FramesOf(stack'[q]), NEW d \in Done(g), configMaps[Key(d)] = {}
               PROVE  Top(q)'.inst = d /\ Top(q)'.step \in {"check", "deleteMap"}
    BY <1>2 DEF Cleaned
  <2>1. q # p
    BY <1>4, <1>5 DEF Done
  <2> QED
    BY <1>1, <2>1 DEF Tidy, Cleaned, Top
<1> QED
  BY <1>6, <1>7, <1>8 DEF Tidy

\* A step in which nothing fails leaves no frame at the removal that failed.
LEMMA StepUnfailed ==
    ASSUME TypeOK, Sound, Unfailed, NEW p \in Procs, Step(p),
           ~ApplyObjectsFails(p), ~DeleteObjectsFails(p), ~RemoveUsedByFails(p)
    PROVE  Unfailed' /\ ~ReleaseFailed(p)
<1> PICK f : f = Top(p)
  OBVIOUS
<1>1. stack[p] # <<>> /\ \A q \in Procs : q # p => stack'[q] = stack[q]
  BY StepOfOne
<1>2. f \in Frames /\ f.step # "failed" /\ f.inst \in Instances /\ f.dep \in Instances
  BY <1>1, TopSound, TopFrames, FrameUpdates DEF Unfailed
<1>3. \A h \in Below(stack[p]) : h.step # "failed"
  BY <1>1, TopFrames DEF Unfailed
<1>4. ~ReleaseFailed(p)
  BY <1>2 DEF ReleaseFailed, At
<1> DEFINE Fine(g) == g \in Frames /\ g.step # "failed"
<1>5. \/ \E g : Fine(g) /\ Goto(p, g)
      \/ \E g, h : Fine(g) /\ Fine(h) /\ Call(p, g, h)
      \/ stack' = [stack EXCEPT ![p] = Tail(@)]
      \/ stack'[p] = <<>>
  <2>1. \A step \in Steps \ {"failed"} : Fine([f EXCEPT !.step = step])
    BY <1>2 DEF Frames
  <2>2. \A step \in Steps \ {"failed"}, d \in Instances :
           Fine([f EXCEPT !.todo = f.todo \ {d}, !.dep = d, !.step = step])
    BY <1>2 DEF Frames
  <2>3. \A i \in Instances, k \in Keys, step \in Steps \ {"failed"} : Fine(Frame(i, k, step))
    BY KeyTypes DEF Frame
  <2>4. \A found \in BOOLEAN : Fine([f EXCEPT !.step = "putMap", !.found = found])
    BY <1>2 DEF Frames, Steps
  <2>5. CASE ApplyDependency(p)
    <3>1. PICK d \in f.todo :
             \/ Goto(p, [f EXCEPT !.todo = f.todo \ {d}, !.dep = d, !.step = "addUsedBy"])
             \/ Call(p, [f EXCEPT !.todo = f.todo \ {d}, !.dep = d, !.step = "addUsedByNew"],
                     Frame(d, Key(d), "dependencies"))
      BY <2>5 DEF ApplyDependency
    <3>2. d \in Instances /\ Key(d) \in Keys
      BY <1>2, KeyTypes, FrameUpdates
    <3> QED
      BY <2>2, <2>3, <3>1, <3>2 DEF Steps
  <2>6. CASE ReleaseDependency(p)
    <3>1. PICK d \in f.todo, step \in {"release", "removeUsedBy"} :
             Goto(p, [f EXCEPT !.todo = f.todo \ {d}, !.dep = d, !.step = step])
      BY <2>6 DEF ReleaseDependency
    <3>2. d \in Instances
      BY <1>2, FrameUpdates
    <3> QED
      BY <2>2, <3>1, <3>2 DEF Steps
  <2>7. CASE RemoveUsedBy(p)
    <3>1. \/ Goto(p, [f EXCEPT !.step = "release"])
          \/ Call(p, [f EXCEPT !.step = "release"], Frame(f.dep, ListedKey(f.dep), "check"))
      BY <2>7 DEF RemoveUsedBy
    <3> QED
      BY <1>2, <2>1, <2>3, <3>1, KeyTypes DEF Steps
  <2>8. CASE GetMap(p)
    BY <2>4, <2>8 DEF GetMap
  <2>9. CASE AddUsedBy(p)
    <3>1. Goto(p, [f EXCEPT !.step = "dependencies"]) \/ Fail(p)
      BY <2>9 DEF AddUsedBy
    <3> QED
      BY <1>1, <2>1, <3>1, FailFacts DEF Steps
  <2>10. CASE DependenciesApplied(p) \/ ApplyObjects(p) \/ DeleteMap(p) \/ DeleteObjects(p)
    <3>1. \E step \in {"applyObjects", "getMap", "deleteObjects", "release"} :
             Goto(p, [f EXCEPT !.step = step])
      BY <2>10 DEF DependenciesApplied, ApplyObjects, DeleteMap, DeleteObjects
    <3> QED
      BY <2>1, <3>1 DEF Steps
  <2>11. CASE CheckReferences(p)
    <3>1. Goto(p, [f EXCEPT !.step = "deleteMap"]) \/ Fail(p)
      BY <2>11 DEF CheckReferences
    <3> QED
      BY <1>1, <2>1, <3>1, FailFacts DEF Steps
  <2>12. CASE PutMap(p) \/ DependenciesReleased(p)
    BY <2>12 DEF PutMap, DependenciesReleased, Return
  <2> QED
    BY <1>4, <2>5, <2>6, <2>7, <2>8, <2>9, <2>10, <2>11, <2>12 DEF Step
<1>6. \A g \in FramesOf(stack'[p]) : g.step # "failed"
  <2>1. ASSUME NEW g, Fine(g), Goto(p, g)
        PROVE  \A h \in FramesOf(stack'[p]) : h.step # "failed"
    BY <1>1, <1>3, <2>1, GotoFrames
  <2>2. ASSUME NEW g, NEW h, Fine(g), Fine(h), Call(p, g, h)
        PROVE  \A i \in FramesOf(stack'[p]) : i.step # "failed"
    BY <1>1, <1>3, <2>2, CallFrames
  <2>3. CASE stack' = [stack EXCEPT ![p] = Tail(@)]
    BY <1>1, <1>3, <2>3, PopFrames
  <2>4. CASE stack'[p] = <<>>
    BY <2>4 DEF FramesOf
  <2> QED
    BY <1>5, <2>1, <2>2, <2>3, <2>4
<1> QED
  BY <1>1, <1>4, <1>6 DEF Unfailed

LEMMA StartUnfailed ==
    ASSUME TypeOK, Unfailed, NEW p \in Procs, Start(p)
    PROVE  Unfailed'
<1>1. PICK c \in Commands, i \in Instances :
         /\ stack'[p] = <<Frame(i, Key(i), IF c.op = "apply" THEN "dependencies" ELSE "check")>>
         /\ DOMAIN stack'[p] = {1}
         /\ \A q \in Procs : q # p => stack'[q] = stack[q]
  BY StartTypes
<1> QED
  BY <1>1 DEF Unfailed, FramesOf, Frame

LEMMA TidyKept ==
    ASSUME Setting
    PROVE  /\ TypeOK /\ Alone /\ Sound /\ (faults = 0 => Tidy /\ Unfailed) /\ [Next]_vars
           => (faults' = 0 => Tidy' /\ Unfailed')
<1> SUFFICES ASSUME TypeOK, Alone, Sound, faults = 0 => Tidy /\ Unfailed, [Next]_vars,
                    faults' = 0
             PROVE  Tidy' /\ Unfailed'
  OBVIOUS
<1>1. CASE UNCHANGED vars
  <2>1. Tidy /\ Unfailed
    BY <1>1 DEF vars
  <2> QED
    BY <1>1, <2>1 DEF vars, Tidy, Unfailed, Accounted, Ready, Cleaned, Top
<1>2. ASSUME NEW p \in Procs, Start(p)
      PROVE  Tidy' /\ Unfailed'
  BY <1>2, StartTidy, StartUnfailed DEF Start
<1>3. ASSUME NEW p \in Procs, Killed(p)
      PROVE  FALSE
  <2>1. faults \in Nat /\ faults' = faults + 1
    BY <1>3, BoundsAssumption DEF Killed, TypeOK
  <2> QED
    BY <2>1
<1>4. ASSUME NEW p \in Procs, Step(p)
      PROVE  Tidy' /\ Unfailed'
  <2>1. faults = 0
    <3>1. faults \in Nat
      BY BoundsAssumption DEF TypeOK
    <3>2. faults' = faults \/ faults' = faults + 1
      BY <1>4 DEF Step, ApplyDependency, AddUsedBy, DependenciesApplied, ApplyObjects,
             ApplyObjectsFails, GetMap, PutMap, CheckReferences, DeleteMap, DeleteObjects,
             DeleteObjectsFails, ReleaseDependency, RemoveUsedBy, DependenciesReleased,
         RemoveUsedByFails, ReleaseFailed
    <3> QED
      BY <3>1, <3>2
  <2>2. ~ApplyObjectsFails(p) /\ ~DeleteObjectsFails(p) /\ ~RemoveUsedByFails(p)
    BY <2>1 DEF ApplyObjectsFails, DeleteObjectsFails, RemoveUsedByFails
  <2>3. Unfailed' /\ ~ReleaseFailed(p)
    BY <1>4, <2>1, <2>2, StepUnfailed
  <2> QED
    BY <1>4, <2>1, <2>2, <2>3, ApplyDependencyTidy, AddUsedByTidy, ApplyGoesOnTidy, PutMapTidy,
       CheckReferencesTidy, DeleteMapTidy, DeleteObjectsTidy, ReleaseDependencyTidy,
       RemoveUsedByTidy, DependenciesReleasedTidy DEF Step
<1> QED
  BY <1>1, <1>2, <1>3, <1>4 DEF Next

LEMMA InitTidy == Init => Tidy /\ Unfailed
BY KeyTypes DEF Init, Tidy, Unfailed, Accounted, Ready, Cleaned, Refers, FramesOf

LEMMA AlwaysTidy ==
    ASSUME Setting
    PROVE  Spec => []IInv
<1>1. Init => IInv
  BY InitTypes, InitSound, InitTidy DEF IInv
<1>2. IInv /\ [Next]_vars => IInv'
  BY TypesKept, SoundKept, TidyKept DEF IInv
<1> QED
  BY <1>1, <1>2, PTL DEF Spec

\* As long as no call fails and nothing is killed, every reference in a config map is one of
\* a chart that is installed, so that a chart nobody uses can be deleted (addUsedBy,
\* removeUsedBy and remainingReferences).
THEOREM ReferencesGoWithTheirUsers ==
    ASSUME Setting
    PROVE  Spec => []NoDanglingReferences
<1>1. IInv => NoDanglingReferences
  <2> SUFFICES ASSUME IInv, Idle, faults = 0, NEW k \in Keys, configMaps[k] # NoMap,
                      NEW r \in configMaps[k]
               PROVE  \E i \in Instances : UsedBy(i) = r /\ objects[i] # "none"
    BY DEF NoDanglingReferences
  <2>1. PICK d \in Instances : k = Key(d)
    BY KeysTellApart DEF Keys
  <2>2. PICK i \in Instances : r = UsedBy(i)
    BY DEF IInv, TypeOK, References
  <2>3. \A p \in Procs : FramesOf(stack[p]) = {}
    BY DEF Idle, FramesOf
  <2> QED
    BY <2>1, <2>2, <2>3 DEF IInv, Tidy, Accounted, Refers
<1> QED
  BY <1>1, AlwaysTidy, PTL

\* A recursive delete that ends without an error, with no fault so far, leaves no dependency
\* behind that nobody uses (dependency.Delete deletes at zero references).
THEOREM NothingUnusedIsLeft ==
    ASSUME Setting
    PROVE  Spec => RecursiveDeleteCleans
<1>1. ASSUME IInv, [Next]_vars, NEW p \in Procs, At(p, "release"), Len(stack[p]) = 1,
             stack'[p] = <<>>, result'[p] = "ok", command[p].recursive, faults = 0,
             NEW d \in DependsOn[Top(p).inst]
      PROVE  configMaps[Key(d)] # {}
  <2>1. stack[p] # <<>> /\ Top(p).step = "release" /\ TypeOK /\ Alone /\ Sound /\ Tidy
    BY <1>1 DEF At, IInv
  <2>2. command[p].op = "delete" /\ Top(p) \in Frames
    BY <2>1, TopSound DEF ApplyFrame
  <2>3. DependenciesReleased(p)
    <3>1. ASSUME NEW q \in Procs, Step(q), q # p
          PROVE  FALSE
      BY <1>1, <2>1, <3>1, StepOfOne
    <3>2. ASSUME NEW q \in Procs, Start(q) \/ Killed(q)
          PROVE  FALSE
      BY <1>1, <2>1, <3>2 DEF Start, Killed, TypeOK
    <3>3. ~UNCHANGED vars
      BY <1>1, <2>1 DEF vars
    <3>4. Step(p)
      BY <1>1, <3>1, <3>2, <3>3 DEF Next
    <3>5. ~ReleaseDependency(p)
      <4>1. ASSUME ReleaseDependency(p)
            PROVE  FALSE
        <5>1. PICK e \in Top(p).todo, step \in {"release", "removeUsedBy"} :
                 Goto(p, [Top(p) EXCEPT !.todo = Top(p).todo \ {e}, !.dep = e, !.step = step])
          BY <4>1 DEF ReleaseDependency
        <5>2. PICK g : /\ g = [Top(p) EXCEPT !.todo = Top(p).todo \ {e}, !.dep = e, !.step = step]
                       /\ Goto(p, g)
          BY <5>1
        <5>3. g \in Frames
          BY <2>2, <5>2, FrameUpdates DEF Steps
        <5>4. stack'[p] # <<>>
          BY <2>1, <5>2, <5>3, GotoFacts
        <5> QED
          BY <1>1, <5>4
      <4> QED
        BY <4>1
    <3> QED
      BY <2>1, <3>4, <3>5 DEF Step, At, ApplyDependency, AddUsedBy, DependenciesApplied,
             ApplyObjects, ApplyObjectsFails, GetMap, PutMap, CheckReferences, DeleteMap,
             DeleteObjects, DeleteObjectsFails, RemoveUsedBy, RemoveUsedByFails, ReleaseFailed
  <2>4. d \in Done(Top(p))
    BY <2>1, <2>3 DEF DependenciesReleased, Done
  <2>5. Top(p) \in FramesOf(stack[p])
    BY <2>1, TopFrames
  <2> QED
    BY <1>1, <2>1, <2>2, <2>4, <2>5 DEF Tidy, Cleaned
<1>2. IInv /\ [Next]_vars =>
         [\A p \in Procs :
            /\ At(p, "release")
            /\ Len(stack[p]) = 1
            /\ stack'[p] = <<>>
            /\ result'[p] = "ok"
            /\ command[p].recursive
            /\ faults = 0
            => \A d \in DependsOn[Top(p).inst] :
                  configMaps[Key(d)] = NoMap \/ configMaps[Key(d)] # {}]_vars
  BY <1>1
<1> QED
  BY <1>2, AlwaysTidy, PTL DEF Spec, RecursiveDeleteCleans
=============================================================================
