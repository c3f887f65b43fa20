---------------------------- MODULE InstallProofs ----------------------------
(***************************************************************************)
(* Proofs about Install, for any tree of charts, whatever their templates  *)
(* render to, and any number of commands and of failures: a chart that is  *)
(* recorded is there as a whole, and objects come and go in their order.   *)
(***************************************************************************)
EXTENDS Install, SequenceTheorems, TLAPS

\* Where each call of the stack is: a call that waits for a sub chart is at "subs", and its
\* sub charts are ticked off one by one.
Frames ==
    \A n \in DOMAIN stack :
        /\ stack[n].subs \subseteq Subs[stack[n].chart]
        /\ n < Len(stack) => stack[n].at = "subs"
        /\ stack[n].at \in {"render", "kubectl", "record"} => stack[n].subs = {}
        /\ stack[n].at = "unrecord" => command = "delete"
        /\ stack[n].at = "record" => command = "apply"
        /\ command # "none"

\* What an object of the chart that runs has come to, once kubectl has seen it.
Treated(o) == o \in refused \/ (o \in cluster <=> command = "apply")

\* Nothing of the chart that runs is lost between its templates and kubectl.
Complete ==
    /\ At("render") =>
          /\ \A n \in DOMAIN docs : docs[n] \in Docs(Top.chart)
          /\ \A n \in DOMAIN objs : objs[n] \in Objects(Top.chart)
          /\ \A d \in Docs(Top.chart) \ {Blank} :
                \/ \E n \in DOMAIN docs : docs[n] = d
                \/ \E n \in DOMAIN objs : objs[n] = <<Top.chart, d>>
    /\ At("kubectl") =>
          /\ \A n \in DOMAIN objs : objs[n] \in Objects(Top.chart)
          /\ \A o \in Objects(Top.chart) : (\E n \in DOMAIN objs : objs[n] = o) \/ Treated(o)

\* kubectl is given the objects in the order of the command.
Ordered ==
    At("kubectl") =>
        \A m, n \in DOMAIN objs : m < n =>
            IF command = "delete" THEN ~Before(objs[m], objs[n]) ELSE ~Before(objs[n], objs[m])

\* A chart is there as a whole, with the charts below it.
Whole(c) == \A d \in Tree(c) : Objects(d) \subseteq cluster

\* The sub charts an apply has ticked off are there, but for the one it is in.
SubsApplied ==
    command = "apply" =>
        /\ \A n \in DOMAIN stack : \A d \in Subs[stack[n].chart] \ stack[n].subs :
              Whole(d) \/ (n < Len(stack) /\ d = stack[n + 1].chart)
        /\ At("record") => Objects(Top.chart) \subseteq cluster

\* A delete takes the record of a chart away before it touches its objects.
Unrecorded ==
    command = "delete" =>
        \A n \in DOMAIN stack :
            stack[n].at \notin {"begin", "unrecord"} => stack[n].chart \notin record

\* What a user relies on when kdo apply ends without an error.
AppliedIsThere == command = "apply" /\ result = "ok" => Whole(Root)

IInv == /\ TypeOK /\ Frames /\ Complete /\ Ordered /\ SubsApplied /\ Unrecorded
        /\ RecordHonest /\ AppliedIsThere /\ PrerequisitesFirst


-----------------------------------------------------------------------------
(* The stack *)

FrameSet == [chart: Charts, at: Steps, subs: SUBSET Charts]

LEMMA FrontProperties ==
    ASSUME NEW S, NEW s \in Seq(S), s # <<>>
    PROVE  /\ Front(s) \in Seq(S) /\ Len(Front(s)) = Len(s) - 1 /\ Len(s) \in Nat \ {0}
           /\ \A n \in 1..(Len(s) - 1) : Front(s)[n] = s[n]
           /\ Last(s) \in S /\ Last(s) = s[Len(s)]
<1>1. Len(s) \in Nat \ {0} /\ \A n \in 1..Len(s) : s[n] \in S
  BY EmptySeq, ElementOfSeq, LenProperties
<1>2. PICK l \in Nat \ {0} : l = Len(s)
  BY <1>1
<1>3. Front(s) \in Seq(S)
  BY DEF Front
<1>4. \A n \in 1..(Len(s) - 1) : Front(s)[n] = s[n]
  BY DEF Front
<1>5. Len(SubSeq(s, 1, l - 1)) = IF 1 <= l - 1 THEN l - 1 - 1 + 1 ELSE 0
  <2>1. l - 1 \in Int /\ \A i \in 1..(l - 1) : s[i] \in S
    BY <1>1, <1>2
  <2> QED
    BY <2>1, SubSeqProperties
<1>6. Len(SubSeq(s, 1, l - 1)) = l - 1
  BY <1>5
<1>7. Len(Front(s)) = Len(s) - 1
  BY <1>2, <1>6, Zenon DEF Front
<1>8. Last(s) \in S /\ Last(s) = s[Len(s)]
  BY <1>1 DEF Last
<1> QED
  BY <1>1, <1>3, <1>4, <1>7, <1>8

\* The sequence t ends with e, at l, and has the elements of s before.
EndsWith(t, l, e, s) ==
    /\ t # <<>> /\ Len(t) = l /\ DOMAIN t = 1..l
    /\ \A n \in 1..l : t[n] = IF n = l THEN e ELSE s[n]

LEMMA AppendedProperties ==
    ASSUME NEW S, NEW s \in Seq(S), NEW l \in Nat, l = Len(s), NEW e \in S,
           NEW t, t = Append(s, e)
    PROVE  t \in Seq(S) /\ EndsWith(t, l + 1, e, s)
<1>1. t \in Seq(S)
  BY AppendProperties
<1>2. DOMAIN t = 1..Len(t)
  BY <1>1, LenProperties
<1>3. t # <<>> /\ Len(t) = l + 1 /\ t[l + 1] = e
  BY AppendProperties
<1>4. \A n \in 1..l : t[n] = s[n]
  BY AppendProperties
<1> QED
  BY <1>1, <1>2, <1>3, <1>4 DEF EndsWith

LEMMA ReplacedProperties ==
    ASSUME NEW S, NEW s \in Seq(S), NEW l \in Nat \ {0}, l = Len(s), NEW e \in S,
           NEW t, t = Append(Front(s), e)
    PROVE  t \in Seq(S) /\ EndsWith(t, l, e, s)
<1>0. s # <<>>
  BY EmptySeq
<1>1. /\ Front(s) \in Seq(S) /\ Len(Front(s)) = l - 1
      /\ \A n \in 1..(l - 1) : Front(s)[n] = s[n]
  BY <1>0, FrontProperties
<1>2. t \in Seq(S)
  BY <1>1, AppendProperties
<1>3. PICK k \in Nat : l = k + 1
  OBVIOUS
<1>4. k = Len(Front(s))
  BY <1>1, <1>3
<1>5. EndsWith(t, k + 1, e, Front(s))
  BY <1>1, <1>4, AppendedProperties
<1> QED
  BY <1>1, <1>2, <1>3, <1>5 DEF EndsWith

\* What the stack is like, by TypeOK.
LEMMA StackFacts ==
    ASSUME TypeOK, stack # <<>>
    PROVE  /\ stack \in Seq(FrameSet)
           /\ Len(stack) \in Nat \ {0} /\ DOMAIN stack = 1..Len(stack)
           /\ Top = stack[Len(stack)] /\ Top \in FrameSet
           /\ \A n \in DOMAIN stack : stack[n] \in FrameSet
<1>1. stack \in Seq(FrameSet)
  BY DEF TypeOK, FrameSet
<1> QED
  BY <1>1, FrontProperties, ElementOfSeq, LenProperties DEF Top

\* The innermost call goes on: the others wait.
LEMMA GotoProperties ==
    ASSUME TypeOK, stack # <<>>, NEW step \in Steps, Goto(step)
    PROVE  /\ stack' \in Seq(FrameSet) /\ stack' # <<>>
           /\ Len(stack') = Len(stack) /\ DOMAIN stack' = DOMAIN stack
           /\ \A n \in DOMAIN stack : n # Len(stack) => stack'[n] = stack[n]
           /\ \A n \in DOMAIN stack : /\ stack'[n].chart = stack[n].chart
                                      /\ stack'[n].subs = stack[n].subs
           /\ stack'[Len(stack)].at = step
           /\ Top'.chart = Top.chart /\ Top'.subs = Top.subs /\ Top'.at = step
<1> DEFINE frame == [Top EXCEPT !.at = step]
<1>0. PICK l \in Nat \ {0} : l = Len(stack)
  BY StackFacts
<1>1. /\ stack \in Seq(FrameSet) /\ Top \in FrameSet /\ Top = stack[Len(stack)]
      /\ Len(stack) \in Nat \ {0} /\ DOMAIN stack = 1..Len(stack)
  BY StackFacts
<1>2. /\ frame \in FrameSet
      /\ frame.chart = Top.chart /\ frame.subs = Top.subs /\ frame.at = step
  BY <1>1 DEF FrameSet
<1>3. stack' = Append(Front(stack), frame)
  BY DEF Goto, Replaced
<1> HIDE DEF frame
<1>4. stack' \in Seq(FrameSet)
  BY <1>0, <1>1, <1>2, <1>3, ReplacedProperties
<1>5. EndsWith(stack', l, frame, stack)
  BY <1>0, <1>1, <1>2, <1>3, ReplacedProperties
<1>6. Top' = frame
  BY <1>5 DEF Top, Last, EndsWith
<1> QED
  BY <1>0, <1>1, <1>2, <1>4, <1>5, <1>6 DEF EndsWith

\* The innermost call returns.
LEMMA ReturnProperties ==
    ASSUME TypeOK, stack # <<>>, stack' = Front(stack)
    PROVE  /\ stack' \in Seq(FrameSet)
           /\ Len(stack') = Len(stack) - 1 /\ DOMAIN stack' = 1..(Len(stack) - 1)
           /\ \A n \in DOMAIN stack' : stack'[n] = stack[n]
           /\ stack' = <<>> <=> Len(stack) = 1
           /\ stack' # <<>> => Top' = stack[Len(stack) - 1]
<1>1. /\ stack \in Seq(FrameSet) /\ Len(stack) \in Nat \ {0}
  BY StackFacts
<1>2. /\ stack' \in Seq(FrameSet) /\ Len(stack') = Len(stack) - 1
      /\ \A n \in 1..(Len(stack) - 1) : stack'[n] = stack[n]
  BY <1>1, FrontProperties
<1>3. DOMAIN stack' = 1..(Len(stack) - 1)
  BY <1>2, LenProperties
<1>4. stack' = <<>> <=> Len(stack) = 1
  BY <1>1, <1>2, EmptySeq
<1>5. stack' # <<>> => Top' = stack[Len(stack) - 1]
  BY <1>1, <1>2, <1>4 DEF Top, Last
<1> QED
  BY <1>2, <1>3, <1>4, <1>5

\* A sub chart is called, and ticked off.
LEMMA SubChartProperties ==
    ASSUME TypeOK, stack # <<>>, NEW c \in Charts,
           stack' = Append(Replaced([Top EXCEPT !.subs = @ \ {c}]), Frame(c))
    PROVE  /\ stack' \in Seq(FrameSet) /\ stack' # <<>>
           /\ Len(stack') = Len(stack) + 1 /\ DOMAIN stack' = 1..(Len(stack) + 1)
           /\ \A n \in DOMAIN stack : n # Len(stack) => stack'[n] = stack[n]
           /\ stack'[Len(stack)] = [Top EXCEPT !.subs = @ \ {c}]
           /\ stack'[Len(stack) + 1] = Frame(c)
           /\ Top' = Frame(c)
<1> DEFINE frame == [Top EXCEPT !.subs = @ \ {c}]
           below == Replaced(frame)
<1>0. PICK l \in Nat \ {0} : l = Len(stack)
  BY StackFacts
<1>1. /\ stack \in Seq(FrameSet) /\ Top \in FrameSet
      /\ Len(stack) \in Nat \ {0} /\ DOMAIN stack = 1..Len(stack)
  BY StackFacts
<1>2. frame \in FrameSet
  BY <1>1 DEF FrameSet
<1>3. Frame(c) \in FrameSet
  BY TreeAssumption DEF Frame, FrameSet, Steps
<1>4. below = Append(Front(stack), frame) /\ stack' = Append(below, Frame(c))
  BY DEF Replaced
<1> HIDE DEF below, frame
<1>5. below \in Seq(FrameSet)
  BY <1>0, <1>1, <1>2, <1>4, ReplacedProperties
<1>6. EndsWith(below, l, frame, stack)
  BY <1>0, <1>1, <1>2, <1>4, ReplacedProperties
<1>7. l = Len(below)
  BY <1>6 DEF EndsWith
<1>8. stack' \in Seq(FrameSet) 
  BY <1>3, <1>4, <1>5, <1>7, AppendedProperties
<1>9. EndsWith(stack', l + 1, Frame(c), below)
  BY <1>3, <1>4, <1>5, <1>7, AppendedProperties
<1>10. Top' = Frame(c)
  BY <1>9 DEF Top, Last, EndsWith
<1>11. /\ stack' # <<>> /\ Len(stack') = Len(stack) + 1
       /\ DOMAIN stack' = 1..(Len(stack) + 1)
       /\ stack'[Len(stack) + 1] = Frame(c)
  <2>1. l + 1 \in 1..(l + 1)
    BY <1>0
  <2> QED
    BY <1>0, <1>9, <2>1 DEF EndsWith
<1>12. ASSUME NEW n \in DOMAIN stack
       PROVE  stack'[n] = IF n = Len(stack) THEN frame ELSE stack[n]
  <2>1. n \in 1..l /\ n \in 1..(l + 1) /\ n # l + 1
    BY <1>0, <1>1
  <2>2. stack'[n] = below[n]
    BY <1>0, <1>9, <2>1 DEF EndsWith
  <2> QED
    BY <1>0, <1>6, <2>1, <2>2 DEF EndsWith
<1>13. Len(stack) \in DOMAIN stack
  BY <1>1
<1> QED
  BY <1>8, <1>10, <1>11, <1>12, <1>13 DEF frame

-----------------------------------------------------------------------------
(* Type correctness *)

\* What TypeOK and Frames say of the stack: a path of the tree from the root.
StackOK ==
    /\ stack \in Seq(FrameSet)
    /\ \A n \in DOMAIN stack : stack[n].chart = Root <=> n = 1
    /\ \A n \in 2..Len(stack) : /\ stack[n].chart \in Subs[stack[n - 1].chart]
                                /\ stack[n].chart \notin stack[n - 1].subs
    /\ Frames

LEMMA EmptyStackOK == /\ stack = <<>> => StackOK
                      /\ stack' = <<>> => StackOK'
<1>1. \A s : s = <<>> => s \in Seq(FrameSet) /\ Len(s) = 0 /\ DOMAIN s = {}
  BY EmptySeq
<1>2. stack = <<>> => StackOK
  BY <1>1 DEF StackOK, Frames
<1>3. stack' = <<>> => StackOK'
  BY <1>1 DEF StackOK, Frames
<1> QED
  BY <1>2, <1>3

\* The innermost call is past its sub charts once it is rendered.
LEMMA TopFacts ==
    ASSUME TypeOK, Frames, NEW step, At(step)
    PROVE  /\ stack # <<>> /\ Top.at = step /\ Top.chart \in Charts /\ command # "none"
           /\ step \in {"render", "kubectl", "record"} => Top.subs = {}
           /\ step = "record" => command = "apply"
<1>1. stack # <<>> /\ Top.at = step
  BY DEF At, Top
<1>2. Len(stack) \in DOMAIN stack /\ Top = stack[Len(stack)] /\ Top \in FrameSet
  BY <1>1, StackFacts
<1> QED
  BY <1>1, <1>2 DEF Frames, FrameSet

LEMMA GotoKeepsStack ==
    ASSUME TypeOK, Frames, stack # <<>>, NEW step \in Steps, Goto(step),
           command' = command,
           step = "unrecord" => command = "delete",
           step = "record" => command = "apply",
           step \in {"render", "kubectl", "record"} => Top.subs = {}
    PROVE  StackOK'
<1> USE GotoProperties, StackFacts
<1>1. stack' \in Seq(FrameSet)
  OBVIOUS
<1>2. \A n \in DOMAIN stack' : stack'[n].chart = Root <=> n = 1
  BY DEF TypeOK
<1>3. ASSUME NEW n \in 2..Len(stack')
      PROVE  /\ stack'[n].chart \in Subs[stack'[n - 1].chart]
             /\ stack'[n].chart \notin stack'[n - 1].subs
  <2>1. n \in 2..Len(stack) /\ n \in DOMAIN stack /\ n - 1 \in DOMAIN stack
    OBVIOUS
  <2> QED
    BY <2>1 DEF TypeOK
<1>4. Frames'
  <2> SUFFICES ASSUME NEW n \in DOMAIN stack'
               PROVE  /\ stack'[n].subs \subseteq Subs[stack'[n].chart]
                      /\ n < Len(stack') => stack'[n].at = "subs"
                      /\ stack'[n].at \in {"render", "kubectl", "record"} => stack'[n].subs = {}
                      /\ stack'[n].at = "unrecord" => command' = "delete"
                      /\ stack'[n].at = "record" => command' = "apply"
                      /\ command' # "none"
    BY DEF Frames
  <2>1. n \in DOMAIN stack
    OBVIOUS
  <2>2. CASE n = Len(stack)
    BY <2>1, <2>2 DEF Frames
  <2>3. CASE n # Len(stack)
    BY <2>1, <2>3 DEF Frames
  <2> QED
    BY <2>2, <2>3
<1> QED
  BY <1>1, <1>2, <1>3, <1>4 DEF StackOK

LEMMA ReturnKeepsStack ==
    ASSUME TypeOK, Frames, stack # <<>>, stack' = Front(stack), command' = command
    PROVE  StackOK'
<1> USE ReturnProperties, StackFacts
<1>1. stack' \in Seq(FrameSet)
  OBVIOUS
<1>2. \A n \in DOMAIN stack' : stack'[n].chart = Root <=> n = 1
  BY DEF TypeOK
<1>3. ASSUME NEW n \in 2..Len(stack')
      PROVE  /\ stack'[n].chart \in Subs[stack'[n - 1].chart]
             /\ stack'[n].chart \notin stack'[n - 1].subs
  <2>1. n \in 2..Len(stack) /\ n \in DOMAIN stack' /\ n - 1 \in DOMAIN stack'
    OBVIOUS
  <2> QED
    BY <2>1 DEF TypeOK
<1>4. Frames'
  <2> SUFFICES ASSUME NEW n \in DOMAIN stack'
               PROVE  /\ stack'[n].subs \subseteq Subs[stack'[n].chart]
                      /\ n < Len(stack') => stack'[n].at = "subs"
                      /\ stack'[n].at \in {"render", "kubectl", "record"} => stack'[n].subs = {}
                      /\ stack'[n].at = "unrecord" => command' = "delete"
                      /\ stack'[n].at = "record" => command' = "apply"
                      /\ command' # "none"
    BY DEF Frames
  <2>1. n \in DOMAIN stack /\ stack'[n] = stack[n] /\ n < Len(stack)
    OBVIOUS
  <2> QED
    BY <2>1 DEF Frames
<1> QED
  BY <1>1, <1>2, <1>3, <1>4 DEF StackOK

LEMMA SubChartKeepsStack ==
    ASSUME TypeOK, Frames, SubChart
    PROVE  StackOK'
<1>1. PICK c \in Top.subs : stack' = Append(Replaced([Top EXCEPT !.subs = @ \ {c}]), Frame(c))
  BY DEF SubChart
<1>2. stack # <<>> /\ Top.at = "subs" /\ command' = command
  BY DEF SubChart, At, Top
<1>3. /\ stack \in Seq(FrameSet) /\ Top \in FrameSet /\ Top = stack[Len(stack)]
      /\ Len(stack) \in Nat \ {0} /\ DOMAIN stack = 1..Len(stack)
      /\ \A n \in DOMAIN stack : stack[n] \in FrameSet
  BY <1>2, StackFacts
<1>4. c \in Charts /\ c \in Subs[Top.chart] /\ c # Root
  BY <1>3, TreeAssumption DEF Frames, FrameSet
<1>5. /\ stack' \in Seq(FrameSet) /\ stack' # <<>>
      /\ Len(stack') = Len(stack) + 1 /\ DOMAIN stack' = 1..(Len(stack) + 1)
      /\ \A n \in DOMAIN stack : n # Len(stack) => stack'[n] = stack[n]
      /\ stack'[Len(stack)] = [Top EXCEPT !.subs = @ \ {c}]
      /\ stack'[Len(stack) + 1] = Frame(c)
  BY <1>1, <1>2, <1>4, SubChartProperties
<1>6. /\ Frame(c).chart = c /\ Frame(c).at = "begin" /\ Frame(c).subs = Subs[c]
  BY DEF Frame
<1>7. \A n \in DOMAIN stack : /\ stack'[n].chart = stack[n].chart
                              /\ stack'[n].at = stack[n].at
                              /\ stack'[n].subs \subseteq stack[n].subs
  BY <1>3, <1>5 DEF FrameSet
<1>8. \A n \in DOMAIN stack' : stack'[n].chart = Root <=> n = 1
  <2> SUFFICES ASSUME NEW n \in DOMAIN stack' PROVE stack'[n].chart = Root <=> n = 1
    OBVIOUS
  <2>1. CASE n \in DOMAIN stack
    BY <1>7, <2>1 DEF TypeOK
  <2>2. CASE n \notin DOMAIN stack
    <3>1. n = Len(stack) + 1 /\ n # 1
      BY <1>3, <1>5, <2>2
    <3> QED
      BY <1>4, <1>5, <1>6, <3>1
  <2> QED
    BY <2>1, <2>2
<1>9. ASSUME NEW n \in 2..Len(stack')
      PROVE  /\ stack'[n].chart \in Subs[stack'[n - 1].chart]
             /\ stack'[n].chart \notin stack'[n - 1].subs
  <2>1. CASE n \in DOMAIN stack
    <3>1. n \in 2..Len(stack) /\ n - 1 \in DOMAIN stack
      BY <1>3, <2>1
    <3> QED
      BY <1>7, <2>1, <3>1 DEF TypeOK
  <2>2. CASE n \notin DOMAIN stack
    <3>1. n = Len(stack) + 1 /\ n - 1 = Len(stack) /\ Len(stack) \in DOMAIN stack
      BY <1>3, <1>5, <2>2
    <3>2. stack'[n].chart = c /\ stack'[n - 1].chart = Top.chart /\ c \notin stack'[n - 1].subs
      BY <1>3, <1>5, <1>6, <1>7, <3>1 DEF FrameSet
    <3> QED
      BY <1>4, <3>2
  <2> QED
    BY <2>1, <2>2
<1>10. Frames'
  <2> SUFFICES ASSUME NEW n \in DOMAIN stack'
               PROVE  /\ stack'[n].subs \subseteq Subs[stack'[n].chart]
                      /\ n < Len(stack') => stack'[n].at = "subs"
                      /\ stack'[n].at \in {"render", "kubectl", "record"} => stack'[n].subs = {}
                      /\ stack'[n].at = "unrecord" => command' = "delete"
                      /\ stack'[n].at = "record" => command' = "apply"
                      /\ command' # "none"
    BY DEF Frames
  <2>0. command # "none"
    BY <1>3 DEF Frames
  <2>1. CASE n \in DOMAIN stack
    <3>1. n < Len(stack) \/ n = Len(stack)
      BY <1>3, <2>1
    <3>2. stack'[n].at = "subs"
      BY <1>2, <1>3, <1>7, <2>1, <3>1 DEF Frames
    <3> QED
      BY <1>2, <1>7, <2>0, <2>1, <3>2 DEF Frames
  <2>2. CASE n \notin DOMAIN stack
    <3>1. n = Len(stack) + 1
      BY <1>3, <1>5, <2>2
    <3> QED
      BY <1>2, <1>5, <1>6, <2>0, <3>1
  <2> QED
    BY <2>1, <2>2
<1> QED
  BY <1>5, <1>8, <1>9, <1>10 DEF StackOK

\* What TypeOK says of the other variables.
RestOK ==
    /\ cluster \subseteq AllObjects /\ refused \subseteq AllObjects
    /\ record \subseteq Charts
    /\ command \in {"none", "apply", "delete"}
    /\ docs \in Seq(UNION {Docs(c) : c \in Charts})
    /\ objs \in Seq(AllObjects)
    /\ result \in {"ok", "failed", "running"}
    /\ result = "running" <=> stack # <<>>
    /\ commands \in 0..MaxCommands /\ faults \in 0..MaxFaults

LEMMA TypeParts == TypeOK /\ Frames <=> StackOK /\ RestOK
<1>1. TypeOK /\ Frames => StackOK
  BY DEF TypeOK, StackOK, FrameSet
<1>2. TypeOK => RestOK
  BY DEF TypeOK, RestOK
<1>3. StackOK /\ RestOK => TypeOK /\ Frames
  BY DEF TypeOK, StackOK, RestOK, FrameSet
<1> QED
  BY <1>1, <1>2, <1>3

\* Sorting changes the order and nothing else.
LEMMA SortedProperties ==
    ASSUME NEW S, NEW s \in Seq(S), NEW reverse, NEW t \in Sorted(s, reverse)
    PROVE  /\ t \in Seq(S) /\ DOMAIN t = DOMAIN s
           /\ \A n \in DOMAIN t : \E m \in DOMAIN s : t[n] = s[m]
           /\ \A m \in DOMAIN s : \E n \in DOMAIN t : t[n] = s[m]
           /\ \A m, n \in DOMAIN t : m < n =>
                IF reverse THEN ~Before(t[m], t[n]) ELSE ~Before(t[n], t[m])
<1>1. DOMAIN s = 1..Len(s) /\ Len(s) \in Nat /\ \A n \in DOMAIN s : s[n] \in S
  BY LenProperties, ElementOfSeq
<1>2. PICK p \in Bijection(DOMAIN s, DOMAIN s) : t = [n \in DOMAIN s |-> s[p[n]]]
  BY DEF Sorted, Permuted
<1>3. /\ p \in [DOMAIN s -> DOMAIN s]
      /\ \A m \in DOMAIN s : \E n \in DOMAIN s : p[n] = m
  BY DEF Bijection, Injection, Surjection
<1>4. DOMAIN t = DOMAIN s /\ \A n \in DOMAIN t : t[n] = s[p[n]] /\ p[n] \in DOMAIN s
  BY <1>2, <1>3
<1>5. t \in Seq(S)
  <2>1. t \in [1..Len(s) -> S]
    BY <1>1, <1>2, <1>3
  <2> QED
    BY <1>1, <2>1, SeqDef
<1>6. \A m \in DOMAIN s : \E n \in DOMAIN t : t[n] = s[m]
  BY <1>3, <1>4
<1>7. \A m, n \in DOMAIN t : m < n =>
        IF reverse THEN ~Before(t[m], t[n]) ELSE ~Before(t[n], t[m])
  BY <1>4 DEF Sorted
<1> QED
  BY <1>4, <1>5, <1>6, <1>7

LEMMA TypeStep ==
    ASSUME TypeOK, Frames, Complete, [Next]_vars
    PROVE  TypeOK' /\ Frames'
<1> SUFFICES StackOK' /\ RestOK'
  BY TypeParts, PTL
<1> USE DEF RestOK
<1>0. RestOK /\ StackOK
  BY TypeParts
<1>1. ASSUME NEW op \in {"apply", "delete"}, Command(op) PROVE StackOK' /\ RestOK'
  <2>1. Frame(Root) \in FrameSet /\ Frame(Root).chart = Root
        /\ Frame(Root).at = "begin" /\ Frame(Root).subs = Subs[Root]
    BY TreeAssumption DEF Frame, FrameSet, Steps
  <2> DEFINE first == <<Frame(Root)>>
  <2>2. stack' = first /\ command' \in {"apply", "delete"}
    BY <1>1 DEF Command
  <2>3. first \in Seq(FrameSet) /\ Len(first) = 1 /\ first[1] = Frame(Root) /\ DOMAIN first = 1..1
    BY <2>1
  <2>4. StackOK'
    <3> HIDE DEF first
    <3>1. /\ \A n \in DOMAIN first : first[n].chart = Root <=> n = 1
          /\ \A n \in 2..Len(first) : FALSE
      BY <2>1, <2>3
    <3>2. Frames'
      BY <2>1, <2>2, <2>3 DEF Frames
    <3> QED
      BY <2>2, <2>3, <3>1, <3>2 DEF StackOK
  <2>5. RestOK'
    BY <1>0, <1>1, BoundsAssumption DEF Command
  <2> QED
    BY <2>4, <2>5
<1>2. CASE Fail
  <2>1. StackOK'
    BY <1>2, EmptyStackOK DEF Fail
  <2>2. RestOK'
    BY <1>0, <1>2, EmptySeq, BoundsAssumption DEF Fail
  <2> QED
    BY <2>1, <2>2
<1>3. CASE Begin
  <2>1. StackOK'
    BY <1>3, GotoKeepsStack DEF Begin, At, Steps
  <2>2. stack # <<>> /\ stack' # <<>>
    BY <1>3, GotoProperties DEF Begin, At, Steps
  <2> QED
    BY <1>0, <1>3, <2>1, <2>2 DEF Begin
<1>4. CASE Unrecord
  <2>1. StackOK'
    BY <1>4, GotoKeepsStack DEF Unrecord, At, Steps
  <2>2. stack # <<>> /\ stack' # <<>>
    BY <1>4, GotoProperties DEF Unrecord, At, Steps
  <2> QED
    BY <1>0, <1>4, <2>1, <2>2 DEF Unrecord
<1>5. CASE SubChart
  <2>1. StackOK'
    BY <1>5, SubChartKeepsStack
  <2>2. stack # <<>> /\ stack' # <<>>
    <3>1. stack # <<>>
      BY <1>5 DEF SubChart, At
    <3>2. PICK c \in Top.subs :
            stack' = Append(Replaced([Top EXCEPT !.subs = @ \ {c}]), Frame(c))
      BY <1>5 DEF SubChart
    <3>3. c \in Charts
      BY <3>1, StackFacts DEF FrameSet
    <3> QED
      BY <3>1, <3>2, <3>3, SubChartProperties
  <2> QED
    BY <1>0, <1>5, <2>1, <2>2 DEF SubChart
<1>6. CASE Local
  <2>1. stack # <<>> /\ Top.subs = {} /\ "render" \in Steps /\ Goto("render")
    BY <1>6 DEF Local, At, Steps
  <2>2. StackOK' /\ stack' # <<>>
    BY <1>6, <2>1, GotoKeepsStack, GotoProperties DEF Local
  <2>3. docs' \in Seq(UNION {Docs(c) : c \in Charts})
    <3>1. Top.chart \in Charts
      BY <2>1, StackFacts DEF FrameSet
    <3>2. Manifest[Top.chart] \in Seq(Docs(Top.chart))
      BY <3>1, ManifestAssumption
    <3>3. Docs(Top.chart) \subseteq UNION {Docs(c) : c \in Charts}
      BY <3>1
    <3> QED
      BY <1>6, <3>2, <3>3, SeqMonotonic DEF Local
  <2> QED
    BY <1>0, <1>6, <2>1, <2>2, <2>3, EmptySeq DEF Local
<1>7. CASE Collect
  <2>1. StackOK'
    BY <1>0, <1>7 DEF Collect, StackOK, Frames
  <2>2. Head(docs) \in Docs(Top.chart) /\ Top.chart \in Charts
    <3>1. stack # <<>> /\ docs # <<>> /\ \A n \in DOMAIN docs : docs[n] \in Docs(Top.chart)
      BY <1>7 DEF Collect, At, Complete
    <3>2. 1 \in DOMAIN docs /\ Head(docs) = docs[1]
      BY <1>0, <3>1, EmptySeq, LenProperties
    <3> QED
      BY <3>1, <3>2, StackFacts DEF FrameSet
  <2>3. Head(docs) # Blank => <<Top.chart, Head(docs)>> \in AllObjects
    BY <2>2 DEF AllObjects, Objects
  <2>4. objs' \in Seq(AllObjects)
    BY <1>0, <1>7, <2>3, AppendProperties DEF Collect
  <2>5. docs' \in Seq(UNION {Docs(c) : c \in Charts})
    BY <1>0, <1>7, HeadTailProperties DEF Collect
  <2> QED
    BY <1>0, <1>7, <2>1, <2>4, <2>5 DEF Collect
<1>8. CASE Sort
  <2>1. stack # <<>> /\ Top.subs = {} /\ "kubectl" \in Steps /\ Goto("kubectl")
    BY <1>8, TopFacts DEF Sort, Steps
  <2>2. StackOK' /\ stack' # <<>>
    BY <1>8, <2>1, GotoKeepsStack, GotoProperties DEF Sort
  <2>3. objs' \in Seq(AllObjects)
    BY <1>0, <1>8, SortedProperties DEF Sort
  <2> QED
    BY <1>0, <1>8, <2>1, <2>2, <2>3 DEF Sort
<1>9. CASE Kubectl
  <2>1. StackOK'
    BY <1>0, <1>9 DEF Kubectl, StackOK, Frames
  <2>2. Head(objs) \in AllObjects /\ objs' \in Seq(AllObjects)
    BY <1>0, <1>9, HeadTailProperties DEF Kubectl
  <2>3. stack' = stack /\ cluster' \subseteq AllObjects /\ refused' \subseteq AllObjects
    BY <1>0, <1>9, <2>2 DEF Kubectl
  <2>4. faults' \in 0..MaxFaults
    BY <1>0, <1>9, BoundsAssumption DEF Kubectl
  <2> QED
    BY <1>0, <1>9, <2>1, <2>2, <2>3, <2>4 DEF Kubectl
<1>10. ASSUME stack # <<>>, Return, command' = command
       PROVE  StackOK' /\ result' \in {"ok", "failed", "running"}
              /\ (result' = "running" <=> stack' # <<>>)
  BY <1>0, <1>10, ReturnKeepsStack, ReturnProperties DEF Return
<1>11. CASE Exits
  <2>1. CASE stack' = <<>> /\ result' = "failed"
    <3>1. StackOK'
      BY <2>1, EmptyStackOK
    <3> QED
      BY <1>0, <1>11, <2>1, <3>1 DEF Exits
  <2>2. CASE Goto("record") /\ UNCHANGED result /\ command = "apply"
    <3>1. stack # <<>> /\ Top.subs = {} /\ "record" \in Steps
      BY <1>11, TopFacts DEF Exits, Steps
    <3>2. StackOK' /\ stack' # <<>>
      BY <1>11, <2>2, <3>1, GotoKeepsStack, GotoProperties DEF Exits
    <3> QED
      BY <1>0, <1>11, <2>2, <3>1, <3>2 DEF Exits
  <2>3. CASE Return
    BY <1>0, <1>10, <1>11, <2>3 DEF Exits, At
  <2> QED
    BY <1>11, <2>1, <2>2, <2>3 DEF Exits
<1>12. CASE Record
  <2>1. stack # <<>> /\ Top.chart \in Charts
    BY <1>12, StackFacts DEF Record, At, FrameSet
  <2>2. faults' \in 0..MaxFaults /\ record' \subseteq Charts
    BY <1>0, <1>12, <2>1, BoundsAssumption DEF Record
  <2> QED
    BY <1>0, <1>10, <1>12, <2>1, <2>2 DEF Record
<1>13. CASE UNCHANGED vars
  BY <1>0, <1>13 DEF vars, StackOK, Frames
<1> QED
  BY <1>1, <1>2, <1>3, <1>4, <1>5, <1>6, <1>7, <1>8, <1>9, <1>11, <1>12, <1>13 DEF Next

-----------------------------------------------------------------------------
(* From the templates to kubectl *)

LEMMA TailFacts ==
    ASSUME NEW S, NEW s \in Seq(S), s # <<>>
    PROVE  /\ 1 \in DOMAIN s /\ Head(s) = s[1]
           /\ \A n \in DOMAIN Tail(s) : n + 1 \in DOMAIN s /\ Tail(s)[n] = s[n + 1]
           /\ \A n \in DOMAIN s :
                n = 1 \/ (n - 1 \in DOMAIN Tail(s) /\ Tail(s)[n - 1] = s[n])
<1>1. /\ Tail(s) \in Seq(S) /\ Len(Tail(s)) = Len(s) - 1
      /\ \A n \in 1..Len(Tail(s)) : Tail(s)[n] = s[n + 1]
  BY HeadTailProperties
<1>2. PICK l \in Nat \ {0} : l = Len(s) /\ DOMAIN s = 1..l
  BY EmptySeq, LenProperties
<1>3. Len(Tail(s)) = l - 1 /\ DOMAIN Tail(s) = 1..(l - 1)
  BY <1>1, <1>2, LenProperties
<1>4. Head(s) = s[1]
  OBVIOUS
<1> QED
  BY <1>1, <1>2, <1>3, <1>4

\* These steps leave the innermost call, if there is one, with nothing on its way.
LEMMA OutsideLocal ==
    ASSUME TypeOK, Frames,
           \/ \E op \in {"apply", "delete"} : Command(op)
           \/ Fail \/ Begin \/ Unrecord \/ SubChart \/ Exits \/ Record
    PROVE  stack' = <<>> \/ Top'.at \in {"begin", "unrecord", "subs", "record"}
<1>1. ASSUME NEW op \in {"apply", "delete"}, Command(op) PROVE Top'.at = "begin"
  <2>1. stack' = <<Frame(Root)>> /\ Frame(Root).at = "begin"
    BY <1>1 DEF Command, Frame
  <2>2. Top' = Frame(Root)
    BY <2>1 DEF Top, Last
  <2> QED
    BY <2>1, <2>2
<1>2. CASE Fail
  BY <1>2 DEF Fail
<1>3. CASE Begin
  BY <1>3, GotoProperties DEF Begin, At, Steps
<1>4. CASE Unrecord
  BY <1>4, GotoProperties DEF Unrecord, At, Steps
<1>5. CASE SubChart
  <2>1. stack # <<>>
    BY <1>5 DEF SubChart, At
  <2>2. PICK c \in Top.subs : stack' = Append(Replaced([Top EXCEPT !.subs = @ \ {c}]), Frame(c))
    BY <1>5 DEF SubChart
  <2>3. c \in Charts
    BY <2>1, StackFacts DEF FrameSet
  <2>4. Top' = Frame(c)
    BY <2>1, <2>2, <2>3, SubChartProperties
  <2> QED
    BY <2>4 DEF Frame
<1>6. ASSUME stack # <<>>, Return PROVE stack' = <<>> \/ Top'.at = "subs"
  <2>1. stack' # <<>> => Top' = stack[Len(stack) - 1] /\ Len(stack) # 1
    BY <1>6, ReturnProperties DEF Return
  <2>2. Len(stack) # 1 => Len(stack) - 1 \in DOMAIN stack /\ Len(stack) - 1 < Len(stack)
    BY <1>6, StackFacts
  <2> QED
    BY <2>1, <2>2 DEF Frames
<1>7. CASE Exits
  <2>1. stack # <<>>
    BY <1>7 DEF Exits, At
  <2>2. CASE Goto("record")
    BY <2>1, <2>2, GotoProperties DEF Steps
  <2> QED
    BY <1>6, <1>7, <2>1, <2>2 DEF Exits
<1>8. CASE Record
  BY <1>6, <1>8 DEF Record, At
<1> QED
  BY <1>1, <1>2, <1>3, <1>4, <1>5, <1>7, <1>8

\* What is where while the documents of the chart that runs are decoded.
LEMMA CompleteStep ==
    ASSUME TypeOK, Frames, Complete, [Next]_vars
    PROVE  Complete'
<1> USE DEF At, Complete
<1>0. docs \in Seq(UNION {Docs(c) : c \in Charts}) /\ objs \in Seq(AllObjects)
  BY DEF TypeOK
<1>1. CASE stack' = <<>> \/ Top'.at \in {"begin", "unrecord", "subs", "record"}
  BY <1>1 DEF Top
<1>2. CASE Local
  <2>1. stack # <<>> /\ Top.chart \in Charts /\ Top'.chart = Top.chart /\ Top'.at = "render"
    BY <1>2, TopFacts, GotoProperties DEF Local, Steps
  <2>2. docs' = Manifest[Top.chart] /\ objs' = <<>> /\ ~At("kubectl")'
    BY <1>2, <2>1 DEF Local, Top
  <2>3. \A d : d \in Docs(Top.chart) <=> \E n \in DOMAIN docs' : docs'[n] = d
    BY <2>2 DEF Docs
  <2>4. DOMAIN objs' = {}
    BY <2>2
  <2>5. /\ \A n \in DOMAIN docs' : docs'[n] \in Docs(Top'.chart)
        /\ \A n \in DOMAIN objs' : objs'[n] \in Objects(Top.chart)'
        /\ \A d \in Docs(Top'.chart) \ {Blank} : \E n \in DOMAIN docs' : docs'[n] = d
    BY <2>1, <2>3, <2>4
  <2> QED
    BY <2>1, <2>2, <2>5
<1>3. CASE Collect
  <2> DEFINE d0 == Head(docs)
             o0 == <<Top.chart, d0>>
  <2>1. /\ At("render") /\ stack' = stack /\ docs # <<>> /\ docs' = Tail(docs)
        /\ objs' = IF d0 = Blank THEN objs ELSE Append(objs, o0)
    BY <1>3 DEF Collect
  <2>2. Top' = Top /\ At("render")' /\ ~At("kubectl")'
    BY <2>1 DEF Top
  <2>3. /\ 1 \in DOMAIN docs /\ d0 = docs[1]
        /\ \A n \in DOMAIN docs' : n + 1 \in DOMAIN docs /\ docs'[n] = docs[n + 1]
        /\ \A n \in DOMAIN docs :
             n = 1 \/ (n - 1 \in DOMAIN docs' /\ docs'[n - 1] = docs[n])
    BY <1>0, <2>1, TailFacts
  <2>4. d0 \in Docs(Top.chart) /\ Top.chart \in Charts
    BY <2>1, <2>3, TopFacts
  <2>5. d0 # Blank => o0 \in Objects(Top.chart) /\ o0 \in AllObjects
    BY <2>4 DEF Objects, AllObjects
  <2>6. /\ \A n \in DOMAIN objs : n \in DOMAIN objs' /\ objs'[n] = objs[n]
        /\ \A n \in DOMAIN objs' : n \in DOMAIN objs \/ (d0 # Blank /\ objs'[n] = o0)
        /\ d0 # Blank => \E n \in DOMAIN objs' : objs'[n] = o0
    <3>1. CASE d0 = Blank
      BY <2>1, <3>1
    <3>2. CASE d0 # Blank
      <4> HIDE DEF o0, d0
      <4>1. PICK l \in Nat : l = Len(objs) /\ DOMAIN objs = 1..l
        BY <1>0, LenProperties
      <4>2. objs' \in Seq(AllObjects) /\ EndsWith(objs', l + 1, o0, objs)
        BY <1>0, <2>1, <2>5, <3>2, <4>1, AppendedProperties
      <4>3. l + 1 \in 1..(l + 1) /\ \A n \in 1..(l + 1) : n = l + 1 \/ n \in 1..l
        BY <4>1
      <4> QED
        BY <3>2, <4>1, <4>2, <4>3 DEF EndsWith
    <3> QED
      BY <3>1, <3>2
  <2>7. \A n \in DOMAIN docs' : docs'[n] \in Docs(Top'.chart)
    BY <2>1, <2>2, <2>3
  <2>8. \A n \in DOMAIN objs' : objs'[n] \in Objects(Top'.chart)
    BY <2>1, <2>2, <2>5, <2>6
  <2>9. ASSUME NEW d \in Docs(Top'.chart) \ {Blank}
        PROVE  \/ \E n \in DOMAIN docs' : docs'[n] = d
               \/ \E n \in DOMAIN objs' : objs'[n] = <<Top'.chart, d>>
    <3>1. CASE \E n \in DOMAIN docs : docs[n] = d
      BY <2>2, <2>3, <2>6, <3>1
    <3>2. CASE \E n \in DOMAIN objs : objs[n] = <<Top.chart, d>>
      BY <2>2, <2>6, <3>2
    <3> QED
      BY <2>1, <2>2, <3>1, <3>2
  <2> QED
    BY <2>2, <2>7, <2>8, <2>9 DEF Objects
<1>4. CASE Sort
  <2>1. /\ At("render") /\ docs = <<>> /\ objs' \in Sorted(objs, command = "delete")
        /\ Goto("kubectl")
    BY <1>4 DEF Sort
  <2>2. Top'.chart = Top.chart /\ Top'.at = "kubectl"
    BY <2>1, GotoProperties DEF Steps
  <2>3. ~At("render")'
    BY <2>2 DEF Top
  <2>4. /\ \A n \in DOMAIN objs' : \E m \in DOMAIN objs : objs'[n] = objs[m]
        /\ \A m \in DOMAIN objs : \E n \in DOMAIN objs' : objs'[n] = objs[m]
    BY <1>0, <2>1, SortedProperties
  <2>5. DOMAIN docs = {}
    BY <2>1
  <2>6. \A n \in DOMAIN objs' : objs'[n] \in Objects(Top'.chart)
    BY <2>1, <2>2, <2>4
  <2>7. \A o \in Objects(Top'.chart) : \E n \in DOMAIN objs' : objs'[n] = o
    BY <2>1, <2>2, <2>4, <2>5 DEF Objects
  <2> QED
    BY <2>3, <2>6, <2>7 DEF Objects
<1>5. CASE Kubectl
  <2>1. At("kubectl") /\ stack' = stack /\ objs # <<>> /\ objs' = Tail(objs)
    BY <1>5 DEF Kubectl
  <2>2. Top' = Top /\ ~At("render")'
    BY <2>1 DEF Top
  <2>3. /\ 1 \in DOMAIN objs /\ Head(objs) = objs[1]
        /\ \A n \in DOMAIN objs' : n + 1 \in DOMAIN objs /\ objs'[n] = objs[n + 1]
        /\ \A n \in DOMAIN objs :
             n = 1 \/ (n - 1 \in DOMAIN objs' /\ objs'[n - 1] = objs[n])
    BY <1>0, <2>1, TailFacts
  <2>4. command' = command /\ command \in {"apply", "delete"}
    BY <1>5, <2>1, TopFacts DEF Kubectl, TypeOK
  <2> PICK first : first = Head(objs)
    OBVIOUS
  <2>5. Treated(first)' /\ \A o : o # first /\ Treated(o) => Treated(o)'
    BY <1>5, <2>4 DEF Kubectl, Treated
  <2>6. ASSUME NEW o \in Objects(Top'.chart)
        PROVE  (\E n \in DOMAIN objs' : objs'[n] = o) \/ Treated(o)'
    <3>1. CASE o = first
      BY <2>5, <3>1
    <3>2. CASE o # first
      <4>1. (\E n \in DOMAIN objs : objs[n] = o) \/ Treated(o)
        BY <2>1, <2>2
      <4> QED
        BY <2>3, <2>5, <3>2, <4>1
    <3> QED
      BY <3>1, <3>2
  <2>7. \A n \in DOMAIN objs' : objs'[n] \in Objects(Top'.chart)
    BY <2>1, <2>2, <2>3
  <2> QED
    BY <2>2, <2>6, <2>7 DEF Objects, Treated
<1>6. CASE UNCHANGED vars
  BY <1>6 DEF vars, Top, Treated
<1> QED
  BY <1>1, <1>2, <1>3, <1>4, <1>5, <1>6, OutsideLocal DEF Next

\* kubectl gets the objects sorted, and takes them from the front.
LEMMA OrderedStep ==
    ASSUME TypeOK, Frames, Ordered, [Next]_vars
    PROVE  Ordered'
<1> USE DEF At
<1>0. objs \in Seq(AllObjects)
  BY DEF TypeOK
<1>1. CASE stack' = <<>> \/ Top'.at \in {"begin", "unrecord", "subs", "record"}
  BY <1>1 DEF Top, Ordered
<1>2. CASE Local
  BY <1>2, GotoProperties DEF Local, Steps, Top, Ordered
<1>3. CASE Collect
  BY <1>3 DEF Collect, Ordered
<1>4. CASE Sort
  <2>1. objs' \in Sorted(objs, command = "delete") /\ command' = command
    BY <1>4 DEF Sort
  <2> QED
    BY <1>0, <2>1, SortedProperties DEF Ordered
<1>5. CASE Kubectl
  <2>1. At("kubectl") /\ objs # <<>> /\ objs' = Tail(objs) /\ command' = command
    BY <1>5 DEF Kubectl
  <2>2. \A n \in DOMAIN objs' : n \in Nat /\ n + 1 \in DOMAIN objs /\ objs'[n] = objs[n + 1]
    <3>1. objs' \in Seq(AllObjects)
      BY <1>0, <2>1, HeadTailProperties
    <3>2. \A n \in DOMAIN objs' : n \in Nat
      BY <3>1, LenProperties
    <3> QED
      BY <1>0, <2>1, <3>2, TailFacts
  <2> QED
    BY <2>1, <2>2 DEF Ordered
<1>6. CASE UNCHANGED vars
  BY <1>6 DEF vars, Ordered
<1> QED
  BY <1>1, <1>2, <1>3, <1>4, <1>5, <1>6, OutsideLocal DEF Next

-----------------------------------------------------------------------------
(* Records and sub charts *)

\* A delete goes past "unrecord" only by Unrecord.
LEMMA UnrecordedStep ==
    ASSUME TypeOK, Frames, Unrecorded, [Next]_vars
    PROVE  Unrecorded'
<1> DEFINE Early == {"begin", "unrecord"}
<1>1. SUFFICES ASSUME command' = "delete", NEW n \in DOMAIN stack', stack'[n].at \notin Early
               PROVE  stack'[n].chart \notin record'
  BY DEF Unrecorded
<1>2. ASSUME record' \subseteq record, command' = command,
             /\ n \in DOMAIN stack /\ stack'[n].chart = stack[n].chart
             /\ stack[n].at \notin Early
      PROVE  stack'[n].chart \notin record'
  BY <1>1, <1>2 DEF Unrecorded
<1>3. ASSUME NEW op \in {"apply", "delete"}, Command(op) PROVE FALSE
  <2>1. stack' = <<Frame(Root)>> /\ Frame(Root).at = "begin"
    BY <1>3 DEF Command, Frame
  <2> HIDE DEF Frame
  <2>2. n = 1 /\ stack'[1] = Frame(Root)
    BY <1>1, <2>1
  <2> QED
    BY <1>1, <2>1, <2>2
<1>4. CASE Fail
  BY <1>1, <1>4 DEF Fail
<1>5. ASSUME stack # <<>>, Top.at \notin Early, record' = record, command' = command,
             NEW step \in Steps, Goto(step)
      PROVE  stack'[n].chart \notin record'
  BY <1>1, <1>2, <1>5, GotoProperties, StackFacts
<1>6. CASE Begin
  <2>1. stack # <<>> /\ Goto("unrecord") /\ record' = record /\ command' = command
    BY <1>1, <1>6 DEF Begin, At
  <2>2. n \in DOMAIN stack /\ n # Len(stack) /\ stack'[n] = stack[n]
    BY <1>1, <2>1, GotoProperties DEF Steps
  <2> QED
    BY <1>1, <1>2, <2>1, <2>2
<1>7. CASE Unrecord
  <2>1. stack # <<>> /\ Goto("subs") /\ record' = record \ {Top.chart} /\ command' = command
    BY <1>7 DEF Unrecord, At
  <2>2. n \in DOMAIN stack /\ stack'[n].chart = stack[n].chart /\ Top = stack[Len(stack)]
        /\ (n # Len(stack) => stack'[n] = stack[n])
    BY <1>1, <2>1, GotoProperties, StackFacts DEF Steps
  <2> QED
    BY <1>1, <1>2, <2>1, <2>2
<1>8. CASE SubChart
  <2>1. stack # <<>> /\ Top.at = "subs" /\ record' = record /\ command' = command
    BY <1>8 DEF SubChart, At, Top
  <2>2. PICK c \in Top.subs : stack' = Append(Replaced([Top EXCEPT !.subs = @ \ {c}]), Frame(c))
    BY <1>8 DEF SubChart
  <2>3. c \in Charts /\ Top \in FrameSet /\ Top = stack[Len(stack)]
        /\ DOMAIN stack = 1..Len(stack) /\ Len(stack) \in Nat \ {0}
    BY <2>1, StackFacts DEF FrameSet
  <2>4. /\ DOMAIN stack' = 1..(Len(stack) + 1)
        /\ \A m \in DOMAIN stack : m # Len(stack) => stack'[m] = stack[m]
        /\ stack'[Len(stack)] = [Top EXCEPT !.subs = @ \ {c}]
        /\ stack'[Len(stack) + 1] = Frame(c)
    BY <2>1, <2>2, <2>3, SubChartProperties
  <2>5. Frame(c).at = "begin"
    BY DEF Frame
  <2>6. n \in DOMAIN stack
    <3>1. n # Len(stack) + 1
      BY <1>1, <2>4, <2>5
    <3> QED
      BY <1>1, <2>3, <2>4, <3>1
  <2>7. stack'[n].chart = stack[n].chart /\ stack'[n].at = stack[n].at
    <3>1. CASE n = Len(stack)
      BY <2>3, <2>4, <3>1 DEF FrameSet
    <3> QED
      BY <2>4, <2>6, <3>1
  <2> QED
    BY <1>1, <1>2, <2>1, <2>6, <2>7
<1>9. CASE Local
  BY <1>5, <1>9 DEF Local, At, Top, Steps
<1>10. CASE Sort
  BY <1>5, <1>10 DEF Sort, At, Top, Steps
<1>11. CASE Collect \/ Kubectl \/ UNCHANGED vars
  BY <1>1, <1>2, <1>11 DEF Collect, Kubectl, vars
<1>12. CASE Exits
  <2>1. stack # <<>> /\ record' = record /\ command' = command
    BY <1>12 DEF Exits, At
  <2>2. CASE Return
    BY <1>1, <1>2, <2>1, <2>2, ReturnProperties, StackFacts DEF Return
  <2> QED
    BY <1>1, <1>12, <2>1, <2>2 DEF Exits
<1>13. CASE Record
  BY <1>1, <1>13, TopFacts DEF Record
<1> QED
  BY <1>3, <1>4, <1>6, <1>7, <1>8, <1>9, <1>10, <1>11, <1>12, <1>13 DEF Next

\* The charts below a chart are those of its sub charts.
LEMMA TreeSplits ==
    ASSUME NEW c \in Charts, NEW d \in Tree(c), d # c
    PROVE  \E e \in Subs[c] : d \in Tree(e)
<1> DEFINE all == {c} \cup {e \in Charts : \E f \in Subs[c] : e \in Tree(f)}
<1>1. \A f \in Subs[c] : f \in Charts /\ f \in Tree(f)
  BY TreeAssumption DEF Tree
<1>2. Closed(all)
  <2> SUFFICES ASSUME NEW e \in all, NEW g \in Subs[e] PROVE g \in all
    BY DEF Closed
  <2>1. g \in Charts
    BY TreeAssumption
  <2>2. CASE e = c
    BY <1>1, <2>1, <2>2
  <2>3. ASSUME NEW f \in Subs[c], e \in Tree(f) PROVE g \in Tree(f)
    BY <2>1, <2>3 DEF Tree, Closed
  <2> QED
    BY <2>1, <2>2, <2>3
<1>3. all \in SUBSET Charts /\ c \in all
  OBVIOUS
<1>4. d \in all
  <2> HIDE DEF all
  <2> QED
    BY <1>2, <1>3 DEF Tree
<1> QED
  BY <1>4

\* A chart is there as a whole with its own objects and its sub charts.
LEMMA WholeOfParts ==
    ASSUME NEW c \in Charts, Objects(c) \subseteq cluster, \A d \in Subs[c] : Whole(d)
    PROVE  Whole(c)
BY TreeSplits DEF Whole

LEMMA TopWhole ==
    ASSUME TypeOK, Frames, SubsApplied, At("record")
    PROVE  Whole(Top.chart) /\ command = "apply"
<1>1. /\ stack # <<>> /\ Top.subs = {} /\ command = "apply" /\ Top.chart \in Charts
      /\ Objects(Top.chart) \subseteq cluster
  BY TopFacts DEF SubsApplied
<1>2. Len(stack) \in DOMAIN stack /\ Top = stack[Len(stack)] /\ ~(Len(stack) < Len(stack))
  BY <1>1, StackFacts
<1>3. \A d \in Subs[Top.chart] : Whole(d)
  BY <1>1, <1>2 DEF SubsApplied
<1> QED
  BY <1>1, <1>3, WholeOfParts

\* What an apply has ticked off stays there, and its last sub chart joins it on return.
LEMMA SubsAppliedStep ==
    ASSUME TypeOK, Frames, Complete, SubsApplied, [Next]_vars
    PROVE  SubsApplied'
<1> DEFINE There(n) == \A d \in Subs[stack'[n].chart] \ stack'[n].subs :
                          \/ Whole(d)'
                          \/ n < Len(stack') /\ d = stack'[n + 1].chart
<1>1. SUFFICES ASSUME command' = "apply"
               PROVE  /\ \A n \in DOMAIN stack' : There(n)
                      /\ At("record")' => Objects(Top.chart)' \subseteq cluster'
  BY DEF SubsApplied
<1>0. cluster \subseteq cluster' => \A d : Whole(d) => Whole(d)'
  BY DEF Whole, Objects
<1>2. ASSUME NEW op \in {"apply", "delete"}, Command(op)
      PROVE  (\A n \in DOMAIN stack' : There(n)) /\ ~At("record")'
  <2>1. /\ stack' = <<Frame(Root)>> /\ Frame(Root).at = "begin" /\ Frame(Root).chart = Root
        /\ Frame(Root).subs = Subs[Root]
    BY <1>2 DEF Command, Frame
  <2> HIDE DEF Frame
  <2>2. DOMAIN stack' = 1..1 /\ stack'[1] = Frame(Root) /\ Last(stack') = Frame(Root)
    BY <2>1 DEF Last
  <2> QED
    BY <2>1, <2>2 DEF At
<1>3. CASE Fail
  BY <1>3 DEF Fail, At
\* the innermost call goes on, and no object is touched
<1>4. ASSUME stack # <<>>, cluster' = cluster, command' = command, NEW step \in Steps, Goto(step)
      PROVE  \A n \in DOMAIN stack' : There(n)
  <2> SUFFICES ASSUME NEW n \in DOMAIN stack', NEW d \in Subs[stack'[n].chart] \ stack'[n].subs
               PROVE  \/ Whole(d)'
                      \/ n < Len(stack') /\ d = stack'[n + 1].chart
    OBVIOUS
  <2>1. n \in DOMAIN stack /\ d \in Subs[stack[n].chart] \ stack[n].subs
    BY <1>4, GotoProperties
  <2>2. Len(stack') = Len(stack) /\ (n < Len(stack) => n + 1 \in DOMAIN stack)
    BY <1>4, <2>1, GotoProperties, StackFacts
  <2>3. n < Len(stack) => stack'[n + 1].chart = stack[n + 1].chart
    BY <1>4, <2>2, GotoProperties
  <2> QED
    BY <1>0, <1>1, <1>4, <2>1, <2>2, <2>3 DEF SubsApplied
<1>5. ASSUME stack # <<>>, NEW step \in Steps, Goto(step)
      PROVE  Top'.at = step /\ Top'.chart = Top.chart
  BY <1>5, GotoProperties
<1>6. CASE Begin
  <2>1. stack # <<>> /\ cluster' = cluster /\ command' = command
        /\ Goto(IF command = "delete" THEN "unrecord" ELSE "subs")
    BY <1>6 DEF Begin, At
  <2>2. Goto("subs")
    BY <1>1, <2>1
  <2> QED
    BY <1>1, <1>4, <1>5, <2>1, <2>2 DEF Steps, At, Top
<1>7. CASE Unrecord
  BY <1>1, <1>4, <1>5, <1>7 DEF Unrecord, Steps, At, Top
<1>8. CASE SubChart
  <2>1. stack # <<>> /\ cluster' = cluster /\ command' = command
    BY <1>8 DEF SubChart, At
  <2>2. PICK c \in Top.subs : stack' = Append(Replaced([Top EXCEPT !.subs = @ \ {c}]), Frame(c))
    BY <1>8 DEF SubChart
  <2>3. c \in Charts /\ Top \in FrameSet /\ Top = stack[Len(stack)]
        /\ DOMAIN stack = 1..Len(stack) /\ Len(stack) \in Nat \ {0}
    BY <2>1, StackFacts DEF FrameSet
  <2>4. /\ DOMAIN stack' = 1..(Len(stack) + 1) /\ Len(stack') = Len(stack) + 1
        /\ \A m \in DOMAIN stack : m # Len(stack) => stack'[m] = stack[m]
        /\ stack'[Len(stack)] = [Top EXCEPT !.subs = @ \ {c}]
        /\ stack'[Len(stack) + 1] = Frame(c) /\ Top' = Frame(c)
    BY <2>1, <2>2, <2>3, SubChartProperties
  <2>5. Frame(c).at = "begin" /\ Frame(c).chart = c /\ Frame(c).subs = Subs[c]
    BY DEF Frame
  <2>6. ASSUME NEW n \in DOMAIN stack', NEW d \in Subs[stack'[n].chart] \ stack'[n].subs
        PROVE  \/ Whole(d)'
               \/ n < Len(stack') /\ d = stack'[n + 1].chart
    <3>1. CASE n = Len(stack) + 1
      BY <2>4, <2>5, <2>6, <3>1
    <3>2. CASE n = Len(stack)
      <4>1. n \in DOMAIN stack /\ n + 1 = Len(stack) + 1 /\ n < Len(stack') /\ ~(n < Len(stack))
        BY <2>3, <2>4, <3>2
      <4>2. d = c \/ d \in Subs[stack[n].chart] \ stack[n].subs
        BY <2>3, <2>4, <2>6, <3>2 DEF FrameSet
      <4>3. CASE d = c
        BY <2>4, <2>5, <4>1, <4>3
      <4>4. CASE d \in Subs[stack[n].chart] \ stack[n].subs
        BY <1>0, <1>1, <2>1, <4>1, <4>4 DEF SubsApplied
      <4> QED
        BY <4>2, <4>3, <4>4
    <3>3. CASE n \notin {Len(stack), Len(stack) + 1}
      <4>1. n \in DOMAIN stack /\ n + 1 \in DOMAIN stack /\ n < Len(stack) /\ n < Len(stack')
        BY <2>3, <2>4, <3>3
      <4>2. stack'[n] = stack[n] /\ stack'[n + 1].chart = stack[n + 1].chart
        BY <2>3, <2>4, <3>3, <4>1 DEF FrameSet
      <4> QED
        BY <1>0, <1>1, <2>1, <2>6, <4>1, <4>2 DEF SubsApplied
    <3> QED
      BY <3>1, <3>2, <3>3
  <2> QED
    BY <2>4, <2>5, <2>6 DEF At, Top
<1>9. CASE Local
  BY <1>1, <1>4, <1>5, <1>9 DEF Local, Steps, At, Top
<1>10. CASE Sort
  BY <1>1, <1>4, <1>5, <1>10 DEF Sort, Steps, At, Top
<1>11. CASE Collect \/ Kubectl \/ UNCHANGED vars
  <2>1. stack' = stack /\ command' = command /\ cluster \subseteq cluster'
    BY <1>1, <1>11 DEF Collect, Kubectl, vars
  <2>2. Objects(Top.chart)' = Objects(Top.chart)
    BY <2>1 DEF Top, Objects
  <2> QED
    BY <1>0, <1>1, <2>1, <2>2 DEF SubsApplied, At
<1>12. CASE Exits
  <2>1. At("kubectl") /\ cluster' = cluster /\ command' = command /\ objs = <<>>
    BY <1>12 DEF Exits
  <2>2. CASE stack' = <<>>
    BY <2>2 DEF At
  <2>3. CASE Objects(Top.chart) \cap refused = {} /\ Goto("record")
    <3>1. \A n \in DOMAIN stack' : There(n)
      BY <2>1, <2>3, <1>4 DEF At, Steps
    <3>2. Objects(Top.chart) \subseteq cluster
      BY <1>1, <2>1, <2>3 DEF Complete, Treated
    <3>3. Objects(Top.chart)' = Objects(Top.chart)
      BY <1>5, <2>1, <2>3 DEF At, Steps, Objects
    <3> QED
      BY <2>1, <3>1, <3>2, <3>3
  <2> QED
    BY <1>1, <1>12, <2>1, <2>2, <2>3 DEF Exits
<1>13. CASE Record
  <2>1. /\ stack # <<>> /\ stack' = Front(stack) /\ cluster' = cluster /\ command' = command
    BY <1>1, <1>13 DEF Record, Return, At
  <2> PICK c : c = Top.chart
    OBVIOUS
  <2>9. Whole(c)
    BY <1>1, <1>13, TopWhole DEF Record
  <2>2. /\ Len(stack') = Len(stack) - 1 /\ DOMAIN stack' = 1..(Len(stack) - 1)
        /\ \A n \in DOMAIN stack' : stack'[n] = stack[n]
        /\ DOMAIN stack = 1..Len(stack) /\ Len(stack) \in Nat \ {0}
        /\ Top = stack[Len(stack)]
        /\ stack' # <<>> => Top' = stack[Len(stack) - 1]
        /\ stack' = <<>> <=> Len(stack) = 1
    BY <2>1, ReturnProperties, StackFacts
  <2>3. ASSUME NEW n \in DOMAIN stack', NEW d \in Subs[stack'[n].chart] \ stack'[n].subs
        PROVE  \/ Whole(d)'
               \/ n < Len(stack') /\ d = stack'[n + 1].chart
    <3>1. n \in DOMAIN stack /\ stack'[n] = stack[n]
      BY <2>2
    <3>2. Whole(d) \/ d = stack[n + 1].chart
      BY <1>1, <2>1, <2>3, <3>1 DEF SubsApplied
    <3>3. CASE n + 1 = Len(stack)
      BY <1>0, <2>1, <2>2, <2>9, <3>2, <3>3
    <3>4. CASE n + 1 # Len(stack)
      <4>1. n + 1 \in DOMAIN stack' /\ n < Len(stack')
        BY <2>2, <3>4
      <4> QED
        BY <1>0, <2>1, <2>2, <3>2, <4>1
    <3> QED
      BY <3>3, <3>4
  <2>4. ~At("record")'
    <3>1. stack' # <<>> => Len(stack) - 1 \in DOMAIN stack /\ Len(stack) - 1 < Len(stack)
      BY <2>2
    <3> QED
      BY <2>2, <3>1 DEF At, Top, Frames
  <2> QED
    BY <2>3, <2>4
<1> QED
  BY <1>2, <1>3, <1>6, <1>7, <1>8, <1>9, <1>10, <1>11, <1>12, <1>13 DEF Next

\* An object is removed only while its chart and the chart above it have no record.
LEMMA RecordHonestStep ==
    ASSUME TypeOK, Frames, Complete, SubsApplied, Unrecorded, RecordHonest, [Next]_vars
    PROVE  RecordHonest'
<1>1. CASE record' \subseteq record /\ cluster \subseteq cluster'
  BY <1>1 DEF RecordHonest, Objects
<1>2. CASE Kubectl /\ command = "delete"
  <2> PICK o : o = Head(objs)
    OBVIOUS
  <2>1. /\ At("kubectl") /\ stack # <<>> /\ Top.at = "kubectl" /\ record' = record
        /\ cluster \ {o} \subseteq cluster' /\ objs # <<>>
    BY <1>2 DEF Kubectl, At, Top
  <2>2. o \in Objects(Top.chart)
    <3>1. objs \in Seq(AllObjects)
      BY DEF TypeOK
    <3>2. 1 \in DOMAIN objs /\ o = objs[1]
      BY <2>1, <3>1, TailFacts
    <3> QED
      BY <2>1, <3>2 DEF Complete
  <2>3. /\ Len(stack) \in DOMAIN stack /\ Top = stack[Len(stack)]
        /\ DOMAIN stack = 1..Len(stack) /\ Len(stack) \in Nat \ {0}
        /\ \A n \in DOMAIN stack : stack[n].chart \in Charts
    BY <2>1, StackFacts DEF FrameSet
  <2>4. Top.chart \notin record
    BY <1>2, <2>1, <2>3 DEF Unrecorded
  <2>5. ASSUME NEW c \in record PROVE Top.chart \notin Tree(c)
    <3> DEFINE others == {d \in Charts : \A n \in DOMAIN stack : d # stack[n].chart}
    <3>1. \A n \in DOMAIN stack : stack[n].chart \notin record
      <4>1. \A n \in DOMAIN stack : n < Len(stack) => stack[n].at = "subs"
        BY DEF Frames
      <4>2. \A n \in DOMAIN stack : n < Len(stack) \/ n = Len(stack)
        BY <2>3
      <4> QED
        BY <1>2, <2>1, <2>3, <4>1, <4>2 DEF Unrecorded
    <3>2. c \in others
      BY <2>5, <3>1 DEF TypeOK
    <3>3. Closed(others)
      <4> SUFFICES ASSUME NEW d \in others, NEW e \in Subs[d],
                          NEW n \in DOMAIN stack, e = stack[n].chart
                   PROVE  FALSE
        BY TreeAssumption DEF Closed
      <4>1. e # Root
        BY TreeAssumption
      <4>2. n \in 2..Len(stack) /\ n - 1 \in DOMAIN stack
        BY <2>3, <4>1 DEF TypeOK
      <4>3. e \in Subs[stack[n - 1].chart] /\ stack[n - 1].chart \in Charts
        BY <2>3, <4>2 DEF TypeOK
      <4> QED
        BY <4>2, <4>3, TreeAssumption
    <3>4. Top.chart \notin others
      BY <2>3
    <3> QED
      BY <3>2, <3>3, <3>4 DEF Tree
  <2>6. ASSUME NEW c \in record, NEW d \in Tree(c) PROVE Objects(d) \subseteq cluster'
    <3>1. d # Top.chart
      BY <2>5
    <3>2. o \notin Objects(d)
      BY <2>2, <3>1 DEF Objects
    <3> QED
      BY <2>1, <3>2 DEF RecordHonest
  <2> QED
    BY <2>1, <2>6 DEF RecordHonest, Objects
<1>3. CASE Record
  <2>1. cluster' = cluster /\ record' \subseteq record \cup {Top.chart}
    BY <1>3 DEF Record
  <2>2. \A c \in record \cup {Top.chart} : \A d \in Tree(c) : Objects(d) \subseteq cluster
    BY <1>3, TopWhole DEF Record, RecordHonest, Whole
  <2> QED
    BY <2>1, <2>2 DEF RecordHonest, Objects
<1>4. CASE Kubectl /\ command # "delete"
  <2>1. command = "apply" /\ record' = record /\ cluster \subseteq cluster'
    BY <1>4, TopFacts DEF Kubectl, TypeOK
  <2> QED
    BY <1>1, <2>1
<1> QED
  BY <1>1, <1>2, <1>3, <1>4
     DEF Next, vars, Command, Fail, Begin, Unrecord, SubChart, Local, Collect, Sort, Exits

\* A command ends without an error only at the end of the root.
LEMMA AppliedStep ==
    ASSUME TypeOK, Frames, SubsApplied, AppliedIsThere, [Next]_vars
    PROVE  AppliedIsThere'
<1>1. CASE result' \in {"running", "failed"}
  BY <1>1 DEF AppliedIsThere
<1>2. ASSUME stack # <<>>, UNCHANGED result PROVE result' = "running"
  BY <1>2 DEF TypeOK
<1>3. CASE Record
  <2>1. cluster' = cluster /\ Return /\ stack # <<>>
    BY <1>3 DEF Record, At
  <2>2. CASE Len(stack) = 1
    <3>1. Top.chart = Root
      <4>1. 1 \in DOMAIN stack /\ Top = stack[1]
        BY <2>1, <2>2, StackFacts
      <4> QED
        BY <4>1 DEF TypeOK
    <3>2. Whole(Root)
      BY <1>3, <3>1, TopWhole DEF Record
    <3> QED
      BY <2>1, <3>2 DEF AppliedIsThere, Whole, Objects
  <2>3. CASE Len(stack) # 1
    BY <1>1, <1>2, <2>1, <2>3 DEF Return
  <2> QED
    BY <2>2, <2>3
<1>4. CASE Exits
  <2>1. stack # <<>> /\ (command' = "apply" => result' \in {result, "failed"})
    BY <1>4 DEF Exits, At
  <2> QED
    BY <1>2, <2>1 DEF AppliedIsThere
<1>5. CASE UNCHANGED vars
  BY <1>5 DEF vars, AppliedIsThere, Whole, Objects
<1> QED
  BY <1>1, <1>2, <1>3, <1>4, <1>5
     DEF Next, Command, Fail, Begin, Unrecord, SubChart, Local, Collect, Sort, Kubectl, At

-----------------------------------------------------------------------------
(* The order of objects *)

LEMMA OrdinalIsNat == \A o : kindOrdinal(o) \in Nat
<1> DEFINE Places == {n \in DOMAIN InstallKinds : TRUE}
<1>1. DOMAIN InstallKinds \subseteq Nat
  BY DEF InstallKinds
<1> SUFFICES ASSUME NEW o PROVE kindOrdinal(o) \in Nat
  OBVIOUS
<1> DEFINE Found == \E n \in DOMAIN InstallKinds : InstallKinds[n] = o[2].kind
<1>2. CASE Found
  BY <1>1, <1>2 DEF kindOrdinal
<1>3. CASE ~Found
  BY <1>3 DEF kindOrdinal
<1> QED
  BY <1>2, <1>3

\* The object at the front is the first of what is left: none that is left is to be
\* installed before it, or removed before it.
LEMMA FrontIsFirst ==
    ASSUME TypeOK, Frames, Complete, Ordered, At("kubectl"), objs # <<>>,
           NEW o \in Objects(Top.chart), o # Head(objs), ~Treated(o)
    PROVE  IF command = "delete" THEN ~(kindOrdinal(Head(objs)) < kindOrdinal(o))
                                 ELSE ~(kindOrdinal(o) < kindOrdinal(Head(objs)))
<1>1. PICK n \in DOMAIN objs : objs[n] = o
  BY DEF Complete
<1>2. objs \in Seq(AllObjects)
  BY DEF TypeOK
<1>3. 1 \in DOMAIN objs /\ Head(objs) = objs[1] /\ n \in 1..Len(objs)
  BY <1>2, TailFacts, LenProperties
<1>4. 1 < n
  BY <1>1, <1>3
<1> QED
  BY <1>1, <1>3, <1>4 DEF Ordered, Before

LEMMA PrerequisitesStep ==
    ASSUME TypeOK, Frames, Complete, Ordered, PrerequisitesFirst, [Next]_vars
    PROVE  PrerequisitesFirst'
<1>1. CASE cluster' = cluster /\ refused' = refused
  BY <1>1 DEF PrerequisitesFirst, Objects
<1>2. CASE Kubectl
  <2> PICK x : x = Head(objs)
    OBVIOUS
  <2>1. At("kubectl") /\ objs # <<>> /\ command \in {"apply", "delete"}
    BY <1>2, TopFacts DEF Kubectl, TypeOK
  <2>2. x \in Objects(Top.chart)
    <3>1. objs \in Seq(AllObjects)
      BY DEF TypeOK
    <3>2. 1 \in DOMAIN objs /\ x = objs[1]
      BY <2>1, <3>1, TailFacts
    <3> QED
      BY <2>1, <3>2 DEF Complete
  <2>3. SUFFICES ASSUME NEW c \in Charts, NEW o \in Objects(c), NEW p \in Objects(c),
                        o \in cluster', kindOrdinal(p) < kindOrdinal(o), p \notin cluster'
                 PROVE  {o, p} \cap refused' # {}
    BY DEF PrerequisitesFirst, Objects, kindOrdinal, InstallKinds
  <2>4. o # p
    BY <2>3, OrdinalIsNat
  <2>5. CASE refused' = refused \cup {x} /\ cluster' = cluster
    BY <2>3, <2>5 DEF PrerequisitesFirst
  <2>6. CASE command = "apply" /\ cluster' = cluster \cup {x} /\ refused' = refused \ {x}
    <3>1. p # x /\ p \notin cluster
      BY <2>3, <2>6
    <3>2. CASE o = x
      <4>1. c = Top.chart
        BY <2>2, <3>2 DEF Objects
      <4>2. Treated(p)
        BY <2>1, <2>3, <2>6, <3>1, <3>2, <4>1, FrontIsFirst
      <4> QED
        BY <2>6, <3>1, <4>2 DEF Treated
    <3>3. CASE o # x
      BY <2>3, <2>6, <3>1, <3>3 DEF PrerequisitesFirst
    <3> QED
      BY <3>2, <3>3
  <2>7. CASE command = "delete" /\ cluster' = cluster \ {x} /\ refused' = refused \ {x}
    <3>1. o # x /\ o \in cluster
      BY <2>3, <2>7
    <3>2. CASE p = x
      <4>1. c = Top.chart
        BY <2>2, <3>2 DEF Objects
      <4>2. Treated(o)
        BY <2>1, <2>3, <2>7, <3>1, <3>2, <4>1, FrontIsFirst
      <4> QED
        BY <2>7, <3>1, <4>2 DEF Treated
    <3>3. CASE p # x
      BY <2>3, <2>7, <3>1, <3>3 DEF PrerequisitesFirst
    <3> QED
      BY <3>2, <3>3
  <2> QED
    BY <1>2, <2>1, <2>5, <2>6, <2>7 DEF Kubectl
<1> QED
  BY <1>1, <1>2
     DEF Next, vars, Command, Fail, Begin, Unrecord, SubChart, Local, Collect, Sort, Exits, Record

-----------------------------------------------------------------------------
(* Theorems *)

LEMMA IInvInit == Init => IInv
<1> SUFFICES ASSUME Init PROVE IInv
  OBVIOUS
<1>1. StackOK
  BY EmptyStackOK DEF Init
<1>2. RestOK
  BY EmptySeq, BoundsAssumption DEF Init, RestOK
<1>3. TypeOK /\ Frames
  BY <1>1, <1>2, TypeParts
<1>4. Complete /\ Ordered
  BY DEF Init, Complete, Ordered, At
<1>5. SubsApplied /\ Unrecorded
  BY DEF Init, SubsApplied, Unrecorded
<1>6. RecordHonest /\ AppliedIsThere /\ PrerequisitesFirst
  BY DEF Init, RecordHonest, AppliedIsThere, PrerequisitesFirst
<1> QED
  BY <1>3, <1>4, <1>5, <1>6 DEF IInv

LEMMA IInvStep == IInv /\ [Next]_vars => IInv'
<1> SUFFICES ASSUME IInv, [Next]_vars PROVE IInv'
  OBVIOUS
<1>1. /\ TypeOK /\ Frames /\ Complete /\ Ordered /\ SubsApplied /\ Unrecorded
      /\ RecordHonest /\ AppliedIsThere /\ PrerequisitesFirst
  BY DEF IInv
<1>2. TypeOK' /\ Frames'
  BY <1>1, TypeStep
<1>3. Complete'
  BY <1>1, CompleteStep
<1>4. Ordered'
  BY <1>1, OrderedStep
<1>5. SubsApplied'
  BY <1>1, SubsAppliedStep
<1>6. Unrecorded'
  BY <1>1, UnrecordedStep
<1>7. RecordHonest'
  BY <1>1, RecordHonestStep
<1>8. PrerequisitesFirst'
  BY <1>1, PrerequisitesStep
<1>9. AppliedIsThere'
  BY <1>1, AppliedStep
<1> QED
  BY <1>2, <1>3, <1>4, <1>5, <1>6, <1>7, <1>8, <1>9 DEF IInv

\* The inductive invariant.
THEOREM Invariance == Spec => []IInv
<1> QED
  BY IInvInit, IInvStep, PTL DEF Spec

\* The calls of a command are a path of the tree, and every variable keeps its type.
THEOREM TypeCorrect == Spec => []TypeOK
<1>1. IInv => TypeOK
  BY DEF IInv
<1> QED
  BY <1>1, Invariance, PTL

\* An apply that ends without an error has left every object of the chart, and of the charts
\* below it, in the cluster.
THEOREM AppliedMeansThere == Spec => []AppliedIsThere
<1>1. IInv => AppliedIsThere
  BY DEF IInv
<1> QED
  BY <1>1, Invariance, PTL

\* A chart is recorded only while it is there with the charts below it, wherever a command ends.
THEOREM RecordsAreHonest == Spec => []RecordHonest
<1>1. IInv => RecordHonest
  BY DEF IInv
<1> QED
  BY <1>1, Invariance, PTL

\* Objects are installed and removed in order.
THEOREM PrerequisitesComeFirst == Spec => []PrerequisitesFirst
<1>1. IInv => PrerequisitesFirst
  BY DEF IInv
<1> QED
  BY <1>1, Invariance, PTL
=============================================================================
