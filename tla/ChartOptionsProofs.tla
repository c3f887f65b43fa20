-------------------------- MODULE ChartOptionsProofs --------------------------
(***************************************************************************)
(* Proofs about ChartOptions, for any keys, any tree of charts and any     *)
(* number of statements: what the command line sets reaches the chart, and *)
(* arguments stay in the branch of the sub chart they are given to.        *)
(***************************************************************************)
EXTENDS ChartOptions, FiniteSetTheorems, SequenceTheorems, TLAPS

-----------------------------------------------------------------------------
(* The invariant *)

\* A chart, with l dictionaries on the heap
ChartSet(l) == [at: {"none", "load", "body", "done"}, parent: 0..MaxCharts, dict: 0..l,
                params: SUBSET Keys, args: SUBSET Keys, values: Dictionaries]

\* Charts are numbered as they are made, and the root is the only one without a parent.
Tree ==
    /\ \E n \in Charts : Existing = 1..n
    /\ \A c \in Existing : IF c = 1 THEN Parent(c) = 0 ELSE Parent(c) \in Existing
    /\ \A c \in Existing : chart[c].at = "load" => chart[c].params = {}

\* newChart is called once for each.
Path ==
    /\ stack \in Seq(Charts)
    /\ \A n \in DOMAIN stack : stack[n] \in Existing
    /\ \A m, n \in DOMAIN stack : stack[m] = stack[n] => m = n

\* No init takes the key as a parameter, and no chart gets it as an argument.
Untouched(k) == \A c \in Existing : k \notin chart[c].params /\ k \notin chart[c].args

\* The first dictionary is that of the root, and keeps what the command line has set.
Kept ==
    given # {} =>
        /\ chart[1].dict = 1 /\ Len(heap) > 0
        /\ \A k \in given : Untouched(k) =>
              /\ heap[1][k] = Given
              /\ chart[1].at = "done" => chart[1].values[k] = Given

\* An argument that chart c sees was given in its own branch.
Held(v, c) == \A d \in Charts : v = Arg(d) => c # 1 /\ d \in Existing /\ SameBranch(c, d)

\* Without options on the command line there is no dictionary for the root, and only
\* charts of one branch share one.
Apart ==
    given = {} =>
        /\ chart[1].dict = Nil
        /\ \A c, d \in Existing :
              chart[c].dict # Nil /\ chart[c].dict = chart[d].dict => SameBranch(c, d)
        /\ \A c \in Existing, k \in Keys :
              /\ Held(chart[c].values[k], c)
              /\ chart[c].dict # Nil => Held(heap[chart[c].dict][k], c)

IInv == TypeOK /\ Tree /\ Path /\ Kept /\ Apart

-----------------------------------------------------------------------------
(* The stack and the tree *)

LEMMA FrontProperties ==
    ASSUME NEW S, NEW s \in Seq(S), NEW l \in Nat \ {0}, l = Len(s)
    PROVE  /\ Front(s) \in Seq(S) /\ DOMAIN Front(s) = 1..(l - 1)
           /\ \A n \in 1..(l - 1) : Front(s)[n] = s[n]
<1>1. \A n \in 1..l : s[n] \in S
  BY ElementOfSeq
<1>2. Front(s) \in Seq(S) /\ \A n \in 1..(l - 1) : Front(s)[n] = s[n]
  BY DEF Front
<1>3. Len(SubSeq(s, 1, l - 1)) = IF 1 <= l - 1 THEN l - 1 - 1 + 1 ELSE 0
  <2>1. l - 1 \in Int /\ \A i \in 1..(l - 1) : s[i] \in S
    BY <1>1
  <2> QED
    BY <2>1, SubSeqProperties
<1>4. Len(SubSeq(s, 1, l - 1)) = l - 1
  BY <1>3
<1>5. Len(Front(s)) = l - 1
  BY <1>4, Zenon DEF Front
<1> QED
  BY <1>2, <1>5, LenProperties

\* The chart that newChart is called for
LEMMA TopFacts ==
    ASSUME IInv, NEW pc, At(pc)
    PROVE  /\ Len(stack) \in Nat \ {0} /\ DOMAIN stack = 1..Len(stack)
           /\ Top = stack[Len(stack)] /\ Top \in Existing /\ Top \in Charts
           /\ chart[Top].at = pc /\ chart[Top] \in ChartSet(Len(heap)) /\ Len(heap) \in Nat
<1>1. stack \in Seq(Charts) /\ stack # <<>> /\ chart[Top].at = pc
  BY DEF IInv, Path, At, Top
<1>2. Len(stack) \in Nat \ {0} /\ DOMAIN stack = 1..Len(stack)
  BY <1>1, EmptySeq, LenProperties
<1>3. Top = stack[Len(stack)]
  BY DEF Top, Last
<1>4. Top \in Existing /\ Top \in Charts
  BY <1>2, <1>3 DEF IInv, Path, Existing
<1>5. chart[Top] \in ChartSet(Len(heap)) /\ Len(heap) \in Nat
  BY <1>4, LenProperties DEF IInv, TypeOK, ChartSet
<1> QED
  BY <1>1, <1>2, <1>3, <1>4, <1>5

LEMMA Connection ==
    ASSUME NEW c, NEW d, NEW e
    PROVE  /\ SameBranch(c, c)
           /\ SameBranch(c, d) /\ SameBranch(d, e) => SameBranch(c, e)
BY DEF SameBranch

\* Charts are only added, so that what belongs together stays together.
Grown == \A c \in Existing : c \in Existing' /\ Parent(c)' = Parent(c)

LEMMA BranchKept ==
    ASSUME Tree, Grown, NEW c \in Existing, NEW d \in Existing, SameBranch(c, d)
    PROVE  SameBranch(c, d)'
<1> SUFFICES ASSUME NEW S, S \subseteq Existing', d \in S, Connected(S)'
             PROVE  c \in S
  BY DEF SameBranch
<1>1. Connected(S \cap Existing)
  <2> SUFFICES ASSUME NEW x \in Existing, Parent(x) > 1
               PROVE  x \in S \cap Existing <=> Parent(x) \in S \cap Existing
    BY DEF Connected
  <2>1. Parent(x) \in Existing
    BY DEF Tree
  <2>2. x \in Existing' /\ Parent(x)' = Parent(x)
    BY DEF Grown
  <2>3. x \in S <=> Parent(x) \in S
    BY <2>2 DEF Connected
  <2> QED
    BY <2>1, <2>3
<1> QED
  BY <1>1 DEF SameBranch

LEMMA HeldKept ==
    ASSUME Tree, Grown, NEW c \in Existing, NEW v, Held(v, c)
    PROVE  Held(v, c)'
<1> SUFFICES ASSUME NEW d \in Charts, v = Arg(d)
             PROVE  c # 1 /\ d \in Existing' /\ SameBranch(c, d)'
  BY DEF Held
<1>1. c # 1 /\ d \in Existing /\ SameBranch(c, d)
  BY DEF Held
<1>2. SameBranch(c, d)'
  BY <1>1, BranchKept
<1> QED
  BY <1>1, <1>2 DEF Grown

\* One chart changes: t is r from now on.
Becomes(t, r) == chart' = [chart EXCEPT ![t] = r]

LEMMA OneChanges ==
    ASSUME IInv, NEW t \in Existing, NEW r, Becomes(t, r), r \in ChartSet(Len(heap)),
           r.at \in {"body", "done"}, r.parent = Parent(t)
    PROVE  /\ Existing' = Existing /\ chart'[t] = r
           /\ \A c \in Existing : c # t => chart'[c] = chart[c]
           /\ Grown /\ Tree' /\ t \in Charts
           /\ chart' \in [Charts -> ChartSet(Len(heap))]
<1>1. chart \in [Charts -> ChartSet(Len(heap))] /\ t \in Charts /\ Existing \subseteq Charts
  BY DEF IInv, TypeOK, ChartSet, Existing
<1>2. chart' \in [Charts -> ChartSet(Len(heap))] /\ chart'[t] = r
  BY <1>1 DEF Becomes
<1>3. \A c \in Charts : c # t => chart'[c] = chart[c]
  BY <1>1 DEF Becomes
<1>4. Existing' = Existing
  BY <1>1, <1>2, <1>3 DEF Existing
<1>5. \A c \in Existing : Parent(c)' = Parent(c)
  BY <1>1, <1>2, <1>3 DEF Parent
<1>6. Grown
  BY <1>4, <1>5 DEF Grown
<1>7. Tree'
  <2>1. \E n \in Charts : Existing = 1..n
    BY DEF IInv, Tree
  <2>2. \A c \in Existing : IF c = 1 THEN Parent(c) = 0 ELSE Parent(c) \in Existing
    BY DEF IInv, Tree
  <2>3. ASSUME NEW c \in Existing, chart'[c].at = "load" PROVE chart'[c].params = {}
    BY <1>1, <1>2, <1>3, <2>3 DEF IInv, Tree
  <2> QED
    BY <1>4, <1>5, <2>1, <2>2, <2>3 DEF Tree
<1> QED
  BY <1>1, <1>2, <1>3, <1>4, <1>6, <1>7

-----------------------------------------------------------------------------
(* Dictionaries *)

LEMMA ValueFacts ==
    /\ {Absent, Default, Assigned, Given, Nested} \subseteq Values
    /\ \A c \in Charts : Arg(c) \in Values
    /\ \A c : Arg(c) \notin {Absent, Default, Assigned, Given, Nested}
    /\ \A c, d : Arg(c) = Arg(d) => c = d
    /\ Given # Absent
BY DEF Values, Absent, Default, Assigned, Given, Nested, Arg

LEMMA WithoutFacts ==
    ASSUME heap \in Seq(Dictionaries), NEW dict \in 0..Len(heap), NEW keys, NEW h,
           h = Without(dict, keys)
    PROVE  /\ h \in Seq(Dictionaries) /\ Len(h) = Len(heap)
           /\ \A n \in 1..Len(heap), k \in Keys :
                 h[n][k] = IF n = dict /\ k \in keys THEN Absent ELSE heap[n][k]
<1> PICK l \in Nat : l = Len(heap)
  BY LenProperties
<1>1. CASE dict = Nil
  BY <1>1 DEF Without, Nil
<1>2. CASE dict # Nil
  <2>1. PICK d : d = [k \in Keys |-> IF k \in keys THEN Absent ELSE heap[dict][k]]
    OBVIOUS
  <2>2. dict \in 1..l /\ heap[dict] \in Dictionaries
    BY <1>2, ElementOfSeq DEF Nil
  <2>3. d \in Dictionaries
    BY <2>1, <2>2, ValueFacts DEF Dictionaries
  <2>4. h = [heap EXCEPT ![dict] = d]
    BY <1>2, <2>1 DEF Without
  <2>5. h \in Seq(Dictionaries) /\ Len(h) = Len(heap)
    BY <2>2, <2>3, <2>4, ExceptSeq
  <2>6. \A n \in 1..l : h[n] = IF n = dict THEN d ELSE heap[n]
    BY <2>2, <2>4, LenProperties
  <2> QED
    BY <2>1, <2>5, <2>6
<1> QED
  BY <1>1, <1>2

Nonempty(keys) == keys # {}

\* What is written for arguments lands in the dictionary there is, ...
LEMMA WithFacts ==
    ASSUME heap \in Seq(Dictionaries), NEW dict \in 1..Len(heap), NEW keys, Nonempty(keys),
           NEW value \in Values, NEW h, h = With(dict, keys, value)
    PROVE  /\ h \in Seq(Dictionaries) /\ Len(h) = Len(heap)
           /\ \A n \in 1..Len(heap), k \in Keys :
                 h[n][k] = IF n = dict /\ k \in keys THEN value ELSE heap[n][k]
<1> PICK l \in Nat : l = Len(heap)
  BY LenProperties
<1>1. PICK d : d = [k \in Keys |-> IF k \in keys THEN value ELSE heap[dict][k]]
  OBVIOUS
<1>2. dict \in 1..l /\ heap[dict] \in Dictionaries /\ dict # Nil
  BY ElementOfSeq DEF Nil
<1>3. d \in Dictionaries
  BY <1>1, <1>2 DEF Dictionaries
<1>4. h = [heap EXCEPT ![dict] = d]
  BY <1>1, <1>2 DEF With, Nonempty
<1>5. h \in Seq(Dictionaries) /\ Len(h) = Len(heap)
  BY <1>2, <1>3, <1>4, ExceptSeq
<1>6. \A n \in 1..l : h[n] = IF n = dict THEN d ELSE heap[n]
  BY <1>2, <1>4, LenProperties
<1> QED
  BY <1>1, <1>5, <1>6

\* ... or in one that is made for them.
LEMMA MadeFacts ==
    ASSUME heap \in Seq(Dictionaries), NEW keys, Nonempty(keys),
           NEW value \in Values, NEW h, h = With(Nil, keys, value)
    PROVE  /\ h \in Seq(Dictionaries) /\ Len(h) = Len(heap) + 1
           /\ \A n \in 1..Len(heap) : h[n] = heap[n]
           /\ \A k \in Keys : h[Len(heap) + 1][k] = IF k \in keys THEN value ELSE Absent
<1> PICK l \in Nat : l = Len(heap)
  BY LenProperties
<1>1. PICK d : d = [k \in Keys |-> IF k \in keys THEN value ELSE Absent]
  OBVIOUS
<1>2. d \in Dictionaries
  BY <1>1, ValueFacts DEF Dictionaries
<1>3. h = Append(heap, d)
  BY <1>1 DEF With, Contents, Nonempty
<1>4. h \in Seq(Dictionaries) /\ Len(h) = l + 1 /\ h[l + 1] = d /\ \A n \in 1..l : h[n] = heap[n]
  BY <1>2, <1>3, AppendProperties
<1> QED
  BY <1>1, <1>4

-----------------------------------------------------------------------------
(* The steps *)

LEMMA RootExists ==
    ASSUME IInv PROVE 1 \in Existing
BY BoundsAssumption DEF IInv, Tree, Charts

\* No chart is added, and none goes to another dictionary.
Steady ==
    /\ given' = given /\ Existing' = Existing /\ Grown /\ Tree'
    /\ \A c \in Existing : /\ chart'[c].dict = chart[c].dict
                           /\ chart[c].params \subseteq chart'[c].params
                           /\ chart[c].args \subseteq chart'[c].args
    /\ Len(heap') = Len(heap)

LEMMA KeptKept ==
    ASSUME IInv, Steady,
           \A k \in given : Untouched(k)' /\ heap[1][k] = Given /\ chart[1].dict = 1 =>
               /\ heap'[1][k] = Given
               /\ chart'[1].at = "done" => chart'[1] = chart[1] \/ chart'[1].values[k] = Given
    PROVE  Kept'
<1> SUFFICES ASSUME given # {}
             PROVE  /\ chart'[1].dict = 1 /\ Len(heap') > 0
                    /\ \A k \in given : Untouched(k)' =>
                          /\ heap'[1][k] = Given
                          /\ chart'[1].at = "done" => chart'[1].values[k] = Given
  BY DEF Kept, Steady
<1>1. chart[1].dict = 1 /\ Len(heap) > 0 /\ 1 \in Existing
  BY RootExists DEF IInv, Kept
<1>2. ASSUME NEW k \in given, Untouched(k)'
      PROVE  heap'[1][k] = Given /\ (chart'[1].at = "done" => chart'[1].values[k] = Given)
  <2>1. Untouched(k)
    BY <1>2 DEF Untouched, Steady
  <2>2. heap[1][k] = Given /\ (chart[1].at = "done" => chart[1].values[k] = Given)
    BY <2>1 DEF IInv, Kept
  <2> QED
    BY <1>1, <1>2, <2>2
<1> QED
  BY <1>1, <1>2 DEF Steady

LEMMA ApartKept ==
    ASSUME IInv, Steady,
           \A n \in 1..Len(heap), k \in Keys : heap'[n][k] = Absent \/ heap'[n][k] = heap[n][k],
           given = {} => \A c \in Existing, k \in Keys : Held(chart'[c].values[k], c)
    PROVE  Apart'
<1> SUFFICES ASSUME given = {} PROVE Apart'
  BY DEF Apart, Steady
<1>1. /\ chart[1].dict = Nil /\ 1 \in Existing
      /\ \A c, d \in Existing :
            chart[c].dict # Nil /\ chart[c].dict = chart[d].dict => SameBranch(c, d)
      /\ \A c \in Existing, k \in Keys :
            chart[c].dict # Nil => Held(heap[chart[c].dict][k], c)
  BY RootExists DEF IInv, Apart
<1>2. Tree /\ Grown /\ Existing' = Existing
      /\ \A c \in Existing : chart'[c].dict = chart[c].dict
  BY DEF IInv, Steady
<1>3. ASSUME NEW c \in Existing, NEW d \in Existing, chart'[c].dict # Nil,
             chart'[c].dict = chart'[d].dict
      PROVE  SameBranch(c, d)'
  BY <1>1, <1>2, <1>3, BranchKept
<1>4. ASSUME NEW c \in Existing, NEW k \in Keys PROVE Held(chart[c].values[k], c)'
  <2>1. PICK v : v = chart'[c].values[k]
    OBVIOUS
  <2>2. Held(v, c)
    BY <2>1
  <2>3. Held(v, c)'
    BY <1>2, <2>2, HeldKept
  <2> QED
    BY <2>1, <2>3
<1>5. ASSUME NEW c \in Existing, NEW k \in Keys, chart'[c].dict # Nil
      PROVE  Held(heap[chart[c].dict][k], c)'
  <2>1. PICK v : v = heap'[chart'[c].dict][k]
    OBVIOUS
  <2>2. chart'[c].dict = chart[c].dict /\ chart[c].dict \in 1..Len(heap)
    <3>1. chart[c] \in ChartSet(Len(heap)) /\ Len(heap) \in Nat
      BY LenProperties DEF IInv, TypeOK, Existing, ChartSet
    <3> QED
      BY <1>2, <1>5, <3>1 DEF ChartSet, Nil
  <2>3. Held(heap[chart[c].dict][k], c)
    BY <1>1, <1>5, <2>2
  <2>4. v = Absent \/ v = heap[chart[c].dict][k]
    BY <2>1, <2>2
  <2>5. Held(v, c)
    BY <2>3, <2>4, ValueFacts DEF Held
  <2>6. Held(v, c)'
    BY <1>2, <2>5, HeldKept
  <2> QED
    BY <2>1, <2>6
<1> QED
  BY <1>1, <1>2, <1>3, <1>4, <1>5 DEF Apart

LEMMA LoadInv ==
    ASSUME IInv, Load PROVE IInv'
<1>1. PICK params \in KeySets :
         /\ chart' = [chart EXCEPT ![Top].at = "body", ![Top].params = params,
                                   ![Top].values = [k \in Keys |-> Default]]
         /\ heap' = Without(chart[Top].dict, params)
  BY DEF Load
<1>2. PICK t : t = Top
  OBVIOUS
<1>3. PICK r : r = [chart[t] EXCEPT !.at = "body", !.params = params,
                                    !.values = [k \in Keys |-> Default]]
  OBVIOUS
<1>4. /\ At("load") /\ given' = given /\ stack' = stack /\ statements' = statements
  BY DEF Load
<1>5. /\ t \in Existing /\ t \in Charts /\ chart[t] \in ChartSet(Len(heap)) /\ chart[t].at = "load"
      /\ Len(heap) \in Nat /\ DOMAIN stack = 1..Len(stack)
  BY <1>2, <1>4, TopFacts
<1>6. /\ r \in ChartSet(Len(heap)) /\ r.at = "body" /\ r.parent = Parent(t)
      /\ r.dict = chart[t].dict /\ r.args = chart[t].args /\ r.params = params
      /\ \A k \in Keys : r.values[k] = Default
  <2>1. params \subseteq Keys
    BY BoundsAssumption
  <2>2. [k \in Keys |-> Default] \in Dictionaries
    BY ValueFacts DEF Dictionaries
  <2> QED
    BY <1>3, <1>5, <2>1, <2>2 DEF ChartSet, Parent
<1>7. Becomes(t, r)
  BY <1>1, <1>2, <1>3 DEF Becomes, IInv, TypeOK
<1>8. /\ Existing' = Existing /\ chart'[t] = r
      /\ \A c \in Existing : c # t => chart'[c] = chart[c]
      /\ Grown /\ Tree' /\ chart' \in [Charts -> ChartSet(Len(heap))]
  BY <1>5, <1>6, <1>7, OneChanges
<1>9. /\ heap' \in Seq(Dictionaries) /\ Len(heap') = Len(heap)
      /\ \A n \in 1..Len(heap), k \in Keys :
            heap'[n][k] = IF n = r.dict /\ k \in params THEN Absent ELSE heap[n][k]
  <2>1. heap \in Seq(Dictionaries) /\ chart[t].dict \in 0..Len(heap)
    BY <1>5 DEF IInv, TypeOK, ChartSet
  <2> QED
    BY <1>1, <1>2, <1>6, <2>1, WithoutFacts
<1>10. /\ \A c \in Existing : chart'[c].parent = chart[c].parent /\ chart'[c].dict = chart[c].dict
       /\ \A c \in Existing : chart[c].at = "done" <=> chart'[c].at = "done"
       /\ \A c \in Existing : chart[c].params \subseteq chart'[c].params
                              /\ chart[c].args \subseteq chart'[c].args
  BY <1>5, <1>6, <1>8 DEF IInv, Tree, Parent
<1>11. Path' /\ TypeOK'
  <2>1. \A n \in DOMAIN stack : stack[n] \in Existing
    BY DEF IInv, Path
  <2>2. \A n \in DOMAIN stack : chart'[stack[n]].parent = IF n = 1 THEN 0 ELSE stack[n - 1]
    BY <1>10, <2>1 DEF IInv, TypeOK
  <2>3. \A c \in Existing : chart'[c].at = "done" <=> c \notin {stack[n] : n \in DOMAIN stack}
    BY <1>10 DEF IInv, TypeOK
  <2>4. Path'
    BY <1>4, <1>8 DEF IInv, Path
  <2> QED
    BY <1>4, <1>8, <1>9, <2>2, <2>3, <2>4 DEF IInv, TypeOK, ChartSet
<1>12. Steady
  BY <1>4, <1>8, <1>9, <1>10 DEF Steady
<1>13. Kept'
  <2>1. ASSUME NEW k \in given, Untouched(k)', heap[1][k] = Given, chart[1].dict = 1
        PROVE  /\ heap'[1][k] = Given
               /\ chart'[1].at = "done" => chart'[1] = chart[1]
    <3>1. k \in Keys /\ k \notin params
      BY <1>5, <1>6, <1>8, <2>1 DEF Untouched, IInv, TypeOK
    <3>2. 1 \in 1..Len(heap)
      BY <1>5, <2>1 DEF IInv, Kept
    <3>3. heap'[1][k] = Given
      BY <1>9, <2>1, <3>1, <3>2
    <3> QED
      BY <1>6, <1>8, <3>3, RootExists
  <2> QED
    BY <1>12, <2>1, KeptKept
<1>14. Apart'
  <2>1. ASSUME given = {}, NEW c \in Existing, NEW k \in Keys
        PROVE  Held(chart'[c].values[k], c)
    <3>1. Held(chart[c].values[k], c)
      BY <2>1 DEF IInv, Apart
    <3> QED
      BY <1>6, <1>8, <3>1, ValueFacts DEF Held
  <2> QED
    BY <1>9, <1>12, <2>1, ApartKept
<1> QED
  BY <1>8, <1>11, <1>13, <1>14 DEF IInv

LEMMA AssignInv ==
    ASSUME IInv, Assign PROVE IInv'
<1>1. PICK c, key : c \in Existing /\ key \in Keys
         /\ (c = Top \/ (chart[c].parent = Top /\ chart[c].at = "done"))
         /\ chart' = [chart EXCEPT ![c].values[key] = Assigned]
  BY DEF Assign
<1>2. PICK r : r = [chart[c] EXCEPT !.values[key] = Assigned]
  OBVIOUS
<1>3. /\ At("body") /\ given' = given /\ stack' = stack /\ heap' = heap
      /\ statements < MaxStatements /\ statements' = statements + 1
  BY DEF Assign
<1>4. /\ c \in Charts /\ chart[c] \in ChartSet(Len(heap)) /\ chart[c].at \in {"body", "done"}
      /\ c = 1 => chart[c].at = "body"
  <2>1. Top \in Existing /\ Top \in Charts /\ chart[Top].at = "body"
    BY <1>3, TopFacts
  <2>2. c = 1 => Parent(c) = 0
    BY <1>1 DEF IInv, Tree
  <2>3. 0 \notin Charts
    BY DEF Charts
  <2> QED
    BY <1>1, <2>1, <2>2, <2>3 DEF IInv, TypeOK, ChartSet, Existing, Parent
<1>5. /\ r \in ChartSet(Len(heap)) /\ r.at = chart[c].at /\ r.parent = Parent(c)
      /\ r.dict = chart[c].dict /\ r.args = chart[c].args /\ r.params = chart[c].params
      /\ \A k \in Keys : r.values[k] \in {Assigned, chart[c].values[k]}
  <2>1. PICK v : v = [chart[c].values EXCEPT ![key] = Assigned]
    OBVIOUS
  <2>2. v \in Dictionaries /\ \A k \in Keys : v[k] \in {Assigned, chart[c].values[k]}
    <3>1. chart[c].values \in Dictionaries /\ Assigned \in Values
      BY <1>4, ValueFacts DEF ChartSet
    <3> QED
      BY <1>1, <2>1, <3>1 DEF Dictionaries
  <2>3. r = [chart[c] EXCEPT !.values = v]
    BY <1>2, <2>1
  <2> QED
    BY <1>4, <2>2, <2>3 DEF ChartSet, Parent
<1>6. Becomes(c, r)
  BY <1>1, <1>2 DEF Becomes
<1>7. /\ Existing' = Existing /\ chart'[c] = r
      /\ \A x \in Existing : x # c => chart'[x] = chart[x]
      /\ Grown /\ Tree' /\ chart' \in [Charts -> ChartSet(Len(heap))]
  BY <1>1, <1>4, <1>5, <1>6, OneChanges
<1>8. /\ \A x \in Existing : chart'[x].parent = chart[x].parent /\ chart'[x].dict = chart[x].dict
      /\ \A x \in Existing : chart'[x].at = chart[x].at
      /\ \A x \in Existing : chart'[x].params = chart[x].params /\ chart'[x].args = chart[x].args
  BY <1>5, <1>7 DEF Parent
<1>9. Path' /\ TypeOK'
  <2>1. \A n \in DOMAIN stack : stack[n] \in Existing
    BY DEF IInv, Path
  <2>2. \A n \in DOMAIN stack : chart'[stack[n]].parent = IF n = 1 THEN 0 ELSE stack[n - 1]
    BY <1>8, <2>1 DEF IInv, TypeOK
  <2>3. \A x \in Existing : chart'[x].at = "done" <=> x \notin {stack[n] : n \in DOMAIN stack}
    BY <1>8 DEF IInv, TypeOK
  <2>4. Path'
    BY <1>3, <1>7 DEF IInv, Path
  <2>5. statements' \in 0..MaxStatements
    BY <1>3, BoundsAssumption DEF IInv, TypeOK
  <2> QED
    BY <1>3, <1>7, <2>2, <2>3, <2>4, <2>5 DEF IInv, TypeOK, ChartSet
<1>10. Steady
  BY <1>3, <1>7, <1>8 DEF Steady
<1>11. Kept'
  <2>1. chart'[1].at = "done" => chart'[1] = chart[1]
    BY <1>4, <1>5, <1>7, RootExists
  <2> QED
    BY <1>3, <1>10, <2>1, KeptKept
<1>12. Apart'
  <2>1. ASSUME given = {}, NEW x \in Existing, NEW k \in Keys
        PROVE  Held(chart'[x].values[k], x)
    <3>1. Held(chart[x].values[k], x)
      BY <2>1 DEF IInv, Apart
    <3> QED
      BY <1>5, <1>7, <3>1, ValueFacts DEF Held
  <2> QED
    BY <1>3, <1>10, <2>1, ApartKept
<1> QED
  BY <1>7, <1>9, <1>11, <1>12 DEF IInv

LEMMA FinishInv ==
    ASSUME IInv, Finish PROVE IInv'
<1>1. PICK nested \in KeySets :
         /\ chart[Top].parent = 0 => nested = {}
         /\ chart' = [chart EXCEPT
                        ![Top].at = "done",
                        ![Top].values = [k \in Keys |-> IF k \in nested THEN Nested
                                                        ELSE Overlaid(@, Contents(chart[Top].dict))[k]]]
  BY DEF Finish
<1>2. PICK t : t = Top
  OBVIOUS
<1>3. PICK d : d = Contents(chart[t].dict)
  OBVIOUS
<1>4. PICK v : v = [k \in Keys |-> IF k \in nested THEN Nested ELSE Overlaid(chart[t].values, d)[k]]
  OBVIOUS
<1>5. PICK r : r = [chart[t] EXCEPT !.at = "done", !.values = v]
  OBVIOUS
<1>6. At("body") /\ given' = given /\ heap' = heap /\ statements' = statements /\ stack' = Front(stack)
  BY DEF Finish
<1>7. PICK l \in Nat \ {0} : l = Len(stack)
  BY <1>6, TopFacts
<1>8. /\ DOMAIN stack = 1..l /\ t = stack[l] /\ t \in Existing /\ t \in Charts
      /\ chart[t].at = "body" /\ chart[t] \in ChartSet(Len(heap)) /\ Len(heap) \in Nat
  BY <1>2, <1>6, <1>7, TopFacts
<1>9. /\ d \in Dictionaries
      /\ \A k \in Keys : d[k] = IF chart[t].dict = Nil THEN Absent ELSE heap[chart[t].dict][k]
  <2>1. CASE chart[t].dict = Nil
    BY <1>3, <2>1, ValueFacts DEF Contents, Dictionaries
  <2>2. CASE chart[t].dict # Nil
    <3>1. heap \in Seq(Dictionaries) /\ chart[t].dict \in 1..Len(heap)
      BY <1>8, <2>2 DEF IInv, TypeOK, ChartSet, Nil
    <3> QED
      BY <1>3, <2>2, <3>1, ElementOfSeq DEF Contents
  <2> QED
    BY <2>1, <2>2
<1>10. /\ v \in Dictionaries
       /\ \A k \in Keys : v[k] = IF k \in nested THEN Nested
                                 ELSE IF d[k] = Absent THEN chart[t].values[k] ELSE d[k]
  <2>1. chart[t].values \in Dictionaries /\ Nested \in Values
    BY <1>8, ValueFacts DEF ChartSet
  <2> QED
    BY <1>4, <1>9, <2>1 DEF Overlaid, Dictionaries
<1>11. /\ r \in ChartSet(Len(heap)) /\ r.at = "done" /\ r.parent = Parent(t)
       /\ r.dict = chart[t].dict /\ r.args = chart[t].args /\ r.params = chart[t].params
       /\ r.values = v
  BY <1>5, <1>8, <1>10 DEF ChartSet, Parent
<1>12. Becomes(t, r)
  BY <1>1, <1>2, <1>3, <1>4, <1>5 DEF Becomes, IInv, TypeOK
<1>13. /\ Existing' = Existing /\ chart'[t] = r
       /\ \A c \in Existing : c # t => chart'[c] = chart[c]
       /\ Grown /\ Tree' /\ chart' \in [Charts -> ChartSet(Len(heap))]
  BY <1>8, <1>11, <1>12, OneChanges
<1>14. /\ \A c \in Existing : chart'[c].parent = chart[c].parent /\ chart'[c].dict = chart[c].dict
       /\ \A c \in Existing : chart'[c].params = chart[c].params /\ chart'[c].args = chart[c].args
  BY <1>11, <1>13 DEF Parent
<1>15. Path' /\ TypeOK'
  <2>1. /\ stack' \in Seq(Charts) /\ DOMAIN stack' = 1..(l - 1)
        /\ \A n \in 1..(l - 1) : stack'[n] = stack[n]
    BY <1>6, <1>7, FrontProperties DEF IInv, Path
  <2>2. /\ \A n \in 1..l : stack[n] \in Existing
        /\ \A m, n \in 1..l : stack[m] = stack[n] => m = n
    BY <1>8 DEF IInv, Path
  <2>3. Path'
    BY <1>13, <2>1, <2>2 DEF Path
  <2>4. \A n \in 1..(l - 1) : chart'[stack'[n]].parent = IF n = 1 THEN 0 ELSE stack'[n - 1]
    <3> SUFFICES ASSUME NEW n \in 1..(l - 1)
                 PROVE  chart'[stack'[n]].parent = IF n = 1 THEN 0 ELSE stack'[n - 1]
      OBVIOUS
    <3>1. chart[stack[n]].parent = IF n = 1 THEN 0 ELSE stack[n - 1]
      <4>1. \A i \in DOMAIN stack : chart[stack[i]].parent = IF i = 1 THEN 0 ELSE stack[i - 1]
        BY DEF IInv, TypeOK
      <4>2. n \in DOMAIN stack
        BY <1>8
      <4> QED
        BY <4>1, <4>2
    <3>2. stack'[n] = stack[n] /\ stack[n] \in Existing /\ (n # 1 => stack'[n - 1] = stack[n - 1])
      BY <2>1, <2>2
    <3> QED
      BY <1>14, <3>1, <3>2
  <2>5. \A c \in Existing : chart'[c].at = "done" <=> c \notin {stack'[n] : n \in 1..(l - 1)}
    <3> SUFFICES ASSUME NEW c \in Existing
                 PROVE  chart'[c].at = "done" <=> c \notin {stack'[n] : n \in 1..(l - 1)}
      OBVIOUS
    <3>1. chart[c].at = "done" <=> c \notin {stack[n] : n \in 1..l}
      BY <1>8 DEF IInv, TypeOK
    <3>2. CASE c = t
      BY <1>8, <1>11, <1>13, <2>1, <2>2, <3>2
    <3>3. CASE c # t
      <4>1. c \in {stack[n] : n \in 1..l} <=> c \in {stack'[n] : n \in 1..(l - 1)}
        BY <1>8, <2>1, <3>3
      <4> QED
        BY <1>13, <3>1, <3>3, <4>1
    <3> QED
      BY <3>2, <3>3
  <2> QED
    BY <1>6, <1>13, <2>1, <2>3, <2>4, <2>5 DEF IInv, TypeOK, ChartSet
<1>16. Steady
  BY <1>6, <1>13, <1>14 DEF Steady
<1>17. Kept'
  <2>1. ASSUME NEW k \in given, heap[1][k] = Given, chart[1].dict = 1
        PROVE  chart'[1] = chart[1] \/ chart'[1].values[k] = Given
    <3>1. CASE t = 1
      <4>1. chart[t].parent = 0 /\ k \in Keys
        BY <1>8, <3>1 DEF IInv, Tree, TypeOK, Parent
      <4>2. nested = {}
        BY <1>1, <1>2, <4>1
      <4>3. d[k] = Given
        BY <1>9, <2>1, <3>1, <4>1 DEF Nil
      <4>4. v[k] = Given
        BY <1>10, <4>1, <4>2, <4>3, ValueFacts
      <4> QED
        BY <1>11, <1>13, <3>1, <4>4
    <3>2. CASE t # 1
      BY <1>13, <3>2, RootExists
    <3> QED
      BY <3>1, <3>2
  <2> QED
    BY <1>6, <1>16, <2>1, KeptKept
<1>18. Apart'
  <2>1. ASSUME given = {}, NEW c \in Existing, NEW k \in Keys
        PROVE  Held(chart'[c].values[k], c)
    <3>1. /\ Held(chart[c].values[k], c)
          /\ chart[c].dict # Nil => Held(heap[chart[c].dict][k], c)
      BY <2>1 DEF IInv, Apart
    <3>2. CASE c # t
      BY <1>13, <3>1, <3>2
    <3>3. CASE c = t
      <4>1. \/ v[k] \in {Nested, Absent}
            \/ v[k] = chart[t].values[k]
            \/ chart[t].dict # Nil /\ v[k] = heap[chart[t].dict][k]
        BY <1>9, <1>10
      <4>2. Held(v[k], c)
        BY <3>1, <3>3, <4>1, ValueFacts DEF Held
      <4> QED
        BY <1>11, <1>13, <3>3, <4>2
    <3> QED
      BY <3>2, <3>3
  <2> QED
    BY <1>6, <1>16, <2>1, ApartKept
<1> QED
  BY <1>13, <1>15, <1>17, <1>18 DEF IInv

\* The dictionary a sub chart gets, and what the arguments have made of the others
LEMMA CopiedFacts ==
    ASSUME heap \in Seq(Dictionaries), NEW old \in 0..Len(heap), NEW args, NEW value \in Values,
           NEW made, made = With(old, args, value),
           NEW dict, dict = IF Len(made) > Len(heap) THEN Len(made) ELSE old
    PROVE  /\ made \in Seq(Dictionaries) /\ Len(made) >= Len(heap) /\ dict \in 0..Len(made)
           /\ \A n \in 1..Len(heap), k \in Keys :
                 \/ made[n][k] = heap[n][k]
                 \/ n = old /\ k \in args /\ made[n][k] = value
           /\ \/ dict = old
              \/ dict = Len(heap) + 1 /\ \A k \in Keys : made[dict][k] \in {Absent, value}
<1> PICK l \in Nat : l = Len(heap)
  BY LenProperties
<1>1. CASE args = {}
  <2>1. made = heap
    BY <1>1 DEF With
  <2> QED
    BY <2>1
<1>2. CASE args # {} /\ old = Nil
  <2>1. /\ made \in Seq(Dictionaries) /\ Len(made) = l + 1
        /\ \A n \in 1..l : made[n] = heap[n]
        /\ \A k \in Keys : made[l + 1][k] = IF k \in args THEN value ELSE Absent
    <3>1. made = With(Nil, args, value) /\ Nonempty(args) /\ heap \in Seq(Dictionaries) /\ value \in Values
      BY <1>2 DEF Nonempty
    <3>2. /\ made \in Seq(Dictionaries) /\ Len(made) = Len(heap) + 1
          /\ \A n \in 1..Len(heap) : made[n] = heap[n]
          /\ \A k \in Keys : made[Len(heap) + 1][k] = IF k \in args THEN value ELSE Absent
      BY <3>1, MadeFacts
    <3> QED
      BY <3>2
  <2>2. dict = l + 1
    BY <2>1
  <2> QED
    BY <2>1, <2>2
<1>3. CASE args # {} /\ old # Nil
  <2>1. old \in 1..l
    BY <1>3 DEF Nil
  <2>2. /\ made \in Seq(Dictionaries) /\ Len(made) = l
        /\ \A n \in 1..l, k \in Keys :
              made[n][k] = IF n = old /\ k \in args THEN value ELSE heap[n][k]
    <3>1. old \in 1..Len(heap) /\ made = With(old, args, value) /\ Nonempty(args) /\ value \in Values
      BY <1>3, <2>1 DEF Nonempty
    <3>2. /\ made \in Seq(Dictionaries) /\ Len(made) = Len(heap)
          /\ \A n \in 1..Len(heap), k \in Keys :
                made[n][k] = IF n = old /\ k \in args THEN value ELSE heap[n][k]
      BY <3>1, WithFacts
    <3> QED
      BY <3>2
  <2>3. dict = old
    BY <2>2
  <2> QED
    BY <2>1, <2>2, <2>3
<1> QED
  BY <1>1, <1>2, <1>3

LEMMA SubChartInv ==
    ASSUME IInv, SubChart PROVE IInv'
<1>p. PICK p : p = Top
  OBVIOUS
<1>1. PICK c \in Charts, args \in KeySets :
         LET made == With(chart[p].dict, args, Arg(c))
             dict == IF Len(made) > Len(heap) THEN Len(made) ELSE chart[p].dict
         IN  /\ c = 1 + Cardinality(Existing)
             /\ heap' = made
             /\ chart' = [chart EXCEPT ![c] = NewChart(p, dict, args)]
             /\ stack' = Append(stack, c)
  BY <1>p DEF SubChart
<1>2. PICK dict : dict = IF Len(heap') > Len(heap) THEN Len(heap') ELSE chart[p].dict
  OBVIOUS
<1>3. /\ c = 1 + Cardinality(Existing) /\ heap' = With(chart[p].dict, args, Arg(c))
      /\ chart' = [chart EXCEPT ![c] = NewChart(p, dict, args)]
      /\ stack' = Append(stack, c)
      /\ given' = given /\ statements' = statements /\ At("body")
  BY <1>1, <1>2 DEF SubChart
<1>4. PICK l \in Nat \ {0} : l = Len(stack)
  BY <1>3, TopFacts
<1>5. PICK h \in Nat : h = Len(heap)
  BY <1>3, TopFacts
<1>6. /\ DOMAIN stack = 1..l /\ p = stack[l] /\ p \in Existing /\ p \in Charts
      /\ chart[p].at = "body" /\ chart[p] \in ChartSet(h)
  BY <1>p, <1>3, <1>4, <1>5, TopFacts
<1>7. /\ heap' \in Seq(Dictionaries) /\ Len(heap') >= h /\ dict \in 0..Len(heap')
      /\ \A n \in 1..h, k \in Keys :
            \/ heap'[n][k] = heap[n][k]
            \/ n = chart[p].dict /\ k \in args /\ heap'[n][k] = Arg(c)
      /\ \/ dict = chart[p].dict
         \/ dict = h + 1 /\ \A k \in Keys : heap'[dict][k] \in {Absent, Arg(c)}
  <2>1. heap \in Seq(Dictionaries) /\ chart[p].dict \in 0..Len(heap) /\ Arg(c) \in Values
    BY <1>5, <1>6, ValueFacts DEF IInv, TypeOK, ChartSet
  <2> QED
    BY <1>2, <1>3, <1>5, <2>1, CopiedFacts
<1>8. PICK m \in Nat : m = Len(heap')
  BY <1>7, LenProperties
<1>9. PICK size \in Charts : Existing = 1..size
  BY DEF IInv, Tree
<1>10. c = size + 1 /\ size \in Nat /\ size >= 1 /\ c \notin Existing
  <2>1. size \in Nat /\ size >= 1
    BY BoundsAssumption DEF Charts
  <2>2. Cardinality(1..size) = size
    BY <2>1, FS_Interval
  <2> QED
    BY <1>3, <1>9, <2>1, <2>2
<1>11. PICK r : r = NewChart(p, dict, args)
  OBVIOUS
<1>12. /\ r \in ChartSet(m) /\ r.at = "load" /\ r.parent = p /\ r.dict = dict
       /\ r.params = {} /\ r.args = args /\ \A k \in Keys : r.values[k] = Absent
  <2>1. /\ r.at = "load" /\ r.parent = p /\ r.dict = dict
        /\ r.params = {} /\ r.args = args /\ r.values = [k \in Keys |-> Absent]
        /\ r = [at |-> "load", parent |-> p, dict |-> dict, params |-> {}, args |-> args,
                values |-> [k \in Keys |-> Absent]]
    BY <1>11 DEF NewChart, NoChart
  <2>2. [k \in Keys |-> Absent] \in Dictionaries
    BY ValueFacts DEF Dictionaries
  <2>3. args \subseteq Keys /\ p \in 0..MaxCharts
    BY <1>6, BoundsAssumption DEF Charts
  <2> QED
    BY <1>7, <1>8, <2>1, <2>2, <2>3 DEF ChartSet
<1>13. /\ chart' \in [Charts -> ChartSet(m)] /\ chart'[c] = r
       /\ \A x \in Charts : x # c => chart'[x] = chart[x]
  <2>1. chart \in [Charts -> ChartSet(h)] /\ ChartSet(h) \subseteq ChartSet(m)
    BY <1>5, <1>7, <1>8 DEF IInv, TypeOK, ChartSet
  <2>2. chart \in [Charts -> ChartSet(m)]
    BY <2>1
  <2> QED
    BY <1>3, <1>11, <1>12, <2>2
<1>14. Existing' = Existing \cup {c} /\ Existing' = 1..c /\ Existing \subseteq Charts
  <2>1. Existing' = Existing \cup {c}
    BY <1>12, <1>13 DEF Existing
  <2> QED
    BY <1>9, <1>10, <2>1 DEF Existing
<1>15. \A x \in Existing : x # c /\ chart'[x] = chart[x]
  BY <1>10, <1>13, <1>14
<1>16. Grown /\ Tree'
  <2>1. \A x \in Existing : Parent(x)' = Parent(x)
    BY <1>15 DEF Parent
  <2>2. Grown
    BY <1>14, <2>1 DEF Grown
  <2>3. c # 1 /\ Parent(c)' = p
    BY <1>10, <1>12, <1>13 DEF Parent
  <2>4. \A x \in Existing : IF x = 1 THEN Parent(x) = 0 ELSE Parent(x) \in Existing
    BY DEF IInv, Tree
  <2>5. \A x \in Existing' : IF x = 1 THEN Parent(x)' = 0 ELSE Parent(x)' \in Existing'
    BY <1>6, <1>14, <2>1, <2>3, <2>4
  <2>6. \A x \in Existing' : chart'[x].at = "load" => chart'[x].params = {}
    BY <1>12, <1>13, <1>14, <1>15 DEF IInv, Tree
  <2> QED
    BY <1>14, <2>2, <2>5, <2>6 DEF Tree
<1>17. Path' /\ TypeOK'
  <2>1. /\ stack' \in Seq(Charts) /\ DOMAIN stack' = 1..(l + 1)
        /\ stack'[l + 1] = c /\ \A n \in 1..l : stack'[n] = stack[n]
    BY <1>3, <1>4, AppendProperties, LenProperties DEF IInv, Path
  <2>2. /\ \A n \in 1..l : stack[n] \in Existing
        /\ \A i, j \in 1..l : stack[i] = stack[j] => i = j
    BY <1>6 DEF IInv, Path
  <2>3. Path'
    <3>1. \A n \in 1..(l + 1) : stack'[n] \in Existing'
      BY <1>14, <2>1, <2>2
    <3>2. \A i, j \in 1..(l + 1) : stack'[i] = stack'[j] => i = j
      BY <1>10, <2>1, <2>2
    <3> QED
      BY <2>1, <3>1, <3>2 DEF Path
  <2>4. ASSUME NEW n \in 1..(l + 1)
        PROVE  chart'[stack'[n]].parent = IF n = 1 THEN 0 ELSE stack'[n - 1]
    <3>1. CASE n = l + 1
      BY <1>6, <1>12, <1>13, <2>1, <3>1
    <3>2. CASE n \in 1..l
      <4>1. chart[stack[n]].parent = IF n = 1 THEN 0 ELSE stack[n - 1]
        <5>1. \A i \in DOMAIN stack : chart[stack[i]].parent = IF i = 1 THEN 0 ELSE stack[i - 1]
          BY DEF IInv, TypeOK
        <5>2. n \in DOMAIN stack
          BY <1>6, <3>2
        <5> QED
          BY <5>1, <5>2
      <4>2. /\ stack'[n] = stack[n] /\ stack[n] \in Existing
            /\ n # 1 => stack'[n - 1] = stack[n - 1]
        BY <2>1, <2>2, <3>2
      <4> QED
        BY <1>15, <4>1, <4>2
    <3> QED
      BY <3>1, <3>2
  <2>5. ASSUME NEW x \in Existing'
        PROVE  chart'[x].at = "done" <=> x \notin {stack'[n] : n \in 1..(l + 1)}
    <3>1. CASE x = c
      BY <1>12, <1>13, <2>1, <3>1
    <3>2. CASE x \in Existing
      <4>1. chart[x].at = "done" <=> x \notin {stack[n] : n \in 1..l}
        BY <1>6, <3>2 DEF IInv, TypeOK
      <4>2. x \in {stack[n] : n \in 1..l} <=> x \in {stack'[n] : n \in 1..(l + 1)}
        BY <1>15, <2>1, <3>2
      <4> QED
        BY <1>15, <3>2, <4>1, <4>2
    <3> QED
      BY <1>14, <3>1, <3>2
  <2> QED
    BY <1>3, <1>7, <1>8, <1>13, <2>1, <2>3, <2>4, <2>5 DEF IInv, TypeOK, ChartSet
<1>18. Kept'
  <2> SUFFICES ASSUME given # {}
               PROVE  /\ chart'[1].dict = 1 /\ Len(heap') > 0
                      /\ \A k \in given : Untouched(k)' =>
                            /\ heap'[1][k] = Given
                            /\ chart'[1].at = "done" => chart'[1].values[k] = Given
    BY <1>3 DEF Kept
  <2>1. chart[1].dict = 1 /\ h > 0 /\ 1 \in Existing /\ chart'[1] = chart[1]
    BY <1>5, <1>15, RootExists DEF IInv, Kept
  <2>2. ASSUME NEW k \in given, Untouched(k)'
        PROVE  heap'[1][k] = Given /\ (chart[1].at = "done" => chart[1].values[k] = Given)
    <3>1. Untouched(k) /\ k \notin args /\ k \in Keys
      BY <1>12, <1>13, <1>14, <1>15, <2>2 DEF Untouched, IInv, TypeOK
    <3>2. heap[1][k] = Given /\ (chart[1].at = "done" => chart[1].values[k] = Given)
      BY <3>1 DEF IInv, Kept
    <3> QED
      BY <1>7, <2>1, <3>1, <3>2
  <2> QED
    BY <1>7, <1>8, <2>1, <2>2
<1>19. Apart'
  <2> SUFFICES ASSUME given = {} PROVE Apart'
    BY <1>3 DEF Apart
  <2>1. /\ chart[1].dict = Nil /\ 1 \in Existing /\ c # 1
        /\ \A x, y \in Existing :
              chart[x].dict # Nil /\ chart[x].dict = chart[y].dict => SameBranch(x, y)
        /\ \A x \in Existing, k \in Keys :
              /\ Held(chart[x].values[k], x)
              /\ chart[x].dict # Nil => Held(heap[chart[x].dict][k], x)
    BY <1>15, RootExists DEF IInv, Apart
  <2>2. \A x, y \in Existing : SameBranch(x, y) => SameBranch(x, y)'
    BY <1>16, BranchKept DEF IInv
  <2>3. \A x, y, z : SameBranch(x, y)' /\ SameBranch(y, z)' => SameBranch(x, z)'
    BY DEF SameBranch
  <2>4. \A x : SameBranch(x, x)'
    BY DEF SameBranch
  <2>5. p # 1 => SameBranch(c, p)' /\ SameBranch(p, c)'
    <3>1. Parent(c)' = p /\ c \in Existing' /\ (p # 1 => p > 1)
      BY <1>6, <1>12, <1>13, <1>14 DEF Parent, Charts
    <3>2. p # 1 => \A S : Connected(S)' => (c \in S <=> p \in S)
      BY <3>1 DEF Connected
    <3> QED
      BY <3>2 DEF SameBranch
  <2>6. \A x \in Existing : chart'[x].dict = chart[x].dict /\ chart[x].dict \in 0..h
    BY <1>5, <1>15 DEF IInv, TypeOK, Existing
  <2>7. chart'[c].dict = dict
    BY <1>12, <1>13
  \* A chart that shares the dictionary of the new one shares that of its parent.
  <2>8. ASSUME NEW x \in Existing, chart[x].dict = dict, dict # Nil
        PROVE  p # 1 /\ SameBranch(x, p)' /\ SameBranch(p, x)'
    <3>1. dict = chart[p].dict
      BY <1>7, <2>6, <2>8
    <3> QED
      BY <1>6, <2>1, <2>2, <2>8, <3>1
  <2>9. ASSUME NEW x \in Existing', NEW y \in Existing', chart'[x].dict # Nil,
               chart'[x].dict = chart'[y].dict
        PROVE  SameBranch(x, y)'
    <3>1. CASE x \in Existing /\ y \in Existing
      BY <2>1, <2>2, <2>6, <2>9, <3>1
    <3>2. CASE x = c /\ y = c
      BY <2>4, <3>2
    <3>3. CASE x = c /\ y \in Existing
      <4>1. p # 1 /\ SameBranch(p, y)'
        BY <2>6, <2>7, <2>8, <2>9, <3>3
      <4> QED
        BY <2>3, <2>5, <3>3, <4>1
    <3>4. CASE x \in Existing /\ y = c
      <4>1. p # 1 /\ SameBranch(x, p)'
        BY <2>6, <2>7, <2>8, <2>9, <3>4
      <4> QED
        BY <2>3, <2>5, <3>4, <4>1
    <3> QED
      BY <1>14, <3>1, <3>2, <3>3, <3>4
  <2>10. ASSUME NEW v, NEW x \in Existing, Held(v, x) PROVE Held(v, x)'
    BY <1>16, <2>10, HeldKept DEF IInv
  <2>11. ASSUME NEW x \in Existing', NEW k \in Keys PROVE Held(chart[x].values[k], x)'
    <3>1. PICK v : v = chart'[x].values[k]
      OBVIOUS
    <3> SUFFICES Held(v, x)'
      BY <3>1
    <3>2. CASE x \in Existing
      BY <1>15, <2>1, <2>10, <3>1, <3>2
    <3>3. CASE x = c
      BY <1>12, <1>13, <3>1, <3>3, ValueFacts DEF Held
    <3> QED
      BY <1>14, <3>2, <3>3
  <2>12. ASSUME NEW x, x # 1, SameBranch(x, c)' PROVE Held(Arg(c), x)'
    BY <1>14, <2>12, ValueFacts DEF Held
  <2>13. ASSUME NEW x \in Existing', NEW k \in Keys, chart'[x].dict # Nil
         PROVE  Held(heap[chart[x].dict][k], x)'
    <3>1. PICK v : v = heap'[chart'[x].dict][k]
      OBVIOUS
    <3> SUFFICES Held(v, x)'
      BY <3>1
    <3>2. CASE x \in Existing
      <4>1. PICK n \in 1..h : n = chart[x].dict
        BY <2>6, <2>13, <3>2 DEF Nil
      <4>2. CASE v = heap[n][k]
        <5>1. Held(v, x)
          BY <2>1, <2>6, <2>13, <3>2, <4>1, <4>2
        <5> QED
          BY <2>10, <3>2, <5>1
      <4>3. CASE n = chart[p].dict /\ v = Arg(c)
        <5>1. p # 1 /\ x # 1 /\ SameBranch(x, p)'
          <6>1. p \in Existing /\ chart[x].dict = chart[p].dict /\ chart[x].dict # Nil
            BY <1>6, <2>6, <2>13, <3>2, <4>1, <4>3
          <6>2. p # 1 /\ x # 1 /\ SameBranch(x, p)
            BY <2>1, <3>2, <6>1
          <6> QED
            BY <2>2, <3>2, <6>1, <6>2
        <5>2. SameBranch(x, c)'
          BY <2>3, <2>5, <5>1
        <5> QED
          BY <2>12, <4>3, <5>1, <5>2
      <4>4. v = heap'[n][k]
        BY <2>6, <3>1, <3>2, <4>1
      <4> QED
        BY <1>7, <4>2, <4>3, <4>4
    <3>3. CASE x = c
      <4>1. v = heap'[dict][k] /\ dict # Nil
        BY <2>7, <2>13, <3>1, <3>3
      <4>2. CASE v = Absent
        BY <4>2, ValueFacts DEF Held
      <4>3. CASE v = Arg(c)
        BY <2>1, <2>4, <2>12, <3>3, <4>3
      <4>4. CASE dict = chart[p].dict /\ v = heap[dict][k]
        <5>1. Held(v, p)
          BY <1>6, <2>1, <4>1, <4>4
        <5>2. Held(v, p)'
          BY <1>6, <2>10, <5>1
        <5>3. p # 1
          BY <2>1, <4>1, <4>4
        <5>4. ASSUME NEW d \in Charts, v = Arg(d)
              PROVE  c # 1 /\ d \in Existing' /\ SameBranch(c, d)'
          <6>1. d \in Existing' /\ SameBranch(p, d)'
            BY <5>2, <5>4 DEF Held
          <6> QED
            BY <2>1, <2>3, <2>5, <5>3, <6>1
        <5> QED
          BY <3>3, <5>4 DEF Held
      <4>5. dict = chart[p].dict => dict \in 1..h
        BY <1>6, <2>6, <4>1 DEF Nil
      <4> QED
        BY <1>7, <4>1, <4>2, <4>3, <4>4, <4>5
    <3> QED
      BY <1>14, <3>2, <3>3
  <2>14. chart'[1].dict = Nil
    BY <2>1, <2>6
  <2> QED
    BY <2>9, <2>11, <2>13, <2>14 DEF Apart
<1> QED
  BY <1>16, <1>17, <1>18, <1>19 DEF IInv

-----------------------------------------------------------------------------
(* Theorems *)

LEMMA InitInv ==
    ASSUME Init PROVE IInv
<1>1. /\ given \subseteq Keys /\ stack = <<1>> /\ statements = 0
      /\ heap = IF given = {} THEN <<>>
                ELSE <<[k \in Keys |-> IF k \in given THEN Given ELSE Absent]>>
      /\ chart = [c \in Charts |-> IF c = 1 THEN NewChart(0, Len(heap), {}) ELSE NoChart]
  BY DEF Init
<1>2. PICK d : d = [k \in Keys |-> IF k \in given THEN Given ELSE Absent]
  OBVIOUS
<1>3. d \in Dictionaries /\ \A k \in given : d[k] = Given
  BY <1>1, <1>2, ValueFacts DEF Dictionaries
<1>4. PICK l \in {0, 1} : /\ l = Len(heap) /\ heap \in Seq(Dictionaries)
                          /\ l = IF given = {} THEN 0 ELSE 1
                          /\ given # {} => heap[1] = d
  <2>1. CASE given # {}
    <3>1. heap = <<d>>
      BY <1>1, <1>2, <2>1
    <3>2. Len(heap) = 1 /\ heap \in Seq(Dictionaries) /\ heap[1] = d
      BY <1>3, <3>1
    <3> QED
      BY <2>1, <3>2
  <2>2. CASE given = {}
    <3>1. heap = <<>>
      BY <1>1, <2>2
    <3>2. Len(heap) = 0 /\ heap \in Seq(Dictionaries)
      BY <3>1, EmptySeq
    <3> QED
      BY <2>2, <3>2
  <2> QED
    BY <2>1, <2>2
<1>5. PICK r : r = NewChart(0, l, {})
  OBVIOUS
<1>6. /\ r \in ChartSet(l) /\ r.at = "load" /\ r.parent = 0 /\ r.dict = l
      /\ r.params = {} /\ r.args = {} /\ \A k \in Keys : r.values[k] = Absent
      /\ NoChart \in ChartSet(l) /\ NoChart.at = "none"
  <2>1. r = [at |-> "load", parent |-> 0, dict |-> l, params |-> {}, args |-> {},
             values |-> [k \in Keys |-> Absent]]
    BY <1>5 DEF NewChart, NoChart
  <2>2. [k \in Keys |-> Absent] \in Dictionaries
    BY ValueFacts DEF Dictionaries
  <2> QED
    BY <2>1, <2>2, BoundsAssumption DEF ChartSet, NoChart, Nil
<1>7. 1 \in Charts
  BY BoundsAssumption DEF Charts
<1>8. /\ chart \in [Charts -> ChartSet(l)] /\ chart[1] = r
      /\ \A c \in Charts : c # 1 => chart[c].at = "none"
  BY <1>1, <1>4, <1>5, <1>6, <1>7
<1>9. Existing = {1}
  BY <1>6, <1>7, <1>8 DEF Existing
<1>10. /\ stack \in Seq(Charts) /\ DOMAIN stack = {1} /\ stack[1] = 1
  BY <1>1, <1>7
<1>11. TypeOK
  <2>1. {stack[n] : n \in DOMAIN stack} = {1}
    BY <1>10
  <2>2. statements \in 0..MaxStatements
    BY <1>1, BoundsAssumption
  <2>3. \A n \in DOMAIN stack : chart[stack[n]].parent = IF n = 1 THEN 0 ELSE stack[n - 1]
    BY <1>6, <1>8, <1>10
  <2>4. \A c \in Existing : chart[c].at = "done" <=> c \notin {stack[n] : n \in DOMAIN stack}
    BY <1>6, <1>8, <1>9, <2>1
  <2> QED
    BY <1>1, <1>4, <1>8, <2>2, <2>3, <2>4 DEF TypeOK, ChartSet
<1>12. Tree /\ Path
  <2>1. Existing = 1..1
    BY <1>9
  <2> QED
    BY <1>6, <1>7, <1>8, <1>9, <1>10, <2>1 DEF Tree, Path, Parent
<1>13. Kept
  BY <1>3, <1>4, <1>6, <1>8 DEF Kept
<1>14. Apart
  BY <1>4, <1>6, <1>8, <1>9, Connection, ValueFacts DEF Apart, Held, Nil
<1> QED
  BY <1>11, <1>12, <1>13, <1>14 DEF IInv

\* Everything below is said of every state.
THEOREM Invariance == Spec => []IInv
<1>1. Init => IInv
  BY InitInv
<1>2. IInv /\ [Next]_vars => IInv'
  <2> SUFFICES ASSUME IInv, [Next]_vars PROVE IInv'
    OBVIOUS
  <2>1. CASE Load
    BY <2>1, LoadInv
  <2>2. CASE Assign
    BY <2>2, AssignInv
  <2>3. CASE SubChart
    BY <2>3, SubChartInv
  <2>4. CASE Finish
    BY <2>4, FinishInv
  <2>5. CASE UNCHANGED vars
    <3>1. IInv /\ given' = given /\ heap' = heap /\ chart' = chart /\ stack' = stack
               /\ statements' = statements
      BY <2>5 DEF vars
    <3>2. /\ TypeOK' /\ Tree' /\ Path'
      BY <3>1 DEF IInv, TypeOK, Tree, Path, Existing, Parent
    <3>3. Kept'
      BY <3>1 DEF IInv, Kept, Untouched, Existing
    <3>4. Apart'
      BY <3>1 DEF IInv, Apart, Held, SameBranch, Connected, Existing, Parent
    <3> QED
      BY <3>2, <3>3, <3>4 DEF IInv
  <2> QED
    BY <2>1, <2>2, <2>3, <2>4, <2>5 DEF Next
<1> QED
  BY <1>1, <1>2, PTL DEF Spec

\* Every chart in newChart was created by the one below it on the stack, and every
\* pointer to a dictionary points to one (chart_options.go).
THEOREM TypeCorrect == Spec => []TypeOK
<1>1. IInv => TypeOK
  BY DEF IInv
<1> QED
  BY <1>1, Invariance, PTL

\* What the command line sets is what the chart gets, if no chart takes the key for
\* itself (newChart, in any tree of charts).
THEOREM TheCommandLineWins == Spec => []CommandLineWins
<1>1. IInv => CommandLineWins
  BY DEF IInv, Kept, Untouched, CommandLineWins
<1> QED
  BY <1>1, Invariance, PTL

\* Merge shares dictionaries only within the branch of one sub chart of the root, and so
\* no argument is seen outside of it.
THEOREM ArgumentsStay == Spec => []ArgumentsStayInTheirBranch
<1>1. IInv => ArgumentsStayInTheirBranch
  <2>1. IInv => Existing \subseteq Charts
    BY DEF Existing
  <2> QED
    BY <2>1 DEF IInv, Apart, Held, ArgumentsStayInTheirBranch
<1> QED
  BY <1>1, Invariance, PTL
=============================================================================
