---------------------------- MODULE ProgressProofs ----------------------------
(***************************************************************************)
(* Proofs about Progress, for any charts, apply functions and bounds: what *)
(* the subscriber sees is a percentage as long as no handle has more       *)
(* clones than it was announced with, 100 is shown at the end, what was    *)
(* shown is only taken back by a tool that starts or counts again, and no  *)
(* apply succeeds after a tool has failed.                                 *)
(***************************************************************************)
EXTENDS Progress, FiniteSetTheorems, SequenceTheorems, WellFoundedInduction, TLAPS

-----------------------------------------------------------------------------
(* The inductive invariant *)

HandleSet ==
    [parent: Nat, index: Nat, children: Nat, local: 0..90, child: Seq(Nat),
     last: Nat, tool: {"kubectl", "kapp"}]

\* Where handle n lies in the tree: its caller's is older, and has a slot for it, with
\* what it has told last.
Placed(hs, n) ==
    /\ hs[n].parent < n
    /\ hs[n].parent = 0 <=> n = 1
    /\ n # 1 => /\ hs[n].index \in 1..Len(hs[hs[n].parent].child)
                /\ hs[hs[n].parent].child[hs[n].index] = hs[n].last

\* Slot i of handle n is a younger handle's.
Owned(hs, n, i) ==
    \E m \in 1..Len(hs) : m > n /\ hs[m].parent = n /\ hs[m].index = i

\* The handles are a tree below the subscriber's, and every slot is somebody's.
HandlesOK(hs) ==
    /\ hs \in Seq(HandleSet) /\ Len(hs) >= 2
    /\ \A n \in 1..Len(hs) : Placed(hs, n) /\ Rounded(hs[n].last) = hs[n].last
    /\ \A n \in 1..Len(hs) : \A i \in 1..Len(hs[n].child) : Owned(hs, n, i)
    /\ \A m, n \in 2..Len(hs) :
          hs[m].parent = hs[n].parent /\ hs[m].index = hs[n].index => m = n
    /\ hs[2].parent = 1

\* Only averages exceed 100: a handle is never told to.
Averaged(h) == h.last <= 100 \/ h.last = Rounded(Average(h))
AveragesOK(hs) == \A n \in 1..Len(hs) : Averaged(hs[n])

\* A record of an apply, whatever is left of its calls.
FrameOK(hs, f) ==
    /\ f = [chart |-> f.chart, handle |-> f.handle, entered |-> f.entered, left |-> f.left,
            step |-> f.step, count |-> f.count, matched |-> f.matched]
    /\ f.chart \in Charts /\ f.handle \in 2..Len(hs)
    /\ f.count \in Nat /\ f.matched \in 0..(f.count + 1)

\* The outermost apply is the command's or the controller's.
StackOK(hs, st) ==
    /\ \E S : st \in Seq(S)
    /\ \A i \in 1..Len(st) : FrameOK(hs, st[i])
    /\ st # <<>> => st[Len(st)].handle = 2 /\ st[Len(st)].entered

\* A process left behind.
LeftOK(hs, t) ==
    /\ t = [handle |-> t.handle, matched |-> t.matched, count |-> t.count]
    /\ t.handle \in 2..Len(hs) /\ t.count \in Nat /\ t.matched \in 0..(t.count + 1)

OutcomeOK ==
    /\ outcome \in {"running", "applied", "failed"} /\ broken \in BOOLEAN
    /\ stack = <<>> <=> outcome # "running"
    /\ abandoned # {} => outcome = "failed"
    /\ broken => outcome = "failed"
    /\ outcome = "applied" => shown = 100

ProgressInv ==
    /\ HandlesOK(handles)
    /\ AveragesOK(handles)
    /\ StackOK(handles, stack)
    /\ \A t \in abandoned : LeftOK(handles, t)
    /\ OutcomeOK
    /\ shown = handles[1].last
    /\ needed \in [Charts -> SUBSET Charts]

-----------------------------------------------------------------------------
(* Sums and averages *)

\* Every set of natural numbers has a least one.
LEMMA LeastExists ==
    ASSUME NEW S, S \subseteq Nat, S # {}
    PROVE  \E n \in S : \A m \in S : n <= m
<1>1. PICK n \in S : \A m \in S : <<m, n>> \notin OpToRel(<, Nat)
  BY NatLessThanWellFounded, WFMin
<1>2. \A m \in S : ~(m < n)
  BY <1>1 DEF OpToRel
<1> QED
  BY <1>2

\* The partial sums of a sequence, as far as l.
IsSums(f, s, l) == f = [n \in 0..l |-> IF n = 0 THEN 0 ELSE f[n - 1] + s[n]]

\* They exist: a shortest prefix without them would follow one that has them.
LEMMA SumsExist ==
    ASSUME NEW s, NEW l \in Nat
    PROVE  \E f : IsSums(f, s, l)
<1> DEFINE without == {n \in Nat : ~ \E f : IsSums(f, s, n)}
<1>1. CASE without = {}
  BY <1>1
<1>2. CASE without # {}
  <2>1. PICK n \in without : \A m \in without : n <= m
    BY <1>2, LeastExists
  <2>2. n \in Nat /\ ~ \E f : IsSums(f, s, n)
    BY <2>1
  <2>3. n # 0
    <3>1. IsSums([m \in 0..0 |-> 0], s, 0)
      BY DEF IsSums
    <3> QED
      BY <2>2, <3>1
  <2>4. n - 1 \in Nat /\ n - 1 \notin without
    BY <2>1, <2>2, <2>3
  <2>5. PICK f : IsSums(f, s, n - 1)
    BY <2>4
  <2> DEFINE g == [m \in 0..n |-> IF m = n THEN f[n - 1] + s[n] ELSE f[m]]
  <2>6. IsSums(g, s, n)
    <3>1. \A m \in 0..n : g[m] = IF m = 0 THEN 0 ELSE g[m - 1] + s[m]
      <4> SUFFICES ASSUME NEW m \in 0..n
                   PROVE  g[m] = IF m = 0 THEN 0 ELSE g[m - 1] + s[m]
        OBVIOUS
      <4>1. CASE m = n
        <5>1. g[n] = f[n - 1] + s[n] /\ n \in 0..n /\ n - 1 \in 0..n /\ n - 1 # n
          BY <2>2, <2>3
        <5>2. g[n - 1] = f[n - 1]
          BY <5>1
        <5> QED
          BY <2>3, <4>1, <5>1, <5>2
      <4>2. CASE m # n
        <5>1. m \in 0..(n - 1)
          BY <2>2, <4>2
        <5>2. f[m] = IF m = 0 THEN 0 ELSE f[m - 1] + s[m]
          BY <2>5, <5>1 DEF IsSums
        <5>3. g[m] = f[m] /\ (m # 0 => g[m - 1] = f[m - 1])
          BY <2>2, <4>2, <5>1
        <5> QED
          BY <5>2, <5>3
      <4> QED
        BY <4>1, <4>2
    <3>2. g = [m \in 0..n |-> g[m]]
      OBVIOUS
    <3> HIDE DEF g
    <3> QED
      BY <3>1, <3>2 DEF IsSums
  <2> QED
    BY <2>2, <2>6
<1> QED
  BY <1>1, <1>2

\* Sum adds up the elements one by one.
LEMMA SumIs ==
    ASSUME NEW s, Len(s) \in Nat
    PROVE  \E f : /\ Sum(s) = f[Len(s)] /\ f[0] = 0
                  /\ \A n \in 1..Len(s) : f[n] = f[n - 1] + s[n]
<1> DEFINE f == CHOOSE f : IsSums(f, s, Len(s))
<1>1. IsSums(f, s, Len(s))
  BY SumsExist
<1>2. Sum(s) = f[Len(s)]
  BY DEF Sum, IsSums
<1> HIDE DEF f
<1>3. f[0] = 0 /\ \A n \in 1..Len(s) : f[n] = f[n - 1] + s[n]
  BY <1>1 DEF IsSums
<1> QED
  BY <1>2, <1>3

\* The least of some numbers up to l; the one before it is not among them.
LEMMA LeastUpTo ==
    ASSUME NEW l \in Nat, NEW S, S \subseteq 0..l, S # {}
    PROVE  \E n \in 0..l : n \in S /\ (n # 0 => n - 1 \in 0..l /\ n - 1 \notin S)
<1>1. S \subseteq Nat
  OBVIOUS
<1>2. PICK n \in S : \A m \in S : n <= m
  BY <1>1, LeastExists
<1>3. n \in 0..l
  OBVIOUS
<1>4. ASSUME n # 0 PROVE n - 1 \in 0..l /\ n - 1 \notin S
  BY <1>2, <1>3, <1>4
<1> QED
  BY <1>3, <1>4

LEMMA SumFacts ==
    ASSUME NEW s \in Seq(Nat)
    PROVE  \E f : /\ Sum(s) = f[Len(s)] /\ f[0] = 0
                  /\ \A n \in 1..Len(s) : f[n] = f[n - 1] + s[n]
                  /\ \A n \in 0..Len(s) : f[n] \in Nat
<1>1. PICK f : /\ Sum(s) = f[Len(s)] /\ f[0] = 0
               /\ \A n \in 1..Len(s) : f[n] = f[n - 1] + s[n]
  BY SumIs
<1> DEFINE bad == {n \in 0..Len(s) : f[n] \notin Nat}
<1>2. ASSUME bad # {} PROVE FALSE
  <2>1. bad \subseteq 0..Len(s) /\ Len(s) \in Nat
    OBVIOUS
  <2>2. PICK n \in 0..Len(s) : n \in bad /\ (n # 0 => n - 1 \in 0..Len(s) /\ n - 1 \notin bad)
    <3> HIDE DEF bad
    <3> QED
      BY <1>2, <2>1, LeastUpTo
  <2>3. n \in 1..Len(s) /\ f[n] \notin Nat /\ f[n - 1] \in Nat
    BY <1>1, <2>2
  <2>4. f[n] = f[n - 1] + s[n] /\ s[n] \in Nat
    BY <1>1, <2>3
  <2> QED
    BY <2>3, <2>4
<1>3. \A n \in 0..Len(s) : f[n] \in Nat
  BY <1>2
<1> QED
  BY <1>1, <1>3

LEMMA SumIsNat ==
    ASSUME NEW s \in Seq(Nat)
    PROVE  Sum(s) \in Nat
<1>1. Len(s) \in 0..Len(s)
  OBVIOUS
<1> QED
  BY <1>1, SumFacts

\* No more than a bound for each.
LEMMA SumBounds ==
    ASSUME NEW s \in Seq(Nat), NEW b \in Nat, \A n \in 1..Len(s) : s[n] <= b
    PROVE  Sum(s) <= b * Len(s)
<1>1. PICK f : /\ Sum(s) = f[Len(s)] /\ f[0] = 0
               /\ \A n \in 1..Len(s) : f[n] = f[n - 1] + s[n]
               /\ \A n \in 0..Len(s) : f[n] \in Nat
  BY SumFacts
<1> DEFINE bad == {n \in 0..Len(s) : ~(f[n] <= b * n)}
<1>2. ASSUME bad # {} PROVE FALSE
  <2>1. bad \subseteq 0..Len(s) /\ Len(s) \in Nat
    OBVIOUS
  <2>2. PICK n \in 0..Len(s) : n \in bad /\ (n # 0 => n - 1 \in 0..Len(s) /\ n - 1 \notin bad)
    <3> HIDE DEF bad
    <3> QED
      BY <1>2, <2>1, LeastUpTo
  <2>3. n \in 1..Len(s) /\ ~(f[n] <= b * n) /\ f[n - 1] <= b * (n - 1)
    BY <1>1, <2>2
  <2>4. f[n] = f[n - 1] + s[n] /\ s[n] \in Nat /\ s[n] <= b /\ f[n - 1] \in Nat
    BY <1>1, <2>3
  <2>5. b * n = b * (n - 1) + b
    BY <2>3
  <2> QED
    BY <2>3, <2>4, <2>5
<1>3. Len(s) \in 0..Len(s) /\ Len(s) \notin bad
  BY <1>2
<1> QED
  BY <1>1, <1>3

\* A sum grows with its elements.
LEMMA SumMonotone ==
    ASSUME NEW s \in Seq(Nat), NEW t \in Seq(Nat), Len(s) = Len(t),
           \A n \in 1..Len(s) : s[n] <= t[n]
    PROVE  Sum(s) <= Sum(t)
<1>1. PICK f : /\ Sum(s) = f[Len(s)] /\ f[0] = 0
               /\ \A n \in 1..Len(s) : f[n] = f[n - 1] + s[n]
               /\ \A n \in 0..Len(s) : f[n] \in Nat
  BY SumFacts
<1>2. PICK g : /\ Sum(t) = g[Len(t)] /\ g[0] = 0
               /\ \A n \in 1..Len(t) : g[n] = g[n - 1] + t[n]
               /\ \A n \in 0..Len(t) : g[n] \in Nat
  BY SumFacts
<1> DEFINE bad == {n \in 0..Len(s) : ~(f[n] <= g[n])}
<1>3. ASSUME bad # {} PROVE FALSE
  <2>1. bad \subseteq 0..Len(s) /\ Len(s) \in Nat
    OBVIOUS
  <2>2. PICK n \in 0..Len(s) : n \in bad /\ (n # 0 => n - 1 \in 0..Len(s) /\ n - 1 \notin bad)
    <3> HIDE DEF bad
    <3> QED
      BY <1>3, <2>1, LeastUpTo
  <2>3. n \in 1..Len(s) /\ ~(f[n] <= g[n]) /\ f[n - 1] <= g[n - 1]
    BY <1>1, <1>2, <2>2
  <2>4. s[n] \in Nat /\ t[n] \in Nat /\ s[n] <= t[n]
    BY <2>3
  <2>5. f[n] = f[n - 1] + s[n] /\ g[n] = g[n - 1] + t[n]
    BY <1>1, <1>2, <2>3
  <2>6. f[n - 1] \in Nat /\ g[n - 1] \in Nat
    BY <1>1, <1>2, <2>2, <2>3
  <2> QED
    BY <2>3, <2>4, <2>5, <2>6
<1>4. Len(s) \in 0..Len(s) /\ Len(s) \notin bad
  BY <1>3
<1> QED
  BY <1>1, <1>2, <1>4

\* A slot in which nothing was reported yet adds nothing.
LEMMA SumAppend ==
    ASSUME NEW s \in Seq(Nat)
    PROVE  Sum(Append(s, 0)) = Sum(s)
<1> PICK t : t = Append(s, 0)
  OBVIOUS
<1>1. t \in Seq(Nat) /\ Len(t) = Len(s) + 1 /\ t[Len(s) + 1] = 0
      /\ \A n \in 1..Len(s) : t[n] = s[n]
  OBVIOUS
<1>2. PICK f : /\ Sum(s) = f[Len(s)] /\ f[0] = 0
               /\ \A n \in 1..Len(s) : f[n] = f[n - 1] + s[n]
               /\ \A n \in 0..Len(s) : f[n] \in Nat
  BY SumFacts
<1>3. PICK g : /\ Sum(t) = g[Len(t)] /\ g[0] = 0
               /\ \A n \in 1..Len(t) : g[n] = g[n - 1] + t[n]
               /\ \A n \in 0..Len(t) : g[n] \in Nat
  BY <1>1, SumFacts
<1> DEFINE bad == {n \in 0..Len(s) : f[n] # g[n]}
<1>4. ASSUME bad # {} PROVE FALSE
  <2>1. bad \subseteq 0..Len(s) /\ Len(s) \in Nat
    OBVIOUS
  <2>2. PICK n \in 0..Len(s) : n \in bad /\ (n # 0 => n - 1 \in 0..Len(s) /\ n - 1 \notin bad)
    <3> HIDE DEF bad
    <3> QED
      BY <1>4, <2>1, LeastUpTo
  <2>3. n \in 1..Len(s) /\ f[n] # g[n] /\ f[n - 1] = g[n - 1]
    BY <1>2, <1>3, <2>2
  <2>4. f[n] = f[n - 1] + s[n]
    BY <1>2, <2>3
  <2>5. g[n] = g[n - 1] + t[n] /\ t[n] = s[n]
    <3>1. n \in 1..Len(t)
      BY <1>1, <2>3
    <3> QED
      BY <1>1, <1>3, <2>3, <3>1
  <2> QED
    BY <2>3, <2>4, <2>5
<1>5. f[Len(s)] = g[Len(s)]
  <2>1. Len(s) \in 0..Len(s) /\ Len(s) \notin bad
    BY <1>4
  <2> QED
    BY <2>1
<1>6. g[Len(s) + 1] = g[Len(s)] + 0 /\ g[Len(s)] \in Nat
  <2>1. Len(s) + 1 \in 1..Len(t) /\ Len(s) \in 0..Len(t) /\ Len(s) + 1 - 1 = Len(s)
    BY <1>1
  <2> QED
    BY <1>1, <1>3, <2>1
<1> QED
  BY <1>1, <1>2, <1>3, <1>5, <1>6


\* Division rounds down.
LEMMA Quotient ==
    ASSUME NEW a \in Nat, NEW b \in Nat \ {0}
    PROVE  /\ a \div b \in Nat
           /\ b * (a \div b) <= a /\ a < b * (a \div b) + b
OBVIOUS

LEMMA QuotientBound ==
    ASSUME NEW a \in Nat, NEW b \in Nat \ {0}, NEW k \in Nat
    PROVE  /\ a < k * b => a \div b < k
           /\ a <= k * b => a \div b <= k
<1> PICK q : q = a \div b
  OBVIOUS
<1>1. q \in Nat /\ b * q <= a
  BY Quotient
<1>2. ASSUME q >= k PROVE k * b <= b * q
  BY <1>1, <1>2
<1>3. ASSUME q >= k + 1 PROVE k * b + b <= b * q
  BY <1>1, <1>3
<1> QED
  BY <1>1, <1>2, <1>3

LEMMA QuotientMonotone ==
    ASSUME NEW a1 \in Nat, NEW a2 \in Nat, NEW b \in Nat \ {0}, a1 <= a2
    PROVE  a1 \div b <= a2 \div b
<1> PICK q1, q2 : q1 = a1 \div b /\ q2 = a2 \div b
  OBVIOUS
<1>1. q1 \in Nat /\ q2 \in Nat /\ b * q1 <= a1 /\ a2 < b * q2 + b
  BY Quotient
<1>2. ASSUME q1 >= q2 + 1 PROVE b * q2 + b <= b * q1
  BY <1>1, <1>2
<1> QED
  BY <1>1, <1>2


\* Rounding to fives makes numbers no bigger and keeps their order.
LEMMA RoundedFacts ==
    ASSUME NEW v \in Nat
    PROVE  /\ Rounded(v) \in Nat /\ Rounded(v) % 5 = 0
           /\ Rounded(Rounded(v)) = Rounded(v)
           /\ Rounded(v) <= v
           /\ v = 100 => Rounded(v) = 100
           /\ \A w \in Nat : v <= w => Rounded(v) <= Rounded(w)
BY DEF Rounded

-----------------------------------------------------------------------------
(* Handles *)

LEMMA HandleFields ==
    ASSUME NEW h \in HandleSet
    PROVE  /\ h.parent \in Nat /\ h.index \in Nat /\ h.children \in Nat
           /\ h.local \in Nat /\ h.local <= 90
           /\ h.child \in Seq(Nat) /\ Len(h.child) \in Nat
           /\ h.last \in Nat /\ h.tool \in {"kubectl", "kapp"}
<1>1. /\ h.parent \in Nat /\ h.index \in Nat /\ h.children \in Nat /\ h.local \in 0..90
      /\ h.child \in Seq(Nat) /\ h.last \in Nat /\ h.tool \in {"kubectl", "kapp"}
  BY DEF HandleSet
<1>2. \A l \in 0..90 : l \in Nat /\ l <= 90
  OBVIOUS
<1>3. Len(h.child) \in Nat
  BY <1>1
<1> QED
  BY <1>1, <1>2, <1>3

\* A handle with one of its fields changed.
SetLocal(h, x) == [h EXCEPT !.local = x]
SetChild(h, s) == [h EXCEPT !.child = s]
SetLast(h, v) == [h EXCEPT !.last = v]
SetToolTo(h, tool) == [h EXCEPT !.tool = tool]

\* It stays a handle, and the other fields are as they were.
LEMMA SetLocalFacts ==
    ASSUME NEW h \in HandleSet, NEW x \in 0..90
    PROVE  /\ SetLocal(h, x) \in HandleSet /\ SetLocal(h, x).local = x
           /\ SetLocal(h, x).parent = h.parent /\ SetLocal(h, x).index = h.index
           /\ SetLocal(h, x).children = h.children /\ SetLocal(h, x).child = h.child
           /\ SetLocal(h, x).last = h.last /\ SetLocal(h, x).tool = h.tool
<1>1. PICK N, L, S, P, T : HandleSet = [parent: N, index: N, children: N, local: L, child: S, last: P, tool: T]
                           /\ L = 0..90
  BY DEF HandleSet
<1>2. PICK R, V : R = HandleSet /\ h \in R /\ V = 0..90 /\ x \in V
  OBVIOUS
<1>3. R = [parent: N, index: N, children: N, local: V, child: S, last: P, tool: T]
  BY <1>1, <1>2
<1>4. /\ SetLocal(h, x) \in R /\ SetLocal(h, x).local = x
      /\ SetLocal(h, x).parent = h.parent /\ SetLocal(h, x).index = h.index
      /\ SetLocal(h, x).children = h.children /\ SetLocal(h, x).child = h.child
      /\ SetLocal(h, x).last = h.last /\ SetLocal(h, x).tool = h.tool
  BY <1>2, <1>3 DEF SetLocal
<1> QED
  BY <1>2, <1>4

LEMMA SetChildFacts ==
    ASSUME NEW h \in HandleSet, NEW x \in Seq(Nat)
    PROVE  /\ SetChild(h, x) \in HandleSet /\ SetChild(h, x).child = x
           /\ SetChild(h, x).parent = h.parent /\ SetChild(h, x).index = h.index
           /\ SetChild(h, x).children = h.children /\ SetChild(h, x).local = h.local
           /\ SetChild(h, x).last = h.last /\ SetChild(h, x).tool = h.tool
<1>1. PICK N, L, S, P, T : HandleSet = [parent: N, index: N, children: N, local: L, child: S, last: P, tool: T]
                           /\ S = Seq(Nat)
  BY DEF HandleSet
<1>2. PICK R, V : R = HandleSet /\ h \in R /\ V = Seq(Nat) /\ x \in V
  OBVIOUS
<1>3. R = [parent: N, index: N, children: N, local: L, child: V, last: P, tool: T]
  BY <1>1, <1>2
<1>4. /\ SetChild(h, x) \in R /\ SetChild(h, x).child = x
      /\ SetChild(h, x).parent = h.parent /\ SetChild(h, x).index = h.index
      /\ SetChild(h, x).children = h.children /\ SetChild(h, x).local = h.local
      /\ SetChild(h, x).last = h.last /\ SetChild(h, x).tool = h.tool
  BY <1>2, <1>3 DEF SetChild
<1> QED
  BY <1>2, <1>4

LEMMA SetLastFacts ==
    ASSUME NEW h \in HandleSet, NEW x \in Nat
    PROVE  /\ SetLast(h, x) \in HandleSet /\ SetLast(h, x).last = x
           /\ SetLast(h, x).parent = h.parent /\ SetLast(h, x).index = h.index
           /\ SetLast(h, x).children = h.children /\ SetLast(h, x).local = h.local
           /\ SetLast(h, x).child = h.child /\ SetLast(h, x).tool = h.tool
<1>1. PICK N, L, S, P, T : HandleSet = [parent: N, index: N, children: N, local: L, child: S, last: P, tool: T]
                           /\ P = Nat
  BY DEF HandleSet
<1>2. PICK R, V : R = HandleSet /\ h \in R /\ V = Nat /\ x \in V
  OBVIOUS
<1>3. R = [parent: N, index: N, children: N, local: L, child: S, last: V, tool: T]
  BY <1>1, <1>2
<1>4. /\ SetLast(h, x) \in R /\ SetLast(h, x).last = x
      /\ SetLast(h, x).parent = h.parent /\ SetLast(h, x).index = h.index
      /\ SetLast(h, x).children = h.children /\ SetLast(h, x).local = h.local
      /\ SetLast(h, x).child = h.child /\ SetLast(h, x).tool = h.tool
  BY <1>2, <1>3 DEF SetLast
<1> QED
  BY <1>2, <1>4

LEMMA SetToolToFacts ==
    ASSUME NEW h \in HandleSet, NEW x \in {"kubectl", "kapp"}
    PROVE  /\ SetToolTo(h, x) \in HandleSet /\ SetToolTo(h, x).tool = x
           /\ SetToolTo(h, x).parent = h.parent /\ SetToolTo(h, x).index = h.index
           /\ SetToolTo(h, x).children = h.children /\ SetToolTo(h, x).local = h.local
           /\ SetToolTo(h, x).child = h.child /\ SetToolTo(h, x).last = h.last
<1>1. PICK N, L, S, P, T : HandleSet = [parent: N, index: N, children: N, local: L, child: S, last: P, tool: T]
                           /\ T = {"kubectl", "kapp"}
  BY DEF HandleSet
<1>2. PICK R, V : R = HandleSet /\ h \in R /\ V = {"kubectl", "kapp"} /\ x \in V
  OBVIOUS
<1>3. R = [parent: N, index: N, children: N, local: L, child: S, last: P, tool: V]
  BY <1>1, <1>2
<1>4. /\ SetToolTo(h, x) \in R /\ SetToolTo(h, x).tool = x
      /\ SetToolTo(h, x).parent = h.parent /\ SetToolTo(h, x).index = h.index
      /\ SetToolTo(h, x).children = h.children /\ SetToolTo(h, x).local = h.local
      /\ SetToolTo(h, x).child = h.child /\ SetToolTo(h, x).last = h.last
  BY <1>2, <1>3 DEF SetToolTo
<1> QED
  BY <1>2, <1>4

LEMMA AverageIsNat ==
    ASSUME NEW h \in HandleSet
    PROVE  Average(h) \in Nat
<1>1. h.local \in Nat /\ Sum(h.child) \in Nat /\ h.children + 1 \in Nat \ {0}
  BY HandleFields, SumIsNat
<1>2. h.local + Sum(h.child) \in Nat
  BY <1>1
<1> QED
  BY <1>1, <1>2, Quotient DEF Average

LEMMA Times ==
    ASSUME NEW b \in Nat, NEW m \in Nat, NEW n \in Nat, m <= n
    PROVE  b * m <= b * n
OBVIOUS

\* The slots of a handle and its own share are at most as many as it divides by.
LEMMA AverageBounds ==
    ASSUME NEW h \in HandleSet, Fits(h), NEW b \in Nat, 90 <= b,
           \A i \in 1..Len(h.child) : h.child[i] <= b
    PROVE  Average(h) <= b
<1>a. PICK l, c, n, s : l = Len(h.child) /\ c = h.children /\ n = h.local /\ s = Sum(h.child)
  OBVIOUS
<1>1. l \in Nat /\ c \in Nat /\ n \in Nat /\ n <= 90 /\ s \in Nat
  BY <1>a, HandleFields, SumIsNat
<1>2. s <= b * l
  BY <1>a, HandleFields, SumBounds
<1>b. l + (IF n > 0 THEN 1 ELSE 0) <= c + 1
  BY <1>a DEF Fits
<1>3. n + s <= b * (c + 1)
  <2>1. CASE n > 0
    <3>1. l <= c
      BY <1>1, <1>b, <2>1
    <3>2. b * l <= b * c
      BY <1>1, <3>1, Times
    <3>3. b * l \in Nat /\ b * c \in Nat /\ b * (c + 1) = b * c + b
      BY <1>1
    <3> QED
      BY <1>1, <1>2, <3>2, <3>3
  <2>2. CASE ~(n > 0)
    <3>1. n = 0 /\ l <= c + 1 /\ c + 1 \in Nat
      BY <1>1, <1>b, <2>2
    <3>2. b * l <= b * (c + 1)
      BY <1>1, <3>1, Times
    <3>3. b * l \in Nat /\ b * (c + 1) \in Nat
      BY <1>1
    <3> QED
      BY <1>1, <1>2, <3>1, <3>2, <3>3
  <2> QED
    BY <2>1, <2>2
<1>4. n + s \in Nat /\ c + 1 \in Nat \ {0}
  BY <1>1
<1>5. (n + s) \div (c + 1) <= b
  BY <1>3, <1>4, QuotientBound
<1> QED
  BY <1>a, <1>5 DEF Average

LEMMA AverageMonotone ==
    ASSUME NEW g \in HandleSet, NEW h \in HandleSet, g.children = h.children,
           g.local <= h.local, Len(g.child) = Len(h.child),
           \A i \in 1..Len(g.child) : g.child[i] <= h.child[i]
    PROVE  Average(g) <= Average(h)
<1>1. g.local \in Nat /\ h.local \in Nat /\ h.children + 1 \in Nat \ {0}
  BY HandleFields
<1>2. Sum(g.child) \in Nat /\ Sum(h.child) \in Nat /\ Sum(g.child) <= Sum(h.child)
  BY HandleFields, SumIsNat, SumMonotone
<1>3. /\ g.local + Sum(g.child) <= h.local + Sum(h.child)
      /\ g.local + Sum(g.child) \in Nat /\ h.local + Sum(h.child) \in Nat
  BY <1>1, <1>2
<1> QED
  BY <1>1, <1>3, QuotientMonotone DEF Average

LEMMA HandlesFacts ==
    ASSUME NEW hs, HandlesOK(hs)
    PROVE  /\ hs \in Seq(HandleSet) /\ Len(hs) \in Nat /\ Len(hs) >= 2
           /\ 1 \in 1..Len(hs) /\ 2 \in 1..Len(hs) /\ DOMAIN hs = 1..Len(hs)
           /\ \A n \in 1..Len(hs) : hs[n] \in HandleSet
           /\ \A n \in 1..Len(hs) : n # 1 => hs[n].parent \in 1..Len(hs)
<1>1. hs \in Seq(HandleSet) /\ Len(hs) \in Nat /\ Len(hs) >= 2
  BY DEF HandlesOK
<1>2. ASSUME NEW n \in 1..Len(hs) PROVE hs[n] \in HandleSet
  BY <1>1
<1>3. ASSUME NEW n \in 1..Len(hs), n # 1 PROVE hs[n].parent \in 1..Len(hs)
  <2>1. hs[n].parent < n /\ hs[n].parent # 0
    BY <1>3 DEF HandlesOK, Placed
  <2>2. hs[n].parent \in Nat
    BY <1>2, HandleFields
  <2> QED
    BY <1>1, <2>1, <2>2
<1> QED
  BY <1>1, <1>2, <1>3

\* Every clone reports at most what the average can bear: the last handle that has told
\* more would average slots of handles that have not.
LEMMA WithinBound ==
    ASSUME NEW hs, HandlesOK(hs), NEW b \in Nat, 90 <= b,
           \A n \in 1..Len(hs) : Fits(hs[n]),
           \A n \in 1..Len(hs) : hs[n].last <= b \/ hs[n].last = Rounded(Average(hs[n]))
    PROVE  \A n \in 1..Len(hs) : hs[n].last <= b
<1>a. PICK l : l = Len(hs)
  OBVIOUS
<1>1. l \in Nat /\ hs \in Seq(HandleSet) /\ \A n \in 1..l : hs[n] \in HandleSet
  BY <1>a, HandlesFacts
<1> DEFINE high == {k \in 0..l : l - k \in 1..l /\ ~(hs[l - k].last <= b)}
<1>2. CASE high = {}
  <2>1. ASSUME NEW n \in 1..l PROVE hs[n].last <= b
    <3>1. l - n \in 0..l /\ l - (l - n) = n
      BY <1>1
    <3>2. l - n \notin high
      BY <1>2
    <3> QED
      BY <3>1, <3>2
  <2> QED
    BY <1>a, <2>1
<1>3. CASE high # {}
  <2>1. high \subseteq Nat
    BY <1>1
  <2>2. PICK k \in high : \A m \in high : k <= m
    <3> HIDE DEF high
    <3> QED
      BY <1>3, <2>1, LeastExists
  <2>3. PICK n : n = l - k
    OBVIOUS
  <2>4. n \in 1..l /\ ~(hs[n].last <= b) /\ k \in Nat
    BY <2>2, <2>3
  <2>5. ASSUME NEW m \in 1..l, m > n PROVE hs[m].last <= b
    <3>1. l - m \in 0..l /\ l - (l - m) = m /\ l - m < k
      BY <1>1, <2>3, <2>4, <2>5
    <3>2. l - m \notin high
      BY <2>2, <2>4, <3>1
    <3> QED
      BY <3>1, <3>2
  <2>6. PICK h : h = hs[n]
    OBVIOUS
  <2>7. h \in HandleSet /\ Fits(h) /\ h.last = Rounded(Average(h))
    BY <1>a, <1>1, <2>4, <2>6
  <2>8. ASSUME NEW i \in 1..Len(h.child) PROVE h.child[i] <= b
    <3>1. PICK m \in 1..l : m > n /\ hs[m].parent = n /\ hs[m].index = i
      BY <1>a, <2>4, <2>6 DEF HandlesOK, Owned
    <3>2. Placed(hs, m) /\ m # 1
      BY <1>a, <2>4, <3>1 DEF HandlesOK
    <3>3. hs[n].child[i] = hs[m].last
      BY <3>1, <3>2 DEF Placed
    <3> QED
      BY <2>5, <2>6, <3>1, <3>3
  <2>9. Average(h) <= b /\ Average(h) \in Nat
    BY <2>7, <2>8, AverageBounds, AverageIsNat
  <2>10. Rounded(Average(h)) <= Average(h) /\ Rounded(Average(h)) \in Nat
    BY <2>9, RoundedFacts
  <2> QED
    BY <2>4, <2>6, <2>7, <2>9, <2>10
<1> QED
  BY <1>2, <1>3

-----------------------------------------------------------------------------
(* One handle tells another *)

\* The tree is the same, but for what was told.
SameShape(hs, ks) ==
    /\ ks \in Seq(HandleSet) /\ Len(ks) = Len(hs)
    /\ \A n \in 1..Len(hs) :
          /\ ks[n].parent = hs[n].parent /\ ks[n].index = hs[n].index
          /\ ks[n].children = hs[n].children /\ ks[n].local = hs[n].local
          /\ ks[n].tool = hs[n].tool /\ Len(ks[n].child) = Len(hs[n].child)

LEMMA SameShapeTransitive ==
    ASSUME NEW hs, NEW ks, NEW ls, SameShape(hs, ks), SameShape(ks, ls)
    PROVE  SameShape(hs, ls)
BY DEF SameShape

LEMMA WithLastFacts ==
    ASSUME NEW hs \in Seq(HandleSet), NEW n \in 1..Len(hs), NEW v \in Nat
    PROVE  /\ SameShape(hs, WithLast(hs, n, v))
           /\ WithLast(hs, n, v)[n].last = v /\ WithLast(hs, n, v)[n].child = hs[n].child
           /\ \A m \in 1..Len(hs) : m # n => WithLast(hs, n, v)[m] = hs[m]
<1>a. PICK h : h = hs[n]
  OBVIOUS
<1>b. PICK k : k = SetLast(h, v)
  OBVIOUS
<1>c. PICK told : told = [hs EXCEPT ![n] = k]
  OBVIOUS
<1>1. h \in HandleSet
  BY <1>a
<1>2. /\ k \in HandleSet /\ k.parent = hs[n].parent /\ k.index = hs[n].index
      /\ k.children = hs[n].children /\ k.local = hs[n].local /\ k.child = hs[n].child
      /\ k.tool = hs[n].tool /\ k.last = v
  <2>1. /\ k \in HandleSet /\ k.parent = h.parent /\ k.index = h.index
        /\ k.children = h.children /\ k.local = h.local /\ k.child = h.child
        /\ k.tool = h.tool /\ k.last = v
    BY <1>b, <1>1, SetLastFacts
  <2> QED
    BY <1>a, <2>1
<1>3. /\ told \in Seq(HandleSet) /\ Len(told) = Len(hs) /\ told[n] = k
      /\ \A m \in 1..Len(hs) : m # n => told[m] = hs[m]
  BY <1>c, <1>2
<1>4. ASSUME NEW m \in 1..Len(hs)
      PROVE  /\ told[m].parent = hs[m].parent /\ told[m].index = hs[m].index
             /\ told[m].children = hs[m].children /\ told[m].local = hs[m].local
             /\ told[m].tool = hs[m].tool /\ Len(told[m].child) = Len(hs[m].child)
  <2>1. CASE m = n
    BY <1>2, <1>3, <2>1
  <2>2. CASE m # n
    BY <1>3, <2>2
  <2> QED
    BY <2>1, <2>2
<1>5. SameShape(hs, told)
  BY <1>3, <1>4 DEF SameShape
<1>6. told = WithLast(hs, n, v)
  BY <1>a, <1>b, <1>c DEF WithLast, SetLast
<1> QED
  BY <1>2, <1>3, <1>5, <1>6

LEMMA WithSlotFacts ==
    ASSUME NEW hs \in Seq(HandleSet), NEW p \in 1..Len(hs), NEW i \in 1..Len(hs[p].child),
           NEW v \in Nat
    PROVE  /\ SameShape(hs, WithSlot(hs, p, i, v))
           /\ WithSlot(hs, p, i, v)[p].child[i] = v
           /\ WithSlot(hs, p, i, v)[p].last = hs[p].last
           /\ \A j \in 1..Len(hs[p].child) :
                 j # i => WithSlot(hs, p, i, v)[p].child[j] = hs[p].child[j]
           /\ \A m \in 1..Len(hs) : m # p => WithSlot(hs, p, i, v)[m] = hs[m]
<1>a. PICK h, c : h = hs[p] /\ c = h.child
  OBVIOUS
<1>b. PICK s : s = [c EXCEPT ![i] = v]
  OBVIOUS
<1>c. PICK k : k = SetChild(h, s)
  OBVIOUS
<1>d. PICK up : up = [hs EXCEPT ![p] = k]
  OBVIOUS
<1>1. h \in HandleSet /\ c \in Seq(Nat) /\ i \in 1..Len(c)
  BY <1>a, HandleFields
<1>2. /\ s \in Seq(Nat) /\ Len(s) = Len(hs[p].child) /\ s[i] = v
      /\ \A j \in 1..Len(hs[p].child) : j # i => s[j] = hs[p].child[j]
  <2>1. /\ s \in Seq(Nat) /\ Len(s) = Len(c) /\ s[i] = v
        /\ \A j \in 1..Len(c) : j # i => s[j] = c[j]
    BY <1>b, <1>1
  <2> QED
    BY <1>a, <2>1
<1>3. /\ k \in HandleSet /\ k.parent = hs[p].parent /\ k.index = hs[p].index
      /\ k.children = hs[p].children /\ k.local = hs[p].local /\ k.child = s
      /\ k.tool = hs[p].tool /\ k.last = hs[p].last
  <2>1. /\ k \in HandleSet /\ k.parent = h.parent /\ k.index = h.index
        /\ k.children = h.children /\ k.local = h.local /\ k.child = s
        /\ k.tool = h.tool /\ k.last = h.last
    BY <1>c, <1>1, <1>2, SetChildFacts
  <2> QED
    BY <1>a, <2>1
<1>4. /\ up \in Seq(HandleSet) /\ Len(up) = Len(hs) /\ up[p] = k
      /\ \A m \in 1..Len(hs) : m # p => up[m] = hs[m]
  BY <1>d, <1>3
<1>5. ASSUME NEW m \in 1..Len(hs)
      PROVE  /\ up[m].parent = hs[m].parent /\ up[m].index = hs[m].index
             /\ up[m].children = hs[m].children /\ up[m].local = hs[m].local
             /\ up[m].tool = hs[m].tool /\ Len(up[m].child) = Len(hs[m].child)
  <2>1. CASE m = p
    BY <1>2, <1>3, <1>4, <2>1
  <2>2. CASE m # p
    BY <1>4, <2>2
  <2> QED
    BY <2>1, <2>2
<1>6. SameShape(hs, up)
  BY <1>4, <1>5 DEF SameShape
<1>7. up = WithSlot(hs, p, i, v)
  BY <1>a, <1>b, <1>c, <1>d DEF WithSlot, SetChild
<1> QED
  BY <1>2, <1>3, <1>4, <1>6, <1>7

\* What Tell makes of the handles when handle n has news.
Passed(hs, n, v) ==
    IF n = 1 THEN WithLast(hs, n, v)
    ELSE WithSlot(WithLast(hs, n, v), hs[n].parent, hs[n].index, v)

\* ks is hs, but for the news v of handle n, whose caller's is p.
News(hs, n, v, p, ks) ==
    /\ ks[n].last = v
    /\ \A m \in 1..Len(hs) : m # n => ks[m].last = hs[m].last
    /\ \A m \in 1..Len(hs) : m # p => ks[m].child = hs[m].child
    /\ n # 1 => /\ ks[p].child[hs[n].index] = v
                /\ \A i \in 1..Len(hs[p].child) :
                      i # hs[n].index => ks[p].child[i] = hs[p].child[i]
    /\ \A m \in 1..Len(hs) : m # n /\ m # p => ks[m] = hs[m]

LEMMA PassedFacts ==
    ASSUME NEW hs, HandlesOK(hs), NEW n \in 1..Len(hs), NEW v \in Nat
    PROVE  /\ SameShape(hs, Passed(hs, n, v))
           /\ News(hs, n, v, hs[n].parent, Passed(hs, n, v))
<1>a. PICK p, i, told, ks : /\ p = hs[n].parent /\ i = hs[n].index
                            /\ told = WithLast(hs, n, v) /\ ks = Passed(hs, n, v)
  OBVIOUS
<1>1. hs \in Seq(HandleSet) /\ Len(hs) \in Nat /\ hs[n] \in HandleSet
  BY HandlesFacts
<1>2. /\ SameShape(hs, told)
      /\ told[n].last = v /\ told[n].child = hs[n].child
      /\ \A m \in 1..Len(hs) : m # n => told[m] = hs[m]
  BY <1>a, <1>1, WithLastFacts
<1>3. p < n
  BY <1>a DEF HandlesOK, Placed
<1>4. CASE n = 1
  <2>1. ks = told
    BY <1>a, <1>4 DEF Passed
  <2>2. \A m \in 1..Len(hs) : ks[m].child = hs[m].child
    BY <1>2, <2>1
  <2>3. \A m \in 1..Len(hs) : m # n => ks[m].last = hs[m].last
    BY <1>2, <2>1
  <2>4. News(hs, n, v, p, ks)
    BY <1>2, <1>4, <2>1, <2>2, <2>3 DEF News
  <2> QED
    BY <1>2, <1>a, <2>1, <2>4
<1>5. CASE n # 1
  <2>1. ks = WithSlot(told, p, i, v)
    BY <1>a, <1>5 DEF Passed
  <2>2. p \in 1..Len(hs) /\ i \in 1..Len(hs[p].child)
    BY <1>a, <1>5, HandlesFacts DEF HandlesOK, Placed
  <2>3. p # n
    BY <1>3, <2>2
  <2>4. told \in Seq(HandleSet) /\ Len(told) = Len(hs) /\ told[p] = hs[p]
    BY <1>2, <2>2, <2>3 DEF SameShape
  <2>5. /\ SameShape(told, ks)
        /\ ks[p].child[i] = v /\ ks[p].last = hs[p].last
        /\ \A j \in 1..Len(hs[p].child) : j # i => ks[p].child[j] = hs[p].child[j]
        /\ \A m \in 1..Len(hs) : m # p => ks[m] = told[m]
    <3>1. p \in 1..Len(told) /\ i \in 1..Len(told[p].child)
      BY <2>2, <2>4
    <3> QED
      BY <2>1, <2>4, <3>1, WithSlotFacts
  <2>6. SameShape(hs, ks)
    BY <1>2, <2>5, SameShapeTransitive
  <2>7. ks[n] = told[n]
    BY <2>3, <2>5
  <2>8. ASSUME NEW m \in 1..Len(hs), m # n PROVE ks[m].last = hs[m].last
    <3>1. CASE m = p
      BY <2>5, <3>1
    <3>2. CASE m # p
      BY <1>2, <2>5, <2>8, <3>2
    <3> QED
      BY <3>1, <3>2
  <2>9. ASSUME NEW m \in 1..Len(hs), m # p PROVE ks[m].child = hs[m].child
    <3>1. CASE m = n
      BY <1>2, <2>7, <3>1
    <3>2. CASE m # n
      BY <1>2, <2>5, <2>9, <3>2
    <3> QED
      BY <3>1, <3>2
  <2>10. \A m \in 1..Len(hs) : m # n /\ m # p => ks[m] = hs[m]
    BY <1>2, <2>5
  <2>11. News(hs, n, v, p, ks)
    BY <1>2, <1>a, <2>5, <2>7, <2>8, <2>9, <2>10 DEF News
  <2> QED
    BY <1>a, <2>6, <2>11
<1> QED
  BY <1>4, <1>5

\* It stays a tree, and every slot holds what its handle has told.
LEMMA PassedKeeps ==
    ASSUME NEW hs, HandlesOK(hs), NEW n \in 1..Len(hs), NEW v \in Nat, Rounded(v) = v
    PROVE  HandlesOK(Passed(hs, n, v))
<1>a. PICK p, i, ks : p = hs[n].parent /\ i = hs[n].index /\ ks = Passed(hs, n, v)
  OBVIOUS
<1>1. hs \in Seq(HandleSet) /\ Len(hs) \in Nat /\ Len(hs) >= 2 /\ 2 \in 1..Len(hs)
  BY HandlesFacts
<1>2. /\ ks \in Seq(HandleSet) /\ Len(ks) = Len(hs)
      /\ \A m \in 1..Len(hs) : /\ ks[m].parent = hs[m].parent /\ ks[m].index = hs[m].index
                               /\ Len(ks[m].child) = Len(hs[m].child)
  BY <1>a, PassedFacts DEF SameShape
<1>3. /\ ks[n].last = v
      /\ \A m \in 1..Len(hs) : m # n => ks[m].last = hs[m].last
      /\ \A m \in 1..Len(hs) : m # p => ks[m].child = hs[m].child
      /\ n # 1 => /\ ks[p].child[i] = v
                  /\ \A j \in 1..Len(hs[p].child) : j # i => ks[p].child[j] = hs[p].child[j]
  <2>1. News(hs, n, v, p, ks)
    BY <1>a, PassedFacts
  <2> QED
    BY <1>a, <2>1 DEF News
<1>4. /\ \A m \in 1..Len(hs) : Placed(hs, m) /\ Rounded(hs[m].last) = hs[m].last
      /\ \A m \in 1..Len(hs) : \A j \in 1..Len(hs[m].child) : Owned(hs, m, j)
      /\ \A m, o \in 2..Len(hs) :
            hs[m].parent = hs[o].parent /\ hs[m].index = hs[o].index => m = o
      /\ hs[2].parent = 1
  BY DEF HandlesOK
<1>5. ASSUME NEW m \in 1..Len(hs) PROVE Placed(ks, m)
  <2>1. /\ hs[m].parent < m /\ (hs[m].parent = 0 <=> m = 1)
        /\ m # 1 => /\ hs[m].index \in 1..Len(hs[hs[m].parent].child)
                    /\ hs[hs[m].parent].child[hs[m].index] = hs[m].last
    BY <1>4 DEF Placed
  <2>2. ASSUME m # 1
        PROVE  /\ ks[m].index \in 1..Len(ks[ks[m].parent].child)
               /\ ks[ks[m].parent].child[ks[m].index] = ks[m].last
    <3>a. PICK q, j : q = hs[m].parent /\ j = hs[m].index
      OBVIOUS
    <3>1. q \in 1..Len(hs) /\ ks[m].parent = q /\ ks[m].index = j
      BY <1>2, <2>2, <3>a, HandlesFacts
    <3>2. j \in 1..Len(hs[q].child) /\ hs[q].child[j] = hs[m].last
      BY <2>1, <2>2, <3>a
    <3>3. j \in 1..Len(ks[q].child)
      BY <1>2, <3>1, <3>2
    <3>4. ks[q].child[j] = ks[m].last
      <4>1. CASE m = n
        BY <1>3, <1>a, <2>2, <3>a, <4>1
      <4>2. CASE m # n /\ q = p
        <5>1. n # 1
          <6>1. q # 0
            BY <3>1
          <6> QED
            BY <1>4, <1>a, <4>2, <6>1 DEF Placed
        <5>2. m \in 2..Len(hs) /\ n \in 2..Len(hs)
          BY <1>1, <2>2, <5>1
        <5>3. j # i
          BY <1>4, <1>a, <3>a, <4>2, <5>2
        <5> QED
          BY <1>3, <3>2, <4>2, <5>1, <5>3
      <4>3. CASE m # n /\ q # p
        BY <1>3, <3>1, <3>2, <4>3
      <4> QED
        BY <4>1, <4>2, <4>3
    <3> QED
      BY <3>1, <3>3, <3>4
  <2>3. ks[m].parent = hs[m].parent
    BY <1>2
  <2> QED
    BY <2>1, <2>2, <2>3 DEF Placed
<1>6. ASSUME NEW m \in 1..Len(hs) PROVE Rounded(ks[m].last) = ks[m].last
  <2>1. CASE m = n
    BY <1>3, <2>1
  <2>2. CASE m # n
    BY <1>3, <1>4, <2>2
  <2> QED
    BY <2>1, <2>2
<1>7. ASSUME NEW m \in 1..Len(hs), NEW j \in 1..Len(ks[m].child)
      PROVE  Owned(ks, m, j)
  <2>1. j \in 1..Len(hs[m].child)
    BY <1>2
  <2>2. PICK o \in 1..Len(hs) : o > m /\ hs[o].parent = m /\ hs[o].index = j
    BY <1>4, <2>1 DEF Owned
  <2> QED
    BY <1>2, <2>2 DEF Owned
<1>8. ASSUME NEW m \in 2..Len(hs), NEW o \in 2..Len(hs),
             ks[m].parent = ks[o].parent, ks[m].index = ks[o].index
      PROVE  m = o
  <2>1. m \in 1..Len(hs) /\ o \in 1..Len(hs)
    BY <1>1
  <2> QED
    BY <1>2, <1>4, <1>8, <2>1
<1>9. ks[2].parent = 1
  BY <1>1, <1>2, <1>4
<1>10. /\ ks \in Seq(HandleSet) /\ Len(ks) >= 2 /\ Len(ks) = Len(hs)
       /\ \A m \in 1..Len(ks) : Placed(ks, m) /\ Rounded(ks[m].last) = ks[m].last
  BY <1>1, <1>2, <1>5, <1>6
<1>11. \A m \in 1..Len(ks) : \A j \in 1..Len(ks[m].child) : Owned(ks, m, j)
  BY <1>7, <1>10
<1>12. \A m, o \in 2..Len(ks) :
          ks[m].parent = ks[o].parent /\ ks[m].index = ks[o].index => m = o
  BY <1>8, <1>10
<1>13. HandlesOK(ks)
  BY <1>9, <1>10, <1>11, <1>12 DEF HandlesOK
<1> QED
  BY <1>13, <1>a

-----------------------------------------------------------------------------
(* Tell *)

CallSet == [handles: Seq(HandleSet), at: Nat, value: Nat, shown: Nat]

\* What holds before and after every call: the handles that are still to be told are as
\* they were, but for a slot of the next one.
CallOK(hs, r) ==
    /\ r \in CallSet /\ r.at <= Len(hs)
    /\ HandlesOK(r.handles) /\ SameShape(hs, r.handles)
    /\ r.shown = r.handles[1].last
    /\ \A m \in 1..Len(hs) : m < r.at => r.handles[m] = hs[m]
    /\ r.at # 0 => r.handles[r.at].last = hs[r.at].last

\* Only averages exceed 100, and an average or no more than 100 is told.
CallAverages(r) ==
    /\ \A m \in 1..Len(r.handles) : m # r.at => Averaged(r.handles[m])
    /\ r.at # 0 => Rounded(r.value) <= 100 \/ r.value = Average(r.handles[r.at])

\* All that is to be told rises.
CallRises(hs, seen, r) ==
    /\ seen <= r.shown
    /\ r.at # 0 => r.handles[r.at].last <= Rounded(r.value)
    /\ \A m \in 1..Len(hs) : m < r.at => hs[m].last = Rounded(Average(hs[m]))

\* Handle n is told w, and nothing after that.
CallTells(hs, n, w, r) ==
    /\ r.at <= n
    /\ r.handles[n].child = hs[n].child
    /\ r.at < n => r.handles[n].last = w
    /\ r.at = n => Rounded(r.value) = w

\* A call is over, or goes on with the handle it was cloned from, if there is one.
LEMMA TellCases ==
    ASSUME NEW r \in CallSet, HandlesOK(r.handles), r.at \in 1..Len(r.handles)
    PROVE  LET hs == r.handles
               n == r.at
               v == Rounded(r.value)
               q == Tell(r)
               ks == Passed(hs, n, v)
           IN  \/ /\ v = hs[n].last
                  /\ q = [handles |-> hs, at |-> 0, value |-> r.value, shown |-> r.shown]
               \/ /\ v # hs[n].last /\ n = 1
                  /\ q = [handles |-> ks, at |-> 0, value |-> r.value, shown |-> v]
               \/ /\ v # hs[n].last /\ n # 1
                  /\ q = [handles |-> ks, at |-> hs[n].parent,
                          value |-> Average(ks[hs[n].parent]), shown |-> r.shown]
<1> DEFINE hs == r.handles
           n == r.at
           v == Rounded(r.value)
           ks == Passed(hs, n, v)
<1>1. n # 0 /\ (hs[n].parent = 0 <=> n = 1)
  BY DEF HandlesOK, Placed
<1>2. Tell(r) = IF v = hs[n].last THEN [r EXCEPT !.at = 0]
                ELSE IF n = 1 THEN [r EXCEPT !.at = 0, !.handles = ks, !.shown = v]
                ELSE [r EXCEPT !.at = hs[n].parent, !.handles = ks,
                               !.value = Average(ks[hs[n].parent])]
  BY <1>1 DEF Tell, Passed
<1>4. CASE v = hs[n].last
  <2>1. Tell(r) = [handles |-> hs, at |-> 0, value |-> r.value, shown |-> r.shown]
    <3>1. Tell(r) = [r EXCEPT !.at = 0]
      BY <1>2, <1>4
    <3> QED
      BY <3>1 DEF CallSet
  <2> QED
    BY <1>4, <2>1
<1>5. CASE v # hs[n].last /\ n = 1
  <2>1. Tell(r) = [handles |-> ks, at |-> 0, value |-> r.value, shown |-> v]
    <3> HIDE DEF ks, v
    <3>1. Tell(r) = [r EXCEPT !.at = 0, !.handles = ks, !.shown = v]
      BY <1>2, <1>5
    <3> QED
      BY <3>1 DEF CallSet
  <2> QED
    BY <1>5, <2>1
<1>6. CASE v # hs[n].last /\ n # 1
  <2>1. Tell(r) = [handles |-> ks, at |-> hs[n].parent,
                   value |-> Average(ks[hs[n].parent]), shown |-> r.shown]
    <3> DEFINE p == hs[n].parent
               a == Average(ks[p])
    <3> HIDE DEF ks, v, p, a
    <3>1. Tell(r) = [r EXCEPT !.at = p, !.handles = ks, !.value = a]
      BY <1>2, <1>6 DEF p, a
    <3>2. Tell(r) = [handles |-> ks, at |-> p, value |-> a, shown |-> r.shown]
      BY <3>1 DEF CallSet
    <3> QED
      BY <3>2 DEF p, a
  <2> QED
    BY <1>6, <2>1
<1> QED
  BY <1>4, <1>5, <1>6

\* Call r tells handle n of gs, whose caller's is p, v, which makes ks of the handles.
Telling(hs, r, gs, n, v, p, ks, q) ==
    /\ gs = r.handles /\ n = r.at /\ v = Rounded(r.value) /\ q = Tell(r)
    /\ HandlesOK(gs) /\ SameShape(hs, gs) /\ Len(gs) = Len(hs) /\ Len(hs) \in Nat
    /\ n \in 1..Len(hs) /\ v \in Nat
    /\ HandlesOK(ks) /\ SameShape(gs, ks) /\ SameShape(hs, ks) /\ Len(ks) = Len(hs)
    /\ p = gs[n].parent /\ p < n /\ p # n /\ (p = 0 <=> n = 1) /\ (n # 1 => p \in 1..Len(hs))
    /\ News(gs, n, v, p, ks)
    /\ \/ /\ v = gs[n].last
          /\ q = [handles |-> gs, at |-> 0, value |-> r.value, shown |-> r.shown]
       \/ /\ v # gs[n].last /\ n = 1
          /\ q = [handles |-> ks, at |-> 0, value |-> r.value, shown |-> v]
       \/ /\ v # gs[n].last /\ n # 1
          /\ q = [handles |-> ks, at |-> p, value |-> Average(ks[p]), shown |-> r.shown]

LEMMA TellIs ==
    ASSUME NEW hs, NEW r, CallOK(hs, r), r.at # 0
    PROVE  \E gs, n, v, p, ks, q : Telling(hs, r, gs, n, v, p, ks, q)
<1>a. PICK gs, n, v, ks, q : gs = r.handles /\ n = r.at /\ v = Rounded(r.value)
                             /\ ks = Passed(gs, n, v) /\ q = Tell(r)
  OBVIOUS
<1>b. PICK p : p = gs[n].parent
  OBVIOUS
<1>1. /\ r \in CallSet /\ n <= Len(hs) /\ HandlesOK(gs) /\ SameShape(hs, gs)
      /\ Len(gs) = Len(hs) /\ Len(gs) \in Nat
  BY <1>a, HandlesFacts DEF CallOK, SameShape
<1>2. n \in Nat /\ r.value \in Nat
  BY <1>1, <1>a DEF CallSet
<1>3. n \in 1..Len(gs) /\ n \in 1..Len(hs)
  BY <1>1, <1>2, <1>a
<1>4. v \in Nat /\ Rounded(v) = v
  BY <1>2, <1>a, RoundedFacts
<1>5. HandlesOK(ks)
  BY <1>1, <1>3, <1>4, <1>a, PassedKeeps
<1>6. SameShape(gs, ks) /\ News(gs, n, v, p, ks)
  BY <1>1, <1>3, <1>4, <1>a, <1>b, PassedFacts
<1>7. SameShape(hs, ks) /\ Len(ks) = Len(hs)
  BY <1>1, <1>6, SameShapeTransitive DEF SameShape
<1>8. p < n /\ (p = 0 <=> n = 1) /\ (n # 1 => p \in 1..Len(hs))
  BY <1>1, <1>3, <1>b, HandlesFacts DEF HandlesOK, Placed
<1>9. p # n
  <2>1. n # 1 => p \in Nat
    BY <1>8
  <2> QED
    BY <1>3, <1>8, <2>1
<1>10. \/ /\ v = gs[n].last
          /\ q = [handles |-> gs, at |-> 0, value |-> r.value, shown |-> r.shown]
       \/ /\ v # gs[n].last /\ n = 1
          /\ q = [handles |-> ks, at |-> 0, value |-> r.value, shown |-> v]
       \/ /\ v # gs[n].last /\ n # 1
          /\ q = [handles |-> ks, at |-> p, value |-> Average(ks[p]), shown |-> r.shown]
  BY <1>1, <1>3, <1>a, <1>b, TellCases
<1>11. Telling(hs, r, gs, n, v, p, ks, q)
  BY <1>1, <1>3, <1>4, <1>5, <1>6, <1>7, <1>8, <1>9, <1>10, <1>a, <1>b DEF Telling
<1> QED
  BY <1>11

LEMMA TellKeeps ==
    ASSUME NEW hs, NEW r, CallOK(hs, r), r.at # 0
    PROVE  CallOK(hs, Tell(r)) /\ Tell(r).at < r.at
<1>a. PICK gs, n, v, p, ks, q : Telling(hs, r, gs, n, v, p, ks, q)
  BY TellIs
<1>1. /\ gs = r.handles /\ n = r.at /\ v = Rounded(r.value) /\ q = Tell(r)
      /\ HandlesOK(gs) /\ SameShape(hs, gs) /\ Len(gs) = Len(hs) /\ Len(hs) \in Nat
      /\ n \in 1..Len(hs) /\ v \in Nat
      /\ HandlesOK(ks) /\ SameShape(gs, ks) /\ SameShape(hs, ks) /\ Len(ks) = Len(hs)
      /\ p = gs[n].parent /\ p < n /\ p # n /\ (p = 0 <=> n = 1)
      /\ n # 1 => p \in 1..Len(hs)
  BY <1>a DEF Telling
<1>2. /\ ks[n].last = v
      /\ \A m \in 1..Len(hs) : m # n => ks[m].last = gs[m].last
      /\ \A m \in 1..Len(hs) : m # p => ks[m].child = gs[m].child
      /\ n # 1 => /\ ks[p].child[gs[n].index] = v
                  /\ \A i \in 1..Len(gs[p].child) :
                        i # gs[n].index => ks[p].child[i] = gs[p].child[i]
      /\ \A m \in 1..Len(hs) : m # n /\ m # p => ks[m] = gs[m]
  BY <1>1, <1>a DEF Telling, News
<1>3. /\ v = gs[n].last
            => q = [handles |-> gs, at |-> 0, value |-> r.value, shown |-> r.shown]
      /\ v # gs[n].last /\ n = 1
            => q = [handles |-> ks, at |-> 0, value |-> r.value, shown |-> v]
      /\ v # gs[n].last /\ n # 1
            => q = [handles |-> ks, at |-> p, value |-> Average(ks[p]), shown |-> r.shown]
  BY <1>a DEF Telling
<1>4. /\ r \in CallSet /\ r.shown = gs[1].last
      /\ \A m \in 1..Len(hs) : m < n => gs[m] = hs[m]
  BY <1>1 DEF CallOK
<1>5. r.value \in Nat /\ r.shown \in Nat /\ gs \in Seq(HandleSet) /\ ks \in Seq(HandleSet)
  BY <1>1, <1>4 DEF CallSet, SameShape
<1>6. CASE v = gs[n].last
  <2>1. q \in CallSet
    BY <1>3, <1>5, <1>6 DEF CallSet
  <2>2. CallOK(hs, q)
    BY <1>1, <1>3, <1>4, <1>6, <2>1 DEF CallOK
  <2> QED
    BY <1>1, <1>3, <1>6, <2>2
<1>7. CASE v # gs[n].last /\ n = 1
  <2>1. q \in CallSet
    BY <1>1, <1>3, <1>5, <1>7 DEF CallSet
  <2>2. CallOK(hs, q)
    BY <1>1, <1>2, <1>3, <1>7, <2>1 DEF CallOK
  <2> QED
    BY <1>1, <1>3, <1>7, <2>2
<1>8. CASE v # gs[n].last /\ n # 1
  <2>1. p \in 1..Len(hs) /\ ks[p] \in HandleSet
    BY <1>1, <1>8, HandlesFacts DEF SameShape
  <2>2. Average(ks[p]) \in Nat /\ p \in Nat
    BY <2>1, AverageIsNat
  <2>3. q \in CallSet
    BY <1>3, <1>5, <1>8, <2>2 DEF CallSet
  <2>4. q.shown = ks[1].last
    <3>1. 1 \in 1..Len(hs)
      BY <1>1
    <3> QED
      BY <1>2, <1>3, <1>4, <1>8, <3>1
  <2>5. ASSUME NEW m \in 1..Len(hs), m < p PROVE ks[m] = hs[m]
    <3>1. m < n /\ m # n /\ m # p
      BY <1>1, <2>1, <2>5
    <3> QED
      BY <1>2, <1>4, <3>1
  <2>6. ks[p].last = hs[p].last
    <3>1. p # n /\ p < n
      BY <1>1, <2>1
    <3> QED
      BY <1>2, <1>4, <2>1, <3>1
  <2>7. CallOK(hs, q)
    BY <1>1, <1>3, <1>8, <2>1, <2>3, <2>4, <2>5, <2>6 DEF CallOK
  <2> QED
    BY <1>1, <1>3, <1>8, <2>7
<1> QED
  BY <1>6, <1>7, <1>8

LEMMA TellAverages ==
    ASSUME NEW hs, NEW r, CallOK(hs, r), r.at # 0, CallAverages(r)
    PROVE  CallAverages(Tell(r))
<1>a. PICK gs, n, v, p, ks, q : Telling(hs, r, gs, n, v, p, ks, q)
  BY TellIs
<1>1. /\ gs = r.handles /\ n = r.at /\ v = Rounded(r.value) /\ q = Tell(r)
      /\ HandlesOK(gs) /\ SameShape(hs, gs) /\ Len(gs) = Len(hs) /\ Len(hs) \in Nat
      /\ n \in 1..Len(hs) /\ v \in Nat
      /\ HandlesOK(ks) /\ SameShape(gs, ks) /\ SameShape(hs, ks) /\ Len(ks) = Len(hs)
      /\ p = gs[n].parent /\ p < n /\ p # n /\ (p = 0 <=> n = 1)
      /\ n # 1 => p \in 1..Len(hs)
  BY <1>a DEF Telling
<1>2. /\ ks[n].last = v
      /\ \A m \in 1..Len(hs) : m # n => ks[m].last = gs[m].last
      /\ \A m \in 1..Len(hs) : m # p => ks[m].child = gs[m].child
      /\ n # 1 => /\ ks[p].child[gs[n].index] = v
                  /\ \A i \in 1..Len(gs[p].child) :
                        i # gs[n].index => ks[p].child[i] = gs[p].child[i]
      /\ \A m \in 1..Len(hs) : m # n /\ m # p => ks[m] = gs[m]
  BY <1>1, <1>a DEF Telling, News
<1>3. /\ v = gs[n].last
            => q = [handles |-> gs, at |-> 0, value |-> r.value, shown |-> r.shown]
      /\ v # gs[n].last /\ n = 1
            => q = [handles |-> ks, at |-> 0, value |-> r.value, shown |-> v]
      /\ v # gs[n].last /\ n # 1
            => q = [handles |-> ks, at |-> p, value |-> Average(ks[p]), shown |-> r.shown]
  BY <1>a DEF Telling
<1>4. /\ \A m \in 1..Len(hs) : m # n => Averaged(gs[m])
      /\ v <= 100 \/ v = Rounded(Average(gs[n]))
  BY <1>1 DEF CallAverages
<1>5. CASE v = gs[n].last
  <2>1. Averaged(gs[n])
    BY <1>4, <1>5 DEF Averaged
  <2>2. \A m \in 1..Len(hs) : Averaged(gs[m])
    BY <1>4, <2>1
  <2> QED
    BY <1>1, <1>3, <1>5, <2>2 DEF CallAverages
<1>6. CASE v # gs[n].last
  <2>1. Averaged(ks[n])
    <3>1. ks[n].child = gs[n].child
      BY <1>1, <1>2
    <3>2. ks[n].local = gs[n].local /\ ks[n].children = gs[n].children
      BY <1>1 DEF SameShape
    <3>3. Average(ks[n]) = Average(gs[n])
      BY <3>1, <3>2 DEF Average
    <3> QED
      BY <1>2, <1>4, <3>3 DEF Averaged
  <2>2. ASSUME NEW m \in 1..Len(hs), m # p PROVE Averaged(ks[m])
    <3>1. CASE m = n
      BY <2>1, <3>1
    <3>2. CASE m # n
      BY <1>2, <1>4, <2>2, <3>2
    <3> QED
      BY <3>1, <3>2
  <2>3. q.handles = ks /\ Len(ks) = Len(hs)
    BY <1>1, <1>3, <1>6 DEF SameShape
  <2>4. CASE n = 1
    <3>1. q.at = 0 /\ p = 0
      BY <1>1, <1>3, <1>6, <2>4
    <3>2. \A m \in 1..Len(ks) : Averaged(ks[m])
      BY <2>2, <2>3, <3>1
    <3> QED
      BY <1>1, <2>3, <3>1, <3>2 DEF CallAverages
  <2>5. CASE n # 1
    <3>1. q.at = p /\ q.value = Average(ks[p])
      BY <1>3, <1>6, <2>5
    <3> QED
      BY <1>1, <2>2, <2>3, <3>1 DEF CallAverages
  <2> QED
    BY <2>4, <2>5
<1> QED
  BY <1>5, <1>6

LEMMA TellRises ==
    ASSUME NEW hs, NEW seen \in Nat, NEW r, CallOK(hs, r), r.at # 0, CallRises(hs, seen, r)
    PROVE  CallRises(hs, seen, Tell(r))
<1>a. PICK gs, n, v, p, ks, q : Telling(hs, r, gs, n, v, p, ks, q)
  BY TellIs
<1>1. /\ gs = r.handles /\ n = r.at /\ v = Rounded(r.value) /\ q = Tell(r)
      /\ HandlesOK(gs) /\ SameShape(hs, gs) /\ Len(gs) = Len(hs) /\ Len(hs) \in Nat
      /\ n \in 1..Len(hs) /\ v \in Nat
      /\ HandlesOK(ks) /\ SameShape(gs, ks) /\ SameShape(hs, ks) /\ Len(ks) = Len(hs)
      /\ p = gs[n].parent /\ p < n /\ p # n /\ (p = 0 <=> n = 1)
      /\ n # 1 => p \in 1..Len(hs)
  BY <1>a DEF Telling
<1>2. /\ ks[n].last = v
      /\ \A m \in 1..Len(hs) : m # n => ks[m].last = gs[m].last
      /\ \A m \in 1..Len(hs) : m # p => ks[m].child = gs[m].child
      /\ n # 1 => /\ ks[p].child[gs[n].index] = v
                  /\ \A i \in 1..Len(gs[p].child) :
                        i # gs[n].index => ks[p].child[i] = gs[p].child[i]
      /\ \A m \in 1..Len(hs) : m # n /\ m # p => ks[m] = gs[m]
  BY <1>1, <1>a DEF Telling, News
<1>3. /\ v = gs[n].last
            => q = [handles |-> gs, at |-> 0, value |-> r.value, shown |-> r.shown]
      /\ v # gs[n].last /\ n = 1
            => q = [handles |-> ks, at |-> 0, value |-> r.value, shown |-> v]
      /\ v # gs[n].last /\ n # 1
            => q = [handles |-> ks, at |-> p, value |-> Average(ks[p]), shown |-> r.shown]
  BY <1>a DEF Telling
<1>4. /\ seen <= r.shown /\ gs[n].last <= v
      /\ \A m \in 1..Len(hs) : m < n => hs[m].last = Rounded(Average(hs[m]))
  BY <1>1 DEF CallRises
<1>5. /\ r.shown = gs[1].last /\ r.shown \in Nat
      /\ \A m \in 1..Len(hs) : m < n => gs[m] = hs[m]
  BY <1>1 DEF CallOK, CallSet
<1>6. CASE v = gs[n].last
  BY <1>1, <1>3, <1>4, <1>6 DEF CallRises
<1>7. CASE v # gs[n].last /\ n = 1
  <2>1. q.at = 0 /\ q.shown = v /\ seen <= v
    BY <1>1, <1>3, <1>4, <1>5, <1>7
  <2> QED
    BY <1>1, <2>1 DEF CallRises
<1>8. CASE v # gs[n].last /\ n # 1
  <2>1. p \in 1..Len(hs) /\ p # n /\ p \in Nat
    BY <1>1, <1>8
  <2>2. gs[p] \in HandleSet /\ ks[p] \in HandleSet
    BY <1>1, <2>1, HandlesFacts DEF SameShape
  <2>3. /\ ks[p].children = gs[p].children /\ ks[p].local = gs[p].local
        /\ Len(ks[p].child) = Len(gs[p].child)
    BY <1>1, <2>1 DEF SameShape
  <2>4. ASSUME NEW i \in 1..Len(gs[p].child) PROVE gs[p].child[i] <= ks[p].child[i]
    <3>1. CASE i = gs[n].index
      <4>1. gs[p].child[i] = gs[n].last
        BY <1>1, <1>8, <3>1 DEF HandlesOK, Placed
      <4> QED
        BY <1>2, <1>4, <1>8, <3>1, <4>1
    <3>2. CASE i # gs[n].index
      <4>1. ks[p].child[i] = gs[p].child[i]
        BY <1>2, <1>8, <3>2
      <4>2. gs[p].child[i] \in Nat
        BY <2>2, HandleFields
      <4> QED
        BY <4>1, <4>2
    <3> QED
      BY <3>1, <3>2
  <2>5. gs[p].local <= ks[p].local
    BY <2>2, <2>3, HandleFields
  <2>6. Average(gs[p]) <= Average(ks[p])
    BY <2>2, <2>3, <2>4, <2>5, AverageMonotone
  <2>7. Rounded(Average(gs[p])) <= Rounded(Average(ks[p]))
    BY <2>2, <2>6, AverageIsNat, RoundedFacts
  <2>8. ks[p].last = Rounded(Average(gs[p]))
    <3>1. gs[p] = hs[p] /\ hs[p].last = Rounded(Average(hs[p]))
      BY <1>1, <1>4, <1>5, <2>1
    <3>2. ks[p].last = gs[p].last
      BY <1>2, <2>1
    <3> QED
      BY <3>1, <3>2
  <2>9. \A m \in 1..Len(hs) : m < p => hs[m].last = Rounded(Average(hs[m]))
    BY <1>1, <1>4, <2>1
  <2> QED
    BY <1>1, <1>3, <1>4, <1>8, <2>7, <2>8, <2>9 DEF CallRises
<1> QED
  BY <1>6, <1>7, <1>8

LEMMA TellTells ==
    ASSUME NEW hs, NEW o \in 1..Len(hs), NEW w, NEW r, CallOK(hs, r), r.at # 0,
           CallTells(hs, o, w, r)
    PROVE  CallTells(hs, o, w, Tell(r))
<1>a. PICK gs, n, v, p, ks, q : Telling(hs, r, gs, n, v, p, ks, q)
  BY TellIs
<1>1. /\ gs = r.handles /\ n = r.at /\ v = Rounded(r.value) /\ q = Tell(r)
      /\ HandlesOK(gs) /\ SameShape(hs, gs) /\ Len(gs) = Len(hs) /\ Len(hs) \in Nat
      /\ n \in 1..Len(hs) /\ v \in Nat
      /\ HandlesOK(ks) /\ SameShape(gs, ks) /\ SameShape(hs, ks) /\ Len(ks) = Len(hs)
      /\ p = gs[n].parent /\ p < n /\ p # n /\ (p = 0 <=> n = 1)
      /\ n # 1 => p \in 1..Len(hs)
  BY <1>a DEF Telling
<1>2. /\ ks[n].last = v
      /\ \A m \in 1..Len(hs) : m # n => ks[m].last = gs[m].last
      /\ \A m \in 1..Len(hs) : m # p => ks[m].child = gs[m].child
      /\ n # 1 => /\ ks[p].child[gs[n].index] = v
                  /\ \A i \in 1..Len(gs[p].child) :
                        i # gs[n].index => ks[p].child[i] = gs[p].child[i]
      /\ \A m \in 1..Len(hs) : m # n /\ m # p => ks[m] = gs[m]
  BY <1>1, <1>a DEF Telling, News
<1>3. /\ v = gs[n].last
            => q = [handles |-> gs, at |-> 0, value |-> r.value, shown |-> r.shown]
      /\ v # gs[n].last /\ n = 1
            => q = [handles |-> ks, at |-> 0, value |-> r.value, shown |-> v]
      /\ v # gs[n].last /\ n # 1
            => q = [handles |-> ks, at |-> p, value |-> Average(ks[p]), shown |-> r.shown]
  BY <1>a DEF Telling
<1>4. /\ n <= o /\ gs[o].child = hs[o].child
      /\ n < o => gs[o].last = w
      /\ n = o => v = w
  BY <1>1 DEF CallTells
<1>5. CASE v = gs[n].last
  <2>1. gs[o].last = w
    BY <1>1, <1>4, <1>5
  <2> QED
    BY <1>1, <1>3, <1>4, <1>5, <2>1 DEF CallTells
<1>6. CASE v # gs[n].last
  <2>1. q.handles = ks /\ q.at < o
    BY <1>1, <1>3, <1>4, <1>6
  <2>2. o # p
    BY <1>1, <1>4
  <2>3. ks[o].child = hs[o].child
    BY <1>2, <1>4, <2>2
  <2>4. ks[o].last = w
    <3>1. CASE n = o
      BY <1>2, <1>4, <3>1
    <3>2. CASE n # o
      <4>1. n < o
        BY <1>1, <1>4, <3>2
      <4>2. ks[o].last = gs[o].last
        BY <1>2, <3>2
      <4> QED
        BY <1>4, <4>1, <4>2
    <3> QED
      BY <3>1, <3>2
  <2>5. q.at \in Nat
    BY <1>1, TellKeeps DEF CallOK, CallSet
  <2> QED
    BY <1>1, <2>1, <2>3, <2>4, <2>5 DEF CallTells
<1> QED
  BY <1>5, <1>6

\* The calls that Progress makes, as far as l.
IsCalls(f, r, l) == f = [k \in 0..l |-> IF k = 0 THEN r ELSE Tell(f[k - 1])]

\* They exist, like the partial sums.
LEMMA CallsExist ==
    ASSUME NEW r, NEW l \in Nat
    PROVE  \E f : IsCalls(f, r, l)
<1> DEFINE without == {n \in Nat : ~ \E f : IsCalls(f, r, n)}
<1>1. CASE without = {}
  BY <1>1
<1>2. CASE without # {}
  <2>1. PICK n \in without : \A m \in without : n <= m
    BY <1>2, LeastExists
  <2>2. n \in Nat /\ ~ \E f : IsCalls(f, r, n)
    BY <2>1
  <2>3. n # 0
    <3>1. IsCalls([m \in 0..0 |-> r], r, 0)
      BY DEF IsCalls
    <3> QED
      BY <2>2, <3>1
  <2>4. n - 1 \in Nat /\ n - 1 \notin without
    BY <2>1, <2>2, <2>3
  <2>5. PICK f : IsCalls(f, r, n - 1)
    BY <2>4
  <2> DEFINE g == [m \in 0..n |-> IF m = n THEN Tell(f[n - 1]) ELSE f[m]]
  <2>6. IsCalls(g, r, n)
    <3>1. \A m \in 0..n : g[m] = IF m = 0 THEN r ELSE Tell(g[m - 1])
      <4> SUFFICES ASSUME NEW m \in 0..n
                   PROVE  g[m] = IF m = 0 THEN r ELSE Tell(g[m - 1])
        OBVIOUS
      <4>1. CASE m = n
        <5>1. g[n] = Tell(f[n - 1]) /\ n \in 0..n /\ n - 1 \in 0..n /\ n - 1 # n
          BY <2>2, <2>3
        <5>2. g[n - 1] = f[n - 1]
          BY <5>1
        <5> QED
          BY <2>3, <4>1, <5>1, <5>2
      <4>2. CASE m # n
        <5>1. m \in 0..(n - 1)
          BY <2>2, <4>2
        <5>2. f[m] = IF m = 0 THEN r ELSE Tell(f[m - 1])
          BY <2>5, <5>1 DEF IsCalls
        <5>3. g[m] = f[m] /\ (m # 0 => g[m - 1] = f[m - 1])
          BY <2>2, <4>2, <5>1
        <5> QED
          BY <5>2, <5>3
      <4> QED
        BY <4>1, <4>2
    <3>2. g = [m \in 0..n |-> g[m]]
      OBVIOUS
    <3> HIDE DEF g
    <3> QED
      BY <3>1, <3>2 DEF IsCalls
  <2> QED
    BY <2>2, <2>6
<1> QED
  BY <1>1, <1>2

FirstCall(hs, n, value) == [handles |-> hs, at |-> n, value |-> value, shown |-> shown]

\* Progress calls Tell n times.
LEMMA ProgressIs ==
    ASSUME NEW hs, NEW n \in Nat, NEW value
    PROVE  \E f : /\ Progress(hs, n, value) = f[n] /\ f[0] = FirstCall(hs, n, value)
                  /\ \A k \in 1..n : f[k] = Tell(f[k - 1])
<1> DEFINE r == FirstCall(hs, n, value)
           f == CHOOSE f : IsCalls(f, r, n)
<1>1. IsCalls(f, r, n)
  BY CallsExist
<1>2. Progress(hs, n, value) = f[n]
  BY DEF Progress, IsCalls, FirstCall
<1> HIDE DEF f
<1>3. f[0] = r /\ \A k \in 1..n : f[k] = Tell(f[k - 1])
  BY <1>1 DEF IsCalls
<1> QED
  BY <1>2, <1>3

\* Nothing happens after the last call.
LEMMA TellNobody ==
    ASSUME NEW r \in CallSet, r.at = 0
    PROVE  Tell(r) = r
<1>1. Tell(r) = [r EXCEPT !.at = 0]
  BY DEF Tell
<1> QED
  BY <1>1 DEF CallSet


\* What a report leaves behind, by induction over the calls: a first call that is
\* not as it should be would follow one that is.
LEMMA ReportFacts ==
    ASSUME NEW hs, NEW n \in 1..Len(hs), Len(hs) \in Nat, NEW value, NEW seen \in Nat,
           NEW w, CallOK(hs, FirstCall(hs, n, value))
    PROVE  LET r == Progress(hs, n, value)
               first == FirstCall(hs, n, value)
           IN  /\ CallOK(hs, r) /\ r.at = 0
               /\ CallAverages(first) => CallAverages(r)
               /\ CallRises(hs, seen, first) => CallRises(hs, seen, r)
               /\ CallTells(hs, n, w, first) => CallTells(hs, n, w, r)
<1>a. PICK first : first = FirstCall(hs, n, value)
  OBVIOUS
<1>b. first.at = n /\ CallOK(hs, first)
  BY <1>a DEF FirstCall
<1>c. n \in Nat /\ n # 0
  OBVIOUS
<1>d. PICK f : /\ Progress(hs, n, value) = f[n] /\ f[0] = FirstCall(hs, n, value)
               /\ \A k \in 1..n : f[k] = Tell(f[k - 1])
  BY <1>c, ProgressIs
<1>1. /\ Progress(hs, n, value) = f[n] /\ f[0] = first
      /\ \A k \in 1..n : f[k] = Tell(f[k - 1])
  BY <1>a, <1>d, Zenon
<1> DEFINE Good(k) == /\ CallOK(hs, f[k]) /\ f[k].at <= n - k
                      /\ CallAverages(first) => CallAverages(f[k])
                      /\ CallRises(hs, seen, first) => CallRises(hs, seen, f[k])
                      /\ CallTells(hs, n, w, first) => CallTells(hs, n, w, f[k])
           bad == {k \in 0..n : ~Good(k)}
<1>2. CASE bad = {}
  <2>1. Good(n)
    BY <1>2
  <2>2. f[n].at \in Nat
    BY <2>1 DEF CallOK, CallSet
  <2>3. f[n].at = 0
    BY <2>1, <2>2
  <2> HIDE DEF bad
  <2> QED
    BY <1>1, <1>a, <2>1, <2>3
<1>3. CASE bad # {}
  <2>1. PICK k \in 0..n : k \in bad /\ (k # 0 => k - 1 \in 0..n /\ k - 1 \notin bad)
    BY <1>3, <1>c, LeastUpTo
  <2>2. ~Good(k)
    BY <2>1
  <2>3. Good(0)
    BY <1>1, <1>b
  <2>4. k # 0 /\ k \in 1..n /\ Good(k - 1)
    BY <2>1, <2>2, <2>3
  <2>5. PICK r : r = f[k - 1]
    OBVIOUS
  <2>6. f[k] = Tell(r)
    BY <1>1, <2>4, <2>5
  <2>7. /\ CallOK(hs, r) /\ r.at <= n - (k - 1) /\ r.at \in Nat /\ r \in CallSet
        /\ CallAverages(first) => CallAverages(r)
        /\ CallRises(hs, seen, first) => CallRises(hs, seen, r)
        /\ CallTells(hs, n, w, first) => CallTells(hs, n, w, r)
    BY <2>4, <2>5 DEF CallOK, CallSet
  <2>8. CASE r.at = 0
    <3>1. f[k] = r
      BY <2>6, <2>7, <2>8, TellNobody
    <3>2. r.at <= n - k
      BY <2>1, <2>8
    <3> QED
      BY <2>2, <2>7, <3>1, <3>2
  <2>9. CASE r.at # 0
    <3>1. PICK q : q = Tell(r)
      OBVIOUS
    <3>2. /\ CallOK(hs, q) /\ q.at < r.at
          /\ CallAverages(r) => CallAverages(q)
          /\ CallRises(hs, seen, r) => CallRises(hs, seen, q)
          /\ CallTells(hs, n, w, r) => CallTells(hs, n, w, q)
      BY <2>7, <2>9, <3>1, TellKeeps, TellAverages, TellRises, TellTells
    <3>3. q.at \in Nat
      BY <3>2 DEF CallOK, CallSet
    <3>4. q.at <= n - k
      BY <2>1, <2>7, <3>2, <3>3
    <3>5. f[k] = q
      BY <2>6, <3>1
    <3> QED
      BY <2>2, <2>7, <3>2, <3>4, <3>5
  <2> QED
    BY <2>8, <2>9
<1> QED
  BY <1>2, <1>3

-----------------------------------------------------------------------------
(* Reports *)

\* What NeverBackwards says of a step.
Forward ==
    shown' < shown =>
       \E n \in DOMAIN handles : \/ handles'[n].local < handles[n].local
                                \/ Overridden(handles[n]) \/ Overridden(handles'[n])

LEMMA ReportKeeps ==
    ASSUME NEW hs, HandlesOK(hs), NEW n \in 1..Len(hs), NEW value \in Nat,
           shown = hs[1].last, Report(hs, n, value)
    PROVE  /\ HandlesOK(handles') /\ SameShape(hs, handles')
           /\ shown' = handles'[1].last
           /\ handles'[n].child = hs[n].child /\ handles'[n].last = Rounded(value)
           /\ /\ \A m \in 1..Len(hs) : m # n => Averaged(hs[m])
              /\ value <= 100 \/ value = Average(hs[n])
              => AveragesOK(handles')
           /\ /\ \A m \in 1..Len(hs) : m < n => hs[m].last = Rounded(Average(hs[m]))
              /\ hs[n].last <= Rounded(value)
              => shown <= shown'
<1>a. PICK first, r, w : /\ first = FirstCall(hs, n, value) /\ r = Progress(hs, n, value)
                         /\ w = Rounded(value)
  OBVIOUS
<1>1. first = [handles |-> hs, at |-> n, value |-> value, shown |-> shown]
  BY <1>a DEF FirstCall
<1>2. /\ hs \in Seq(HandleSet) /\ Len(hs) \in Nat /\ 1 \in 1..Len(hs) /\ hs[1] \in HandleSet
      /\ n \in Nat /\ n <= Len(hs) /\ n # 0
  BY HandlesFacts
<1>3. shown \in Nat
  BY <1>2, HandleFields
<1>4. first \in CallSet /\ first.handles = hs /\ first.at = n /\ first.value = value
      /\ first.shown = shown
  BY <1>1, <1>2, <1>3 DEF CallSet
<1>5. SameShape(hs, hs)
  BY <1>2 DEF SameShape
<1>6. CallOK(hs, first)
  BY <1>2, <1>4, <1>5 DEF CallOK
<1>7. CallTells(hs, n, w, first)
  BY <1>2, <1>4, <1>a DEF CallTells
<1>8. /\ CallOK(hs, r) /\ r.at = 0
      /\ CallAverages(first) => CallAverages(r)
      /\ CallRises(hs, shown, first) => CallRises(hs, shown, r)
      /\ CallTells(hs, n, w, first) => CallTells(hs, n, w, r)
  BY <1>2, <1>3, <1>6, <1>a, ReportFacts
<1>9. handles' = r.handles /\ shown' = r.shown
  BY <1>a DEF Report
<1>10. HandlesOK(handles') /\ SameShape(hs, handles') /\ shown' = handles'[1].last
  BY <1>8, <1>9 DEF CallOK
<1>11. handles'[n].child = hs[n].child /\ handles'[n].last = w
  BY <1>2, <1>7, <1>8, <1>9 DEF CallTells
<1>12. ASSUME \A m \in 1..Len(hs) : m # n => Averaged(hs[m]),
              value <= 100 \/ value = Average(hs[n])
       PROVE  AveragesOK(handles')
  <2>1. w <= 100 \/ value = Average(hs[n])
    <3>1. w <= value /\ w \in Nat
      BY <1>a, RoundedFacts
    <3> QED
      BY <1>12, <3>1
  <2>2. CallAverages(first)
    BY <1>4, <1>12, <1>a, <2>1 DEF CallAverages
  <2>3. \A m \in 1..Len(r.handles) : m # 0 => Averaged(r.handles[m])
    BY <1>8, <2>2 DEF CallAverages
  <2>4. \A m \in 1..Len(r.handles) : m # 0
    OBVIOUS
  <2> QED
    BY <1>9, <2>3, <2>4 DEF AveragesOK
<1>13. ASSUME \A m \in 1..Len(hs) : m < n => hs[m].last = Rounded(Average(hs[m])),
              hs[n].last <= w
       PROVE  shown <= shown'
  <2>1. CallRises(hs, shown, first)
    BY <1>3, <1>4, <1>13, <1>a DEF CallRises
  <2> QED
    BY <1>8, <1>9, <2>1 DEF CallRises
<1> QED
  BY <1>10, <1>11, <1>12, <1>13, <1>a

\* Nothing to show for handles that have told their averages.
NoneOverridden == \A n \in DOMAIN handles : ~Overridden(handles[n])

\* The subscriber's, an apply function's or the end of an apply's report.
LEMMA DirectKeeps ==
    ASSUME HandlesOK(handles), AveragesOK(handles), shown = handles[1].last,
           NEW n \in 1..Len(handles), NEW value \in 0..100, Direct(n, value)
    PROVE  /\ HandlesOK(handles') /\ AveragesOK(handles') /\ shown' = handles'[1].last
           /\ Len(handles') = Len(handles)
           /\ handles'[n].last = Rounded(value)
           /\ Forward
<1>1. Report(handles, n, value) /\ value \in Nat /\ value <= 100
  BY DEF Direct
<1>2. /\ HandlesOK(handles') /\ SameShape(handles, handles') /\ shown' = handles'[1].last
      /\ handles'[n].child = handles[n].child /\ handles'[n].last = Rounded(value)
      /\ /\ \A m \in 1..Len(handles) : m # n => Averaged(handles[m])
         /\ value <= 100 \/ value = Average(handles[n])
         => AveragesOK(handles')
      /\ /\ \A m \in 1..Len(handles) :
               m < n => handles[m].last = Rounded(Average(handles[m]))
         /\ handles[n].last <= Rounded(value)
         => shown <= shown'
  BY <1>1, ReportKeeps
<1>3. AveragesOK(handles')
  BY <1>1, <1>2 DEF AveragesOK
<1>4. Len(handles') = Len(handles) /\ DOMAIN handles = 1..Len(handles)
  BY <1>2, HandlesFacts DEF SameShape
<1>5. ASSUME shown' < shown, ~Overridden(handles'[n]), NoneOverridden PROVE FALSE
  <2>1. \A m \in 1..Len(handles) : handles[m].last = Rounded(Average(handles[m]))
    BY <1>4, <1>5 DEF NoneOverridden, Overridden
  <2>2. Average(handles'[n]) = Average(handles[n])
    BY <1>2 DEF SameShape, Average
  <2>3. handles[n].last = Rounded(value)
    BY <1>2, <1>5, <2>1, <2>2 DEF Overridden
  <2>4. handles[n].last <= Rounded(value)
    BY <1>1, <2>3, RoundedFacts
  <2>5. shown <= shown'
    BY <1>2, <2>1, <2>4
  <2>6. shown \in Nat /\ shown' \in Nat
    BY <1>2, HandlesFacts, HandleFields
  <2> QED
    BY <1>5, <2>5, <2>6
<1>6. Forward
  BY <1>4, <1>5 DEF Forward, NoneOverridden
<1> QED
  BY <1>2, <1>3, <1>4, <1>6

\* A handle whose own share has changed.
WithLocal(hs, n, x) == [hs EXCEPT ![n] = SetLocal(hs[n], x)]

Shared(hs, n, x, ks) ==
    /\ HandlesOK(ks) /\ Len(ks) = Len(hs)
    /\ ks[n].local = x /\ ks[n].child = hs[n].child
    /\ ks[n].children = hs[n].children /\ ks[n].last = hs[n].last
    /\ ks[1].last = hs[1].last
    /\ \A m \in 1..Len(hs) : m # n => ks[m] = hs[m]

LEMMA WithLocalFacts ==
    ASSUME NEW hs, HandlesOK(hs), NEW n \in 1..Len(hs), NEW x \in 0..90
    PROVE  Shared(hs, n, x, WithLocal(hs, n, x))
<1>a. PICK k, ks : k = SetLocal(hs[n], x) /\ ks = WithLocal(hs, n, x)
  OBVIOUS
<1>1. hs \in Seq(HandleSet) /\ Len(hs) \in Nat /\ Len(hs) >= 2 /\ hs[n] \in HandleSet
      /\ 1 \in 1..Len(hs) /\ 2 \in 1..Len(hs)
  BY HandlesFacts
<1>2. /\ k \in HandleSet /\ k.local = x /\ k.parent = hs[n].parent /\ k.index = hs[n].index
      /\ k.children = hs[n].children /\ k.child = hs[n].child /\ k.last = hs[n].last
  BY <1>1, <1>a, SetLocalFacts
<1>3. ks = [hs EXCEPT ![n] = k]
  BY <1>a DEF WithLocal
<1>4. /\ ks \in Seq(HandleSet) /\ Len(ks) = Len(hs) /\ ks[n] = k
      /\ \A m \in 1..Len(hs) : m # n => ks[m] = hs[m]
  BY <1>1, <1>2, <1>3
<1>5. ASSUME NEW m \in 1..Len(hs)
      PROVE  /\ ks[m].parent = hs[m].parent /\ ks[m].index = hs[m].index
             /\ ks[m].child = hs[m].child /\ ks[m].last = hs[m].last
  <2>1. CASE m = n
    BY <1>2, <1>4, <2>1
  <2>2. CASE m # n
    BY <1>4, <2>2
  <2> QED
    BY <2>1, <2>2
<1>6. HandlesOK(ks)
  <2>1. ASSUME NEW m \in 1..Len(ks) PROVE Placed(ks, m) /\ Rounded(ks[m].last) = ks[m].last
    <3>1. m \in 1..Len(hs) /\ Placed(hs, m) /\ Rounded(hs[m].last) = hs[m].last
      BY <1>4 DEF HandlesOK
    <3>2. m # 1 => hs[m].parent \in 1..Len(hs)
      BY <3>1, HandlesFacts
    <3> QED
      BY <1>5, <3>1, <3>2 DEF Placed
  <2>2. ASSUME NEW m \in 1..Len(ks), NEW i \in 1..Len(ks[m].child) PROVE Owned(ks, m, i)
    <3>1. m \in 1..Len(hs) /\ i \in 1..Len(hs[m].child)
      BY <1>4, <1>5
    <3>2. PICK o \in 1..Len(hs) : o > m /\ hs[o].parent = m /\ hs[o].index = i
      BY <3>1 DEF HandlesOK, Owned
    <3> QED
      BY <1>4, <1>5, <3>2 DEF Owned
  <2>3. \A m, o \in 2..Len(ks) :
           ks[m].parent = ks[o].parent /\ ks[m].index = ks[o].index => m = o
    <3>1. \A m, o \in 2..Len(hs) :
             hs[m].parent = hs[o].parent /\ hs[m].index = hs[o].index => m = o
      BY DEF HandlesOK
    <3>2. \A m \in 2..Len(hs) : m \in 1..Len(hs)
      BY <1>1
    <3> QED
      BY <1>4, <1>5, <3>1, <3>2
  <2>4. ks[2].parent = 1
    BY <1>1, <1>5 DEF HandlesOK
  <2> QED
    BY <1>1, <1>4, <2>1, <2>2, <2>3, <2>4 DEF HandlesOK
<1>7. Shared(hs, n, x, ks)
  BY <1>1, <1>2, <1>4, <1>5, <1>6 DEF Shared
<1> QED
  BY <1>7, <1>a

\* A tool's line leaves at most 90 percent to it.
LEMMA ShareBounds ==
    ASSUME NEW matched \in Nat, NEW count \in Nat, ~Ignored(matched, count)
    PROVE  (matched * 90) \div count \in 0..90
<1>1. count \in Nat \ {0} /\ matched <= count
  BY DEF Ignored
<1>2. matched * 90 \in Nat /\ matched * 90 <= 90 * count
  BY <1>1
<1> QED
  BY <1>1, <1>2, Quotient, QuotientBound

\* A line of the tool that works for handle n.
LEMMA MatchedKeeps ==
    ASSUME HandlesOK(handles), AveragesOK(handles), shown = handles[1].last,
           NEW n \in 1..Len(handles), NEW matched \in Nat, NEW count \in Nat,
           Matched(n, matched, count)
    PROVE  /\ HandlesOK(handles') /\ AveragesOK(handles') /\ shown' = handles'[1].last
           /\ Len(handles') = Len(handles)
           /\ Forward
<1>0. /\ DOMAIN handles = 1..Len(handles) /\ handles[n] \in HandleSet
      /\ shown \in Nat
  BY HandlesFacts, HandleFields
<1>1. CASE Ignored(matched, count)
  <2>1. handles' = handles /\ shown' = shown
    BY <1>1 DEF Matched
  <2>2. Forward
    BY <1>0, <2>1 DEF Forward
  <2> QED
    BY <2>1, <2>2
<1>2. CASE ~Ignored(matched, count)
  <2>a. PICK x : x = (matched * 90) \div count
    OBVIOUS
  <2>b. PICK hs : hs = WithLocal(handles, n, x)
    OBVIOUS
  <2>1. x \in 0..90
    BY <1>2, <2>a, ShareBounds
  <2>2. /\ HandlesOK(hs) /\ Len(hs) = Len(handles)
        /\ hs[n].local = x /\ hs[n].child = handles[n].child
        /\ hs[n].children = handles[n].children /\ hs[n].last = handles[n].last
        /\ hs[1].last = handles[1].last
        /\ \A m \in 1..Len(handles) : m # n => hs[m] = handles[m]
    <3>1. Shared(handles, n, x, hs)
      BY <2>1, <2>b, WithLocalFacts
    <3> QED
      BY <3>1 DEF Shared
  <2>3. n \in 1..Len(hs) /\ hs[n] \in HandleSet
    BY <2>2, HandlesFacts
  <2>4. Local(handles[n], matched, count) = SetLocal(handles[n], x)
    BY <1>2, <2>a DEF Local, SetLocal
  <2>5. hs = [handles EXCEPT ![n] = SetLocal(handles[n], x)]
    BY <2>b DEF WithLocal
  <2>6. hs[n] = SetLocal(handles[n], x)
    BY <1>0, <2>5
  <2>7. Report(hs, n, Average(hs[n]))
    BY <1>2, <2>4, <2>5, <2>6 DEF Matched
  <2>8. Average(hs[n]) \in Nat
    BY <2>3, AverageIsNat
  <2>9. /\ HandlesOK(handles') /\ SameShape(hs, handles') /\ shown' = handles'[1].last
        /\ /\ \A m \in 1..Len(hs) : m # n => Averaged(hs[m])
           /\ Average(hs[n]) <= 100 \/ Average(hs[n]) = Average(hs[n])
           => AveragesOK(handles')
        /\ /\ \A m \in 1..Len(hs) : m < n => hs[m].last = Rounded(Average(hs[m]))
           /\ hs[n].last <= Rounded(Average(hs[n]))
           => shown <= shown'
    BY <2>2, <2>3, <2>7, <2>8, ReportKeeps
  <2>10. \A m \in 1..Len(hs) : m # n => Averaged(hs[m])
    BY <2>2 DEF AveragesOK
  <2>11. AveragesOK(handles')
    BY <2>9, <2>10
  <2>12. Len(handles') = Len(handles)
    BY <2>2, <2>9 DEF SameShape
  <2>13. ASSUME shown' < shown, ~(handles'[n].local < handles[n].local), NoneOverridden
         PROVE  FALSE
    <3>1. \A m \in 1..Len(handles) : handles[m].last = Rounded(Average(handles[m]))
      BY <1>0, <2>13 DEF NoneOverridden, Overridden
    <3>2. handles'[n].local = x
      BY <2>2, <2>3, <2>9 DEF SameShape
    <3>3. handles[n].local <= hs[n].local
      <4>1. handles[n].local \in Nat
        BY <1>0, HandleFields
      <4>2. x \in Nat
        BY <2>1
      <4>3. ~(x < handles[n].local)
        BY <2>13, <3>2, Zenon
      <4> QED
        BY <2>2, <4>1, <4>2, <4>3
    <3>4. \A i \in 1..Len(handles[n].child) : handles[n].child[i] <= hs[n].child[i]
      <4> SUFFICES ASSUME NEW i \in 1..Len(handles[n].child)
                   PROVE  handles[n].child[i] <= hs[n].child[i]
        OBVIOUS
      <4>1. handles[n].child \in Seq(Nat)
        BY <1>0, HandleFields
      <4>2. handles[n].child[i] \in Nat
        BY <4>1
      <4> QED
        BY <2>2, <4>2
    <3>5. Average(handles[n]) <= Average(hs[n])
      BY <1>0, <2>2, <2>3, <3>3, <3>4, AverageMonotone
    <3>6. Rounded(Average(handles[n])) <= Rounded(Average(hs[n]))
      BY <1>0, <2>8, <3>5, AverageIsNat, RoundedFacts
    <3>7. hs[n].last <= Rounded(Average(hs[n]))
      BY <2>2, <3>1, <3>6
    <3>8. \A m \in 1..Len(hs) : m < n => hs[m].last = Rounded(Average(hs[m]))
      <4> SUFFICES ASSUME NEW m \in 1..Len(hs), m < n
                   PROVE  hs[m].last = Rounded(Average(hs[m]))
        OBVIOUS
      <4>1. m \in 1..Len(handles) /\ m # n
        BY <2>2
      <4> QED
        BY <2>2, <3>1, <4>1
    <3>9. shown <= shown'
      BY <2>9, <3>7, <3>8
    <3>10. shown' \in Nat
      BY <2>9, HandlesFacts, HandleFields
    <3> QED
      BY <1>0, <2>13, <3>9, <3>10
  <2>14. Forward
    BY <1>0, <2>13 DEF Forward, NoneOverridden
  <2> QED
    BY <2>9, <2>11, <2>12, <2>14
<1> QED
  BY <1>1, <1>2

-----------------------------------------------------------------------------
(* Clones *)

LEMMA ChartFacts ==
    ASSUME NEW c \in Charts
    PROVE  Cardinality(SubCharts[c]) \in Nat
<1>1. SubCharts[c] \subseteq Charts /\ IsFiniteSet(Charts)
  BY ShapeAssumption
<1>2. IsFiniteSet(SubCharts[c])
  BY <1>1, FS_Subset
<1> QED
  BY <1>2, FS_CardinalityType

\* ks is hs with one more handle, for which handle n has a slot.
Cloned(hs, n, ks) ==
    /\ ks \in Seq(HandleSet) /\ Len(ks) = Len(hs) + 1
    /\ \A m \in 1..Len(hs) : m # n => ks[m] = hs[m]
    /\ ks[n].parent = hs[n].parent /\ ks[n].index = hs[n].index
    /\ ks[n].children = hs[n].children /\ ks[n].local = hs[n].local
    /\ ks[n].child = Append(hs[n].child, 0) /\ ks[n].last = hs[n].last
    /\ ks[Len(hs) + 1].parent = n /\ ks[Len(hs) + 1].index = Len(hs[n].child) + 1
    /\ ks[Len(hs) + 1].child = <<>> /\ ks[Len(hs) + 1].last = 0

LEMMA CloneFacts ==
    ASSUME NEW hs, HandlesOK(hs), NEW n \in 1..Len(hs), NEW c \in Charts
    PROVE  Cloned(hs, n, Clone(hs, n, c))
<1>a. PICK h, l, t : h = hs[n] /\ l = Len(hs) /\ t = Append(h.child, 0)
  OBVIOUS
<1>b. PICK k, g : /\ k = SetChild(h, t)
                  /\ g = Handle(n, Len(h.child) + 1, Cardinality(SubCharts[c]), "kubectl")
  OBVIOUS
<1>c. PICK ks, ls : ks = [hs EXCEPT ![n] = k] /\ ls = Append(ks, g)
  OBVIOUS
<1>1. hs \in Seq(HandleSet) /\ l \in Nat /\ h \in HandleSet /\ n \in Nat
  BY <1>a, HandlesFacts
<1>2. h.child \in Seq(Nat) /\ Len(h.child) \in Nat
  BY <1>1, HandleFields
<1>3. t \in Seq(Nat)
  BY <1>2, <1>a
<1>4. /\ k \in HandleSet /\ k.parent = h.parent /\ k.index = h.index
      /\ k.children = h.children /\ k.local = h.local /\ k.child = t /\ k.last = h.last
  BY <1>1, <1>3, <1>b, SetChildFacts
<1>5. /\ g \in HandleSet /\ g.parent = n /\ g.index = Len(h.child) + 1
      /\ g.child = <<>> /\ g.last = 0
  <2>1. PICK i, d : i = Len(h.child) + 1 /\ d = Cardinality(SubCharts[c])
    OBVIOUS
  <2>2. i \in Nat /\ d \in Nat
    BY <1>2, <2>1, ChartFacts
  <2>3. g = [parent |-> n, index |-> i, children |-> d, local |-> 0, child |-> <<>>,
             last |-> 0, tool |-> "kubectl"]
    BY <1>b, <2>1 DEF Handle
  <2>4. <<>> \in Seq(Nat) /\ 0 \in 0..90
    OBVIOUS
  <2>5. g \in HandleSet
    BY <1>1, <2>2, <2>3, <2>4 DEF HandleSet
  <2> QED
    BY <2>1, <2>3, <2>5
<1>6. /\ ks \in Seq(HandleSet) /\ Len(ks) = l /\ ks[n] = k
      /\ \A m \in 1..l : m # n => ks[m] = hs[m]
  BY <1>1, <1>4, <1>a, <1>c
<1>7. /\ ls \in Seq(HandleSet) /\ Len(ls) = l + 1 /\ ls[l + 1] = g
      /\ \A m \in 1..l : ls[m] = ks[m]
  BY <1>1, <1>5, <1>6, <1>c
<1>8. ls[n] = k /\ \A m \in 1..l : m # n => ls[m] = hs[m]
  BY <1>6, <1>7, <1>a
<1>9. Cloned(hs, n, ls)
  BY <1>4, <1>5, <1>7, <1>8, <1>a DEF Cloned
<1>10. ls = Clone(hs, n, c)
  BY <1>a, <1>b, <1>c DEF Clone, SetChild
<1> QED
  BY <1>9, <1>10

\* The tree has one more leaf, which has told nothing yet.
LEMMA CloneKeeps ==
    ASSUME NEW hs, HandlesOK(hs), AveragesOK(hs), NEW n \in 1..Len(hs), NEW c \in Charts
    PROVE  /\ HandlesOK(Clone(hs, n, c)) /\ AveragesOK(Clone(hs, n, c))
           /\ Len(Clone(hs, n, c)) = Len(hs) + 1
           /\ Clone(hs, n, c)[1].last = hs[1].last
<1>a. PICK ks, l, len : ks = Clone(hs, n, c) /\ l = Len(hs) + 1 /\ len = Len(hs[n].child)
  OBVIOUS
<1>1. /\ Len(hs) \in Nat /\ Len(hs) >= 2 /\ 1 \in 1..Len(hs) /\ 2 \in 1..Len(hs)
      /\ hs[n] \in HandleSet /\ n \in Nat
  BY HandlesFacts
<1>2. hs[n].child \in Seq(Nat) /\ len \in Nat
  BY <1>1, <1>a, HandleFields
<1>3. /\ ks \in Seq(HandleSet) /\ Len(ks) = l
      /\ \A m \in 1..Len(hs) : m # n => ks[m] = hs[m]
      /\ ks[n].parent = hs[n].parent /\ ks[n].index = hs[n].index
      /\ ks[n].children = hs[n].children /\ ks[n].local = hs[n].local
      /\ ks[n].child = Append(hs[n].child, 0) /\ ks[n].last = hs[n].last
      /\ ks[l].parent = n /\ ks[l].index = len + 1 /\ ks[l].child = <<>> /\ ks[l].last = 0
  <2>1. Cloned(hs, n, ks)
    BY <1>a, CloneFacts
  <2> QED
    BY <1>a, <2>1 DEF Cloned
<1>4. /\ Len(ks[n].child) = len + 1 /\ ks[n].child[len + 1] = 0
      /\ \A i \in 1..len : ks[n].child[i] = hs[n].child[i]
  BY <1>2, <1>3, <1>a
<1>5. ASSUME NEW m \in 1..Len(hs)
      PROVE  /\ ks[m].parent = hs[m].parent /\ ks[m].index = hs[m].index
             /\ ks[m].last = hs[m].last
             /\ m # n => ks[m].child = hs[m].child
  <2>1. CASE m = n
    BY <1>3, <2>1
  <2>2. CASE m # n
    BY <1>3, <2>2
  <2> QED
    BY <2>1, <2>2
<1>6. l \in Nat /\ l \notin 1..Len(hs) /\ \A m \in 1..l : m \in 1..Len(hs) \/ m = l
  BY <1>1, <1>a
<1>7. ASSUME NEW m \in 1..l PROVE Placed(ks, m) /\ Rounded(ks[m].last) = ks[m].last
  <2>1. CASE m = l
    <3>1. Rounded(0) = 0
      BY DEF Rounded
    <3>2. len + 1 \in 1..(len + 1) /\ n < l /\ n # 0 /\ l # 1
      BY <1>1, <1>2, <1>a
    <3>3. Placed(ks, m)
      BY <1>3, <1>4, <2>1, <3>2 DEF Placed
    <3> QED
      BY <1>3, <2>1, <3>1, <3>3
  <2>2. CASE m # l
    <3>1. m \in 1..Len(hs) /\ Placed(hs, m) /\ Rounded(hs[m].last) = hs[m].last
      BY <1>6, <2>2 DEF HandlesOK
    <3>2. ASSUME m # 1
          PROVE  /\ ks[m].index \in 1..Len(ks[ks[m].parent].child)
                 /\ ks[ks[m].parent].child[ks[m].index] = ks[m].last
      <4>a. PICK q, j : q = hs[m].parent /\ j = hs[m].index
        OBVIOUS
      <4>1. q \in 1..Len(hs) /\ j \in 1..Len(hs[q].child) /\ hs[q].child[j] = hs[m].last
        BY <3>1, <3>2, <4>a, HandlesFacts DEF Placed
      <4>2. j \in 1..Len(ks[q].child) /\ ks[q].child[j] = hs[q].child[j]
        <5>1. CASE q = n
          <6>1. j \in 1..len
            BY <1>a, <4>1, <5>1
          <6>2. j \in 1..(len + 1)
            BY <1>2, <6>1
          <6> QED
            BY <1>4, <5>1, <6>1, <6>2
        <5>2. CASE q # n
          BY <1>5, <4>1, <5>2
        <5> QED
          BY <5>1, <5>2
      <4>3. ks[m].parent = q /\ ks[m].index = j /\ ks[m].last = hs[m].last
        BY <1>5, <3>1, <4>a
      <4> QED
        BY <4>1, <4>2, <4>3
    <3>3. ks[m].parent = hs[m].parent /\ ks[m].last = hs[m].last
      BY <1>5, <3>1
    <3>4. Placed(ks, m)
      BY <3>1, <3>2, <3>3 DEF Placed
    <3> QED
      BY <3>1, <3>3, <3>4
  <2> QED
    BY <2>1, <2>2
<1>8. ASSUME NEW m \in 1..l, NEW i \in 1..Len(ks[m].child) PROVE Owned(ks, m, i)
  <2>1. CASE m = l
    BY <1>3, <2>1
  <2>2. CASE m = n /\ i = len + 1
    <3>1. l \in 1..Len(ks) /\ l > m /\ ks[l].parent = m /\ ks[l].index = i
      BY <1>1, <1>3, <1>6, <1>a, <2>2
    <3> QED
      BY <3>1 DEF Owned
  <2>3. CASE m # l /\ ~(m = n /\ i = len + 1)
    <3>1. m \in 1..Len(hs)
      BY <1>6, <2>3
    <3>2. i \in 1..Len(hs[m].child)
      <4>1. CASE m = n
        BY <1>2, <1>4, <1>a, <2>3, <4>1
      <4>2. CASE m # n
        BY <1>5, <3>1, <4>2
      <4> QED
        BY <4>1, <4>2
    <3>3. PICK o \in 1..Len(hs) : o > m /\ hs[o].parent = m /\ hs[o].index = i
      BY <3>1, <3>2 DEF HandlesOK, Owned
    <3>4. o \in 1..Len(ks) /\ ks[o].parent = m /\ ks[o].index = i
      BY <1>1, <1>3, <1>5, <1>a, <3>3
    <3> QED
      BY <3>3, <3>4 DEF Owned
  <2> QED
    BY <2>1, <2>2, <2>3
<1>9. ASSUME NEW m \in 2..Len(hs), ks[m].parent = ks[l].parent PROVE ks[m].index # ks[l].index
  <2>1. m \in 1..Len(hs) /\ m # 1 /\ hs[m].parent = n
    BY <1>1, <1>3, <1>5, <1>9
  <2>2. hs[m].index \in 1..len
    BY <1>a, <2>1 DEF HandlesOK, Placed
  <2>3. \A x \in 1..len : x # len + 1
    BY <1>2
  <2>4. ks[m].index = hs[m].index
    BY <1>5, <2>1
  <2> QED
    BY <1>3, <2>2, <2>3, <2>4
<1>10. ASSUME NEW m \in 2..l, NEW o \in 2..l,
              ks[m].parent = ks[o].parent, ks[m].index = ks[o].index
       PROVE  m = o
  <2>1. (m \in 2..Len(hs) \/ m = l) /\ (o \in 2..Len(hs) \/ o = l)
    BY <1>1, <1>a
  <2>2. CASE m = l \/ o = l
    BY <1>9, <1>10, <2>1, <2>2
  <2>3. CASE m # l /\ o # l
    <3>1. m \in 1..Len(hs) /\ o \in 1..Len(hs)
      BY <1>1, <2>1, <2>3
    <3>2. hs[m].parent = hs[o].parent /\ hs[m].index = hs[o].index
      BY <1>5, <1>10, <3>1
    <3> QED
      BY <2>1, <2>3, <3>2 DEF HandlesOK
  <2> QED
    BY <2>2, <2>3
<1>11. ks[2].parent = 1 /\ ks[1].last = hs[1].last
  BY <1>1, <1>5 DEF HandlesOK
<1>12. HandlesOK(ks)
  <2>1. l >= 2
    BY <1>1, <1>a
  <2> QED
    BY <1>3, <1>7, <1>8, <1>10, <1>11, <2>1 DEF HandlesOK
<1>13. ASSUME NEW m \in 1..l PROVE Averaged(ks[m])
  <2>1. CASE m = l
    BY <1>3, <2>1 DEF Averaged
  <2>2. CASE m = n
    <3>1. Sum(ks[n].child) = Sum(hs[n].child)
      BY <1>2, <1>3, SumAppend
    <3>2. Average(ks[n]) = Average(hs[n])
      BY <1>3, <3>1 DEF Average
    <3>3. Averaged(hs[n])
      BY DEF AveragesOK
    <3> QED
      BY <1>3, <2>2, <3>2, <3>3 DEF Averaged
  <2>3. CASE m # l /\ m # n
    <3>1. m \in 1..Len(hs)
      BY <1>6, <2>3
    <3> QED
      BY <1>3, <2>3, <3>1 DEF AveragesOK
  <2> QED
    BY <2>1, <2>2, <2>3
<1>14. AveragesOK(ks)
  BY <1>3, <1>13 DEF AveragesOK
<1> QED
  BY <1>3, <1>11, <1>12, <1>14, <1>a

-----------------------------------------------------------------------------
(* The stack *)

\* More handles than before do no harm to the applies and to what was left behind.
LEMMA StackGrows ==
    ASSUME NEW hs, NEW ks, NEW st, Len(hs) \in Nat, Len(ks) \in Nat, Len(hs) <= Len(ks),
           StackOK(hs, st)
    PROVE  StackOK(ks, st)
<1>1. 2..Len(hs) \subseteq 2..Len(ks)
  OBVIOUS
<1>2. ASSUME NEW f, FrameOK(hs, f) PROVE FrameOK(ks, f)
  BY <1>1, <1>2 DEF FrameOK
<1> QED
  BY <1>2 DEF StackOK

LEMMA LeftGrows ==
    ASSUME NEW hs, NEW ks, NEW t, Len(hs) \in Nat, Len(ks) \in Nat, Len(hs) <= Len(ks),
           LeftOK(hs, t)
    PROVE  LeftOK(ks, t)
<1>1. 2..Len(hs) \subseteq 2..Len(ks)
  OBVIOUS
<1> QED
  BY <1>1 DEF LeftOK

LEMMA TopFacts ==
    ASSUME NEW hs, StackOK(hs, stack), stack # <<>>, HandlesOK(hs)
    PROVE  /\ FrameOK(hs, Top) /\ Top.handle \in 1..Len(hs) /\ Top.handle # 1
           /\ Top.chart \in Charts /\ Top.count \in Nat
           /\ Top.matched \in Nat /\ Top.matched <= Top.count + 1
           /\ Len(stack) = 1 => Top.handle = 2 /\ Top.entered
           /\ StackOK(hs, Tail(stack)) /\ (Tail(stack) = <<>> <=> Len(stack) = 1)
<1>1. PICK S : stack \in Seq(S)
  BY DEF StackOK
<1>2. Len(stack) \in Nat /\ Len(stack) >= 1 /\ Top = stack[1]
  BY <1>1 DEF Top
<1>3. 1 \in 1..Len(stack) /\ Len(stack) \in 1..Len(stack)
  BY <1>2
<1>4. FrameOK(hs, Top)
  BY <1>2, <1>3 DEF StackOK
<1>5. Len(hs) \in Nat
  BY HandlesFacts
<1>6. /\ Top.handle \in 1..Len(hs) /\ Top.handle # 1 /\ Top.chart \in Charts
      /\ Top.count \in Nat /\ Top.matched \in Nat /\ Top.matched <= Top.count + 1
  BY <1>4, <1>5 DEF FrameOK
<1>7. Len(stack) = 1 => Top.handle = 2 /\ Top.entered
  BY <1>2 DEF StackOK
<1>a. PICK st : st = Tail(stack)
  OBVIOUS
<1>8. /\ st \in Seq(S) /\ Len(st) = Len(stack) - 1
      /\ \A i \in 1..Len(st) : i + 1 \in 1..Len(stack) /\ st[i] = stack[i + 1]
  BY <1>1, <1>2, <1>a
<1>9. st = <<>> <=> Len(stack) = 1
  <2>1. st = <<>> <=> Len(st) = 0
    BY <1>8, EmptySeq
  <2> QED
    BY <1>2, <1>8, <2>1
<1>10. \A i \in 1..Len(st) : FrameOK(hs, st[i])
  BY <1>8 DEF StackOK
<1>11. ASSUME st # <<>> PROVE st[Len(st)] = stack[Len(stack)]
  <2>1. Len(st) \in 1..Len(st) /\ Len(st) + 1 = Len(stack)
    BY <1>2, <1>8, <1>9, <1>11
  <2> QED
    BY <1>8, <2>1
<1>12. StackOK(hs, st)
  BY <1>8, <1>10, <1>11 DEF StackOK
<1> QED
  BY <1>4, <1>6, <1>7, <1>9, <1>12, <1>a

\* The innermost apply goes on.
LEMMA ReplaceTop ==
    ASSUME NEW hs, StackOK(hs, stack), stack # <<>>, NEW f, FrameOK(hs, f),
           f.handle = Top.handle, f.entered = Top.entered
    PROVE  StackOK(hs, <<f>> \o Tail(stack)) /\ <<f>> \o Tail(stack) # <<>>
<1>1. PICK S : stack \in Seq(S)
  BY DEF StackOK
<1>2. PICK T : T = S \cup {f}
  OBVIOUS
<1>a. PICK st, ts : st = Tail(stack) /\ ts = <<f>> \o st
  OBVIOUS
<1>3. Len(stack) \in Nat /\ Len(stack) >= 1 /\ Top = stack[1]
  BY <1>1 DEF Top
<1>4. /\ st \in Seq(T) /\ Len(st) = Len(stack) - 1
      /\ \A i \in 1..Len(st) : st[i] = stack[i + 1]
  <2>1. st \in Seq(S) /\ S \subseteq T
    BY <1>1, <1>2, <1>3, <1>a
  <2>2. Len(st) = Len(stack) - 1 /\ \A i \in 1..Len(st) : st[i] = stack[i + 1]
    BY <1>1, <1>3, <1>a
  <2> QED
    BY <2>1, <2>2
<1>5. /\ ts \in Seq(T) /\ Len(ts) = Len(stack) /\ ts[1] = f
      /\ \A i \in 2..Len(stack) : ts[i] = stack[i]
  <2>1. f \in T
    BY <1>2
  <2>2. ts \in Seq(T) /\ Len(ts) = 1 + Len(st) /\ ts[1] = f
        /\ \A i \in 2..(1 + Len(st)) : ts[i] = st[i - 1]
    BY <1>4, <1>a, <2>1
  <2>3. ASSUME NEW i \in 2..Len(stack) PROVE ts[i] = stack[i]
    <3>1. i \in 2..(1 + Len(st)) /\ i - 1 \in 1..Len(st) /\ i - 1 + 1 = i
      BY <1>3, <1>4
    <3> QED
      BY <1>4, <2>2, <3>1
  <2> QED
    BY <1>3, <1>4, <2>2, <2>3
<1>6. ASSUME NEW i \in 1..Len(ts) PROVE FrameOK(hs, ts[i])
  <2>1. CASE i = 1
    BY <1>5, <2>1
  <2>2. CASE i # 1
    BY <1>3, <1>5, <2>2 DEF StackOK
  <2> QED
    BY <2>1, <2>2
<1>7. ts # <<>>
  BY <1>3, <1>5
<1>8. ts[Len(ts)].handle = 2 /\ ts[Len(ts)].entered
  <2>1. stack[Len(stack)].handle = 2 /\ stack[Len(stack)].entered
    BY DEF StackOK
  <2>2. CASE Len(stack) = 1
    BY <1>3, <1>5, <2>1, <2>2
  <2>3. CASE Len(stack) # 1
    BY <1>3, <1>5, <2>1, <2>3
  <2> QED
    BY <2>2, <2>3
<1>9. StackOK(hs, ts)
  BY <1>5, <1>6, <1>8 DEF StackOK
<1> QED
  BY <1>7, <1>9, <1>a

\* Another one is called.
LEMMA Push ==
    ASSUME NEW hs, NEW st, StackOK(hs, st), st # <<>>, NEW g, FrameOK(hs, g)
    PROVE  StackOK(hs, <<g>> \o st) /\ <<g>> \o st # <<>>
<1>1. PICK S : st \in Seq(S)
  BY DEF StackOK
<1>2. PICK T, ts : T = S \cup {g} /\ ts = <<g>> \o st
  OBVIOUS
<1>3. Len(st) \in Nat /\ Len(st) >= 1
  BY <1>1
<1>4. /\ ts \in Seq(T) /\ Len(ts) = Len(st) + 1 /\ ts[1] = g
      /\ \A i \in 2..Len(ts) : ts[i] = st[i - 1]
  <2>1. st \in Seq(T) /\ g \in T
    BY <1>1, <1>2
  <2> QED
    BY <1>2, <2>1
<1>5. ASSUME NEW i \in 1..Len(ts) PROVE FrameOK(hs, ts[i])
  <2>1. CASE i = 1
    BY <1>4, <2>1
  <2>2. CASE i # 1
    <3>1. i \in 2..Len(ts) /\ i - 1 \in 1..Len(st)
      BY <1>3, <1>4, <2>2
    <3> QED
      BY <1>4, <3>1 DEF StackOK
  <2> QED
    BY <2>1, <2>2
<1>6. ts[Len(ts)] = st[Len(st)] /\ ts # <<>>
  BY <1>3, <1>4
<1>7. StackOK(hs, ts)
  BY <1>4, <1>5, <1>6 DEF StackOK
<1> QED
  BY <1>2, <1>6, <1>7

-----------------------------------------------------------------------------
(* Steps *)

LEMMA Running ==
    ASSUME ProgressInv
    PROVE  /\ DOMAIN handles = 1..Len(handles) /\ Len(handles) \in Nat
           /\ HandlesOK(handles) /\ AveragesOK(handles) /\ StackOK(handles, stack)
           /\ shown = handles[1].last /\ shown \in Nat
           /\ stack # <<>> => /\ outcome = "running" /\ broken = FALSE /\ abandoned = {}
                              /\ Top.handle \in 1..Len(handles)
<1>1. HandlesOK(handles) /\ StackOK(handles, stack) /\ OutcomeOK /\ shown = handles[1].last
      /\ AveragesOK(handles)
  BY DEF ProgressInv
<1>2. handles[1].last \in Nat
  BY <1>1, HandlesFacts, HandleFields
<1> QED
  BY <1>1, <1>2, HandlesFacts, TopFacts DEF OutcomeOK

\* A step that reports nothing.
LEMMA Quiet ==
    ASSUME ProgressInv, handles' = handles, shown' = shown,
           \A t \in abandoned' : LeftOK(handles, t), needed' \in [Charts -> SUBSET Charts],
           StackOK(handles, stack'), OutcomeOK'
    PROVE  ProgressInv' /\ Forward
<1>1. Forward
  BY Running DEF Forward
<1> QED
  BY <1>1 DEF ProgressInv

\* The innermost apply goes on, and nothing has failed.
LEMMA GoesOn ==
    ASSUME ProgressInv, stack # <<>>, NEW f, Goto(f), FrameOK(handles, f),
           f.handle = Top.handle, f.entered = Top.entered, UNCHANGED <<outcome, abandoned>>,
           broken' = FALSE, UNCHANGED <<handles, needed, shown>>
    PROVE  ProgressInv' /\ Forward
<1>1. StackOK(handles, stack') /\ stack' # <<>>
  BY Running, ReplaceTop DEF Goto
<1>2. OutcomeOK'
  BY <1>1, Running DEF OutcomeOK
<1>3. (\A t \in abandoned' : LeftOK(handles, t)) /\ needed' \in [Charts -> SUBSET Charts]
  BY DEF ProgressInv
<1> QED
  BY <1>1, <1>2, <1>3, Quiet

LEMMA Fails ==
    ASSUME ProgressInv, stack # <<>>, Fail, \A t \in abandoned' : LeftOK(handles, t),
           broken' \in BOOLEAN, UNCHANGED <<handles, needed, shown>>
    PROVE  ProgressInv' /\ Forward
<1>1. stack' = <<>> /\ outcome' = "failed"
  BY DEF Fail
<1>2. StackOK(handles, stack')
  <2>1. stack' \in Seq({}) /\ Len(stack') = 0
    BY <1>1
  <2> QED
    BY <1>1, <2>1 DEF StackOK
<1>3. OutcomeOK'
  BY <1>1 DEF OutcomeOK
<1>4. needed' \in [Charts -> SUBSET Charts]
  BY DEF ProgressInv
<1> QED
  BY <1>2, <1>3, <1>4, Quiet

\* The handles change, but none goes.
LEMMA Reported ==
    ASSUME ProgressInv, HandlesOK(handles'), AveragesOK(handles'),
           shown' = handles'[1].last, Len(handles) <= Len(handles'),
           StackOK(handles', stack'), \A t \in abandoned' : LeftOK(handles, t), OutcomeOK',
           needed' \in [Charts -> SUBSET Charts]
    PROVE  ProgressInv'
<1>1. Len(handles) \in Nat /\ Len(handles') \in Nat
  BY Running, HandlesFacts
<1>2. \A t \in abandoned' : LeftOK(handles', t)
  BY <1>1, LeftGrows
<1> QED
  BY <1>2 DEF ProgressInv

\* A frame whose step changes.
LEMMA SameFrame ==
    ASSUME NEW hs, NEW f, FrameOK(hs, f), NEW step
    PROVE  /\ FrameOK(hs, [f EXCEPT !.step = step])
           /\ [f EXCEPT !.step = step].handle = f.handle
           /\ [f EXCEPT !.step = step].entered = f.entered
BY DEF FrameOK

LEMMA AppendToOne ==
    ASSUME NEW S, NEW s \in Seq(S), NEW k \in S, Len(s) = 1
    PROVE  /\ Append(s, k) \in Seq(S) /\ Len(Append(s, k)) = 2
           /\ Append(s, k)[1] = s[1] /\ Append(s, k)[2] = k
<1>1. Append(s, k) \in Seq(S)
  OBVIOUS
<1>2. Len(Append(s, k)) = Len(s) + 1 /\ Append(s, k)[Len(s) + 1] = k
  BY AppendProperties, Zenon
<1>3. 1 \in 1..Len(s)
  OBVIOUS
<1>4. \A i \in 1..Len(s) : Append(s, k)[i] = s[i]
  OBVIOUS
<1> QED
  BY <1>1, <1>2, <1>3, <1>4

LEMMA InitKeeps ==
    ASSUME ProgressInit
    PROVE  ProgressInv
<1>a. PICK d : d = Cardinality(SubCharts[Root])
  OBVIOUS
<1>1. d \in Nat /\ Root \in Charts /\ Tool \in {"kubectl", "kapp"}
      /\ Dependencies \in [Charts -> SUBSET Charts]
  BY <1>a, ChartFacts, ShapeAssumption
<1>s. PICK s : s = <<0>>
  OBVIOUS
<1>t. s \in Seq(Nat) /\ Len(s) = 1 /\ s[1] = 0
  BY <1>s
<1>b. PICK g, h, k : /\ g = Handle(0, 0, 0, Tool) /\ h = SetChild(g, s)
                     /\ k = Handle(1, 1, d, "kubectl")
  OBVIOUS
<1>2. g \in HandleSet /\ k \in HandleSet
  <2>1. <<>> \in Seq(Nat) /\ 0 \in 0..90
    OBVIOUS
  <2> QED
    BY <1>1, <1>b, <2>1 DEF Handle, HandleSet
<1>3. /\ g.child = <<>> /\ g.parent = 0 /\ g.last = 0
      /\ k.child = <<>> /\ k.parent = 1 /\ k.index = 1 /\ k.last = 0
  BY <1>b DEF Handle
<1>4. h \in HandleSet /\ h.child = s /\ h.parent = 0 /\ h.last = 0
  BY <1>2, <1>3, <1>b, <1>t, SetChildFacts
<1>5. Len(<<>>) + 1 = 1 /\ Append(<<>>, 0) = s
  BY <1>s
<1>6. handles = Append(<<h>>, k)
  <2>1. handles = Append([<<g>> EXCEPT ![1].child = Append(@, 0)],
                         Handle(1, Len(g.child) + 1, d, "kubectl"))
    BY <1>a, <1>b DEF ProgressInit, Clone
  <2>2. [<<g>> EXCEPT ![1].child = Append(@, 0)] = <<h>>
    <3>1. [<<g>> EXCEPT ![1].child = Append(@, 0)] = <<SetChild(g, Append(g.child, 0))>>
      BY DEF SetChild
    <3> QED
      BY <1>3, <1>5, <1>b, <3>1
  <2> QED
    BY <1>3, <1>5, <1>b, <2>1, <2>2
<1>7. handles \in Seq(HandleSet) /\ Len(handles) = 2 /\ handles[1] = h /\ handles[2] = k
  <2>1. PICK one : one = <<h>>
    OBVIOUS
  <2>2. one \in Seq(HandleSet) /\ Len(one) = 1 /\ one[1] = h
    BY <1>4, <2>1
  <2>3. handles = Append(one, k)
    BY <1>6, <2>1
  <2>4. k \in HandleSet
    BY <1>2
  <2> QED
    BY <2>2, <2>3, <2>4, AppendToOne
<1>8. HandlesOK(handles)
  <2>1. Rounded(0) = 0
    BY DEF Rounded
  <2>2. Placed(handles, 1) /\ Placed(handles, 2)
    <3>1. /\ handles[1].parent = 0 /\ handles[2].parent = 1 /\ handles[2].index = 1
          /\ handles[1].child = s /\ handles[2].last = 0
      BY <1>3, <1>4, <1>7
    <3>2. 1 \in 1..Len(s) /\ s[1] = 0
      BY <1>t
    <3> QED
      BY <3>1, <3>2 DEF Placed
  <2>3. \A n \in 1..2 : n = 1 \/ n = 2
    OBVIOUS
  <2>4. ASSUME NEW n \in 1..2, NEW i \in 1..Len(handles[n].child) PROVE Owned(handles, n, i)
    <3>1. CASE n = 1
      <4>1. i = 1
        <5>1. i \in 1..Len(s)
          BY <1>4, <1>7, <2>4, <3>1
        <5> QED
          BY <1>t, <5>1
      <4>2. 2 \in 1..2 /\ 2 > 1
        OBVIOUS
      <4> QED
        BY <1>3, <1>7, <3>1, <4>1, <4>2 DEF Owned
    <3>2. CASE n = 2
      BY <1>3, <1>7, <2>4, <3>2
    <3> QED
      BY <2>3, <3>1, <3>2
  <2>5. \A m, n \in 2..2 : m = n
    OBVIOUS
  <2>6. \A n \in 1..2 : Placed(handles, n) /\ Rounded(handles[n].last) = handles[n].last
    BY <1>3, <1>4, <1>7, <2>1, <2>2, <2>3
  <2> QED
    BY <1>3, <1>7, <2>4, <2>5, <2>6 DEF HandlesOK
<1>9. AveragesOK(handles)
  <2>1. \A n \in 1..2 : n = 1 \/ n = 2
    OBVIOUS
  <2>2. \A n \in 1..2 : handles[n].last <= 100
    BY <1>3, <1>4, <1>7, <2>1
  <2> QED
    BY <1>7, <2>2 DEF AveragesOK, Averaged
<1>c. PICK f : f = Frame(Root, 2, TRUE)
  OBVIOUS
<1>10. stack = <<f>> /\ FrameOK(handles, f) /\ f.handle = 2 /\ f.entered
  BY <1>1, <1>7, <1>c DEF ProgressInit, Frame, FrameOK
<1>11. StackOK(handles, stack) /\ stack # <<>>
  <2>1. stack = <<f>>
    BY <1>10
  <2>2. stack \in Seq({f}) /\ Len(stack) = 1 /\ stack[1] = f /\ stack # <<>>
    BY <2>1
  <2>3. \A i \in 1..Len(stack) : FrameOK(handles, stack[i])
    <3>1. \A i \in 1..1 : i = 1
      OBVIOUS
    <3> QED
      BY <1>10, <2>2, <3>1
  <2>4. stack[Len(stack)].handle = 2 /\ stack[Len(stack)].entered
    BY <1>10, <2>2
  <2> QED
    BY <2>2, <2>3, <2>4 DEF StackOK
<1>12. /\ needed = Dependencies /\ shown = 0 /\ outcome = "running" /\ broken = FALSE
       /\ abandoned = {}
  BY DEF ProgressInit
<1>13. OutcomeOK
  BY <1>11, <1>12 DEF OutcomeOK
<1> QED
  BY <1>1, <1>4, <1>7, <1>8, <1>9, <1>11, <1>12, <1>13 DEF ProgressInv

\* A call of another apply, with what is left of the caller's calls.
LEMMA CallKeeps ==
    ASSUME ProgressInv, stack # <<>>, NEW f, FrameOK(handles, f), f.handle = Top.handle,
           f.entered = Top.entered, NEW c \in Charts, NEW entered, Call(f, c, entered),
           needed' \in [Charts -> SUBSET Charts],
           UNCHANGED <<shown, outcome, broken, abandoned>>
    PROVE  ProgressInv' /\ Forward
<1>a. PICK l, n, g : l = Len(handles) /\ n = Top.handle /\ g = Frame(c, l + 1, entered)
  OBVIOUS
<1>1. l \in Nat /\ l >= 2 /\ n \in 1..l /\ HandlesOK(handles) /\ AveragesOK(handles)
      /\ StackOK(handles, stack)
  BY <1>a, Running, HandlesFacts
<1>2. handles' = Clone(handles, n, c) /\ stack' = <<g, f>> \o Tail(stack)
  BY <1>a DEF Call
<1>3. /\ HandlesOK(handles') /\ AveragesOK(handles') /\ Len(handles') = l + 1
      /\ handles'[1].last = handles[1].last
  BY <1>1, <1>2, <1>a, CloneKeeps
<1>b. PICK st : st = <<f>> \o Tail(stack)
  OBVIOUS
<1>4. StackOK(handles, st) /\ st # <<>>
  BY <1>1, <1>b, ReplaceTop
<1>5. StackOK(handles', st)
  BY <1>1, <1>3, <1>4, <1>a, StackGrows
<1>6. FrameOK(handles', g)
  <2>1. l + 1 \in 2..(l + 1)
    BY <1>1
  <2> QED
    BY <1>3, <1>a, <2>1 DEF FrameOK, Frame
<1>7. stack' = <<g>> \o st
  <2>1. PICK S : stack \in Seq(S)
    BY <1>1 DEF StackOK
  <2>2. PICK T : T = S \cup {f, g}
    OBVIOUS
  <2>3. Tail(stack) \in Seq(T) /\ f \in T /\ g \in T
    <3>1. Tail(stack) \in Seq(S) /\ S \subseteq T
      BY <2>1, <2>2
    <3> QED
      BY <2>2, <3>1
  <2> QED
    BY <1>2, <1>b, <2>3
<1>8. StackOK(handles', stack') /\ stack' # <<>>
  BY <1>4, <1>5, <1>6, <1>7, Push
<1>9. OutcomeOK'
  BY <1>8, Running DEF OutcomeOK
<1>10. shown' = handles'[1].last /\ \A t \in abandoned' : LeftOK(handles, t)
  BY <1>3, Running DEF ProgressInv
<1>11. Len(handles) <= Len(handles')
  BY <1>1, <1>3, <1>a
<1>12. ProgressInv'
  BY <1>3, <1>8, <1>9, <1>10, <1>11, Reported
<1>13. Forward
  BY Running DEF Forward
<1> QED
  BY <1>12, <1>13

\* A line of a tool, whatever becomes of the stack.
LEMMA LineKeeps ==
    ASSUME ProgressInv, NEW n \in 1..Len(handles), NEW matched \in Nat, NEW count \in Nat,
           Matched(n, matched, count), StackOK(handles, stack'),
           stack = <<>> <=> stack' = <<>>, UNCHANGED <<needed, outcome, broken>>,
           outcome # "applied",
           \A t \in abandoned' : LeftOK(handles, t), abandoned' # {} => outcome = "failed"
    PROVE  ProgressInv' /\ Forward
<1>1. /\ HandlesOK(handles') /\ AveragesOK(handles') /\ shown' = handles'[1].last
      /\ Len(handles') = Len(handles) /\ Forward
  BY Running, MatchedKeeps
<1>2. Len(handles) \in Nat /\ Len(handles) <= Len(handles') /\ Len(handles') \in Nat
  BY <1>1, Running
<1>3. StackOK(handles', stack')
  BY <1>2, StackGrows
<1>4. OutcomeOK'
  BY DEF ProgressInv, OutcomeOK
<1>5. needed' \in [Charts -> SUBSET Charts]
  BY DEF ProgressInv
<1> QED
  BY <1>1, <1>2, <1>3, <1>4, <1>5, Reported

LEMMA NeededFalls ==
    ASSUME ProgressInv, NEW c, NEW d, needed' = [needed EXCEPT ![c] = @ \ {d}]
    PROVE  needed' \in [Charts -> SUBSET Charts]
BY DEF ProgressInv

\* Another tool for a handle changes nothing else.
LEMMA SetToolKeeps ==
    ASSUME ProgressInv, SetTool
    PROVE  ProgressInv' /\ Forward
<1>1. PICK tool \in OwnTools : handles' = [handles EXCEPT ![Top.handle].tool = tool]
  BY DEF SetTool
<1>a. PICK n, k : n = Top.handle /\ k = SetToolTo(handles[n], tool)
  OBVIOUS
<1>2. /\ stack # <<>> /\ UNCHANGED <<stack, needed, shown, outcome, broken, abandoned>>
  BY DEF SetTool, InBody, At
<1>3. /\ n \in 1..Len(handles) /\ HandlesOK(handles) /\ AveragesOK(handles)
      /\ StackOK(handles, stack) /\ handles \in Seq(HandleSet) /\ Len(handles) \in Nat
      /\ Len(handles) >= 2 /\ 1 \in 1..Len(handles) /\ 2 \in 1..Len(handles)
      /\ handles[n] \in HandleSet
  BY <1>2, <1>a, Running, HandlesFacts
<1>4. tool \in {"kubectl", "kapp"}
  BY ShapeAssumption
<1>5. /\ k \in HandleSet /\ k.parent = handles[n].parent /\ k.index = handles[n].index
      /\ k.children = handles[n].children /\ k.local = handles[n].local
      /\ k.child = handles[n].child /\ k.last = handles[n].last
  BY <1>3, <1>4, <1>a, SetToolToFacts
<1>6. handles' = [handles EXCEPT ![n] = k]
  BY <1>1, <1>a DEF SetToolTo
<1>7. /\ handles' \in Seq(HandleSet) /\ Len(handles') = Len(handles) /\ handles'[n] = k
      /\ \A m \in 1..Len(handles) : m # n => handles'[m] = handles[m]
  BY <1>3, <1>5, <1>6
<1>8. ASSUME NEW m \in 1..Len(handles)
      PROVE  /\ handles'[m].parent = handles[m].parent /\ handles'[m].index = handles[m].index
             /\ handles'[m].children = handles[m].children
             /\ handles'[m].local = handles[m].local
             /\ handles'[m].child = handles[m].child /\ handles'[m].last = handles[m].last
  <2>1. CASE m = n
    BY <1>5, <1>7, <2>1
  <2>2. CASE m # n
    BY <1>7, <2>2
  <2> QED
    BY <2>1, <2>2
<1>9. HandlesOK(handles')
  <2>1. ASSUME NEW m \in 1..Len(handles')
        PROVE  Placed(handles', m) /\ Rounded(handles'[m].last) = handles'[m].last
    <3>1. m \in 1..Len(handles) /\ Placed(handles, m)
          /\ Rounded(handles[m].last) = handles[m].last
      BY <1>3, <1>7 DEF HandlesOK
    <3>2. m # 1 => handles[m].parent \in 1..Len(handles)
      BY <1>3, <3>1, HandlesFacts
    <3> QED
      BY <1>8, <3>1, <3>2 DEF Placed
  <2>2. ASSUME NEW m \in 1..Len(handles'), NEW i \in 1..Len(handles'[m].child)
        PROVE  Owned(handles', m, i)
    <3>1. m \in 1..Len(handles) /\ i \in 1..Len(handles[m].child)
      BY <1>7, <1>8
    <3>2. PICK o \in 1..Len(handles) : o > m /\ handles[o].parent = m /\ handles[o].index = i
      BY <1>3, <3>1 DEF HandlesOK, Owned
    <3> QED
      BY <1>7, <1>8, <3>2 DEF Owned
  <2>3. \A m, o \in 2..Len(handles') :
           handles'[m].parent = handles'[o].parent /\ handles'[m].index = handles'[o].index
              => m = o
    <3>1. \A m, o \in 2..Len(handles) :
             handles[m].parent = handles[o].parent /\ handles[m].index = handles[o].index
                => m = o
      BY <1>3 DEF HandlesOK
    <3>2. \A m \in 2..Len(handles) : m \in 1..Len(handles)
      BY <1>3
    <3> QED
      BY <1>7, <1>8, <3>1, <3>2
  <2>4. handles'[2].parent = 1
    BY <1>3, <1>8 DEF HandlesOK
  <2> QED
    BY <1>3, <1>7, <2>1, <2>2, <2>3, <2>4 DEF HandlesOK
<1>10. AveragesOK(handles')
  <2>1. ASSUME NEW m \in 1..Len(handles') PROVE Averaged(handles'[m])
    <3>1. m \in 1..Len(handles) /\ Averaged(handles[m])
      BY <1>3, <1>7 DEF AveragesOK
    <3>2. Average(handles'[m]) = Average(handles[m])
      BY <1>8, <3>1 DEF Average
    <3> QED
      BY <1>8, <3>1, <3>2 DEF Averaged
  <2> QED
    BY <2>1 DEF AveragesOK
<1>11. /\ StackOK(handles', stack') /\ shown' = handles'[1].last
       /\ Len(handles) <= Len(handles')
  <2>1. StackOK(handles', stack)
    BY <1>3, <1>7, StackGrows
  <2>2. shown = handles[1].last
    BY Running
  <2> QED
    BY <1>2, <1>3, <1>7, <1>8, <2>1, <2>2
<1>12. /\ OutcomeOK' /\ needed' \in [Charts -> SUBSET Charts]
       /\ \A t \in abandoned' : LeftOK(handles, t)
  BY <1>2 DEF ProgressInv, OutcomeOK
<1>13. ProgressInv'
  BY <1>9, <1>10, <1>11, <1>12, Reported
<1>14. Forward
  BY <1>2, Running DEF Forward
<1> QED
  BY <1>13, <1>14

LEMMA ApplyKeeps ==
    ASSUME ProgressInv, ApplyDependency \/ FindDependency \/ ApplySubChart \/ ApplyLocal
    PROVE  ProgressInv' /\ Forward
<1>a. PICK f, c : f = Top /\ c = Top.chart
  OBVIOUS
<1>1. stack # <<>>
  BY DEF ApplyDependency, FindDependency, ApplySubChart, ApplyLocal, InBody, At
<1>2. /\ FrameOK(handles, f) /\ c \in Charts /\ outcome = "running" /\ broken = FALSE
      /\ StackOK(handles, stack)
  BY <1>1, <1>a, Running, TopFacts
<1>3. CASE ApplyDependency
  <2>1. PICK d \in needed[c] :
           needed' = [needed EXCEPT ![c] = @ \ {d}] /\ Call(f, d, TRUE)
    BY <1>3, <1>a DEF ApplyDependency
  <2>2. d \in Charts
    BY <1>2, <2>1 DEF ProgressInv
  <2>3. needed' \in [Charts -> SUBSET Charts]
    BY <2>1, NeededFalls
  <2>4. UNCHANGED <<shown, outcome, broken, abandoned>>
    BY <1>3 DEF ApplyDependency
  <2> QED
    BY <1>1, <1>2, <1>a, <2>1, <2>2, <2>3, <2>4, CallKeeps
<1>4. CASE FindDependency
  <2>1. /\ needed' \in [Charts -> SUBSET Charts]
        /\ UNCHANGED <<handles, stack, shown, outcome, broken, abandoned>>
    BY <1>4, NeededFalls DEF FindDependency
  <2>2. /\ \A t \in abandoned' : LeftOK(handles, t)
        /\ StackOK(handles, stack') /\ OutcomeOK'
    BY <1>2, <2>1 DEF ProgressInv, OutcomeOK
  <2> QED
    BY <2>1, <2>2, Quiet
<1>5. CASE ApplySubChart
  <2>1. PICK s \in SubCharts[c] : Call([f EXCEPT !.left[s] = @ - 1], s, FALSE)
    BY <1>5, <1>a DEF ApplySubChart
  <2>2. s \in Charts
    BY <1>2, <2>1, ShapeAssumption
  <2>a. PICK m : m = [f.left EXCEPT ![s] = @ - 1]
    OBVIOUS
  <2>b. PICK g : g = [f EXCEPT !.left = m]
    OBVIOUS
  <2>c. FrameOK(handles, g) /\ g.handle = f.handle /\ g.entered = f.entered
    BY <1>2, <2>b DEF FrameOK
  <2>3. FrameOK(handles, g) /\ g.handle = Top.handle /\ g.entered = Top.entered
    BY <1>a, <2>c
  <2>4. [f EXCEPT !.left[s] = @ - 1] = g
    BY <2>a, <2>b
  <2>5. Call(g, s, FALSE)
    BY <2>1, <2>4
  <2>6. /\ UNCHANGED <<needed, shown, outcome, broken, abandoned>>
        /\ needed \in [Charts -> SUBSET Charts]
    BY <1>5 DEF ApplySubChart, ProgressInv
  <2> QED
    BY <1>1, <2>2, <2>3, <2>5, <2>6, CallKeeps
<1>6. CASE ApplyLocal
  <2>1. PICK count \in Objects[c] :
           Goto([f EXCEPT !.left[c] = @ - 1, !.step = "writing",
                          !.count = count, !.matched = 0])
    BY <1>6, <1>a DEF ApplyLocal
  <2>2. count \in Nat
    BY <1>2, <2>1, ShapeAssumption
  <2>a. PICK m : m = [f.left EXCEPT ![c] = @ - 1]
    OBVIOUS
  <2>b. PICK h : h = [f EXCEPT !.left = m, !.step = "writing"]
    OBVIOUS
  <2>c. FrameOK(handles, h) /\ h.handle = f.handle /\ h.entered = f.entered
    BY <1>2, <2>b DEF FrameOK
  <2>d. PICK g : g = [h EXCEPT !.count = count, !.matched = 0]
    OBVIOUS
  <2>e. count \in Nat /\ 0 \in 0..(count + 1)
    BY <2>2
  <2>3. FrameOK(handles, g) /\ g.handle = f.handle /\ g.entered = f.entered
    BY <2>c, <2>d, <2>e DEF FrameOK
  <2>f. [f EXCEPT !.left[c] = @ - 1, !.step = "writing", !.count = count, !.matched = 0] = g
    BY <2>a, <2>b, <2>d
  <2>4. UNCHANGED <<handles, needed, shown, outcome, broken, abandoned>>
    BY <1>6 DEF ApplyLocal
  <2> QED
    BY <1>1, <1>2, <1>a, <2>1, <2>3, <2>4, <2>f, GoesOn
<1> QED
  BY <1>3, <1>4, <1>5, <1>6

LEMMA ToolKeeps ==
    ASSUME ProgressInv, Written \/ ToolSucceeds \/ StartFails \/ WriteFails \/ ToolFails
    PROVE  ProgressInv' /\ Forward
<1>a. PICK f : f = Top
  OBVIOUS
<1>1. stack # <<>>
  BY DEF Written, ToolSucceeds, StartFails, WriteFails, ToolFails, At
<1>2. /\ FrameOK(handles, f) /\ outcome = "running" /\ broken = FALSE /\ abandoned = {}
      /\ f.count \in Nat /\ f.matched \in Nat /\ f.matched <= f.count + 1
      /\ StackOK(handles, stack)
  BY <1>1, <1>a, Running, TopFacts
<1>3. CASE Written
  <2>1. /\ Goto([f EXCEPT !.step = "waiting"])
        /\ UNCHANGED <<handles, needed, shown, outcome, broken, abandoned>>
    BY <1>3, <1>a DEF Written
  <2> QED
    BY <1>1, <1>2, <1>a, <2>1, SameFrame, GoesOn
<1>4. CASE ToolSucceeds
  <2>1. /\ Goto([f EXCEPT !.step = "body"])
        /\ UNCHANGED <<handles, needed, shown, outcome, broken, abandoned>>
    BY <1>4, <1>a DEF ToolSucceeds
  <2> QED
    BY <1>1, <1>2, <1>a, <2>1, SameFrame, GoesOn
<1>5. CASE StartFails
  <2>1. Fail /\ UNCHANGED <<handles, needed, shown, broken, abandoned>>
    BY <1>5 DEF StartFails
  <2> QED
    BY <1>1, <1>2, <2>1, Fails
<1>6. CASE WriteFails
  <2>a. PICK t : t = [handle |-> f.handle, matched |-> f.matched, count |-> f.count]
    OBVIOUS
  <2>1. Fail /\ abandoned' = abandoned \cup {t} /\ UNCHANGED <<handles, needed, shown, broken>>
    BY <1>6, <1>a, <2>a DEF WriteFails
  <2>2. LeftOK(handles, t)
    BY <1>2, <2>a DEF LeftOK, FrameOK
  <2>3. \A u \in abandoned' : LeftOK(handles, u)
    BY <1>2, <2>1, <2>2
  <2> QED
    BY <1>1, <1>2, <2>1, <2>3, Fails
<1>7. CASE ToolFails
  <2>1. /\ broken' = (broken \/ f.count > 0)
        /\ IF f.count = 0 THEN Goto([f EXCEPT !.step = "body"]) /\ UNCHANGED outcome ELSE Fail
        /\ UNCHANGED <<handles, needed, shown, abandoned>>
    BY <1>7, <1>a DEF ToolFails
  <2>2. CASE f.count = 0
    <3>1. ~(f.count > 0)
      BY <2>2
    <3>2. broken' = FALSE
      BY <1>2, <2>1, <3>1
    <3>3. Goto([f EXCEPT !.step = "body"]) /\ UNCHANGED outcome
      BY <2>1, <2>2
    <3> QED
      BY <1>1, <1>2, <1>a, <2>1, <3>2, <3>3, SameFrame, GoesOn
  <2>3. CASE f.count # 0
    <3>1. f.count > 0
      BY <1>2, <2>3
    <3>2. broken' = TRUE
      BY <1>2, <2>1, <3>1
    <3>3. Fail
      BY <2>1, <2>3
    <3> QED
      BY <1>1, <1>2, <2>1, <3>2, <3>3, Fails
  <2> QED
    BY <2>2, <2>3
<1> QED
  BY <1>3, <1>4, <1>5, <1>6, <1>7

LEMMA LinesKeep ==
    ASSUME ProgressInv, KubectlPrints \/ KappPrints \/ LatePrints
    PROVE  ProgressInv' /\ Forward
<1>1. CASE KubectlPrints
  <2>a. PICK f, g : f = Top /\ g = [f EXCEPT !.matched = @ + 1]
    OBVIOUS
  <2>1. /\ stack # <<>> /\ f.matched <= f.count
        /\ Matched(f.handle, f.matched + 1, f.count) /\ Goto(g)
        /\ UNCHANGED <<needed, outcome, broken, abandoned>>
    BY <1>1, <2>a DEF KubectlPrints, At
  <2>2. /\ FrameOK(handles, f) /\ outcome = "running" /\ abandoned = {}
        /\ f.count \in Nat /\ f.matched \in Nat /\ StackOK(handles, stack)
        /\ f.handle \in 1..Len(handles)
    BY <2>1, <2>a, Running, TopFacts
  <2>3. FrameOK(handles, g) /\ g.handle = Top.handle /\ g.entered = Top.entered
    BY <2>1, <2>2, <2>a DEF FrameOK
  <2>4. StackOK(handles, stack') /\ stack' # <<>>
    BY <2>1, <2>2, <2>3, ReplaceTop DEF Goto
  <2>5. f.matched + 1 \in Nat
    BY <2>2
  <2>6. /\ \A t \in abandoned' : LeftOK(handles, t)
        /\ abandoned' # {} => outcome = "failed"
        /\ outcome # "applied"
    BY <2>1, <2>2
  <2> QED
    BY <2>1, <2>2, <2>4, <2>5, <2>6, LineKeeps
<1>2. CASE KappPrints
  <2>a. PICK f : f = Top
    OBVIOUS
  <2>1. /\ stack # <<>> /\ UNCHANGED <<stack, needed, outcome, broken, abandoned>>
        /\ \E count \in 1..f.count : \E matched \in 0..count :
              Matched(f.handle, matched, count)
    BY <1>2, <2>a DEF KappPrints, At
  <2>2. /\ outcome = "running" /\ abandoned = {} /\ StackOK(handles, stack)
        /\ f.handle \in 1..Len(handles) /\ f.count \in Nat
    BY <2>1, <2>a, Running, TopFacts
  <2>3. PICK count \in 1..f.count : \E matched \in 0..count :
           Matched(f.handle, matched, count)
    BY <2>1
  <2>4. PICK matched \in 0..count : Matched(f.handle, matched, count)
    BY <2>3
  <2>5. count \in Nat /\ matched \in Nat
    BY <2>2
  <2>6. /\ \A t \in abandoned' : LeftOK(handles, t)
        /\ abandoned' # {} => outcome = "failed"
        /\ outcome # "applied"
    BY <2>1, <2>2
  <2> QED
    BY <2>1, <2>2, <2>4, <2>5, <2>6, LineKeeps
<1>3. CASE LatePrints
  <2>1. /\ UNCHANGED <<stack, needed, outcome, broken>>
        /\ \E t \in abandoned :
              /\ t.matched <= t.count
              /\ abandoned' = (abandoned \ {t}) \cup {[t EXCEPT !.matched = @ + 1]}
              /\ Matched(t.handle, t.matched + 1, t.count)
    BY <1>3 DEF LatePrints
  <2>2. PICK t \in abandoned :
              /\ t.matched <= t.count
              /\ abandoned' = (abandoned \ {t}) \cup {[t EXCEPT !.matched = @ + 1]}
              /\ Matched(t.handle, t.matched + 1, t.count)
    BY <2>1
  <2>3. LeftOK(handles, t) /\ Len(handles) \in Nat /\ StackOK(handles, stack)
    BY Running DEF ProgressInv
  <2>4. /\ t.handle \in 1..Len(handles) /\ t.count \in Nat /\ t.matched \in Nat
        /\ t.matched + 1 \in Nat
    BY <2>3 DEF LeftOK
  <2>a. PICK u : u = [t EXCEPT !.matched = @ + 1]
    OBVIOUS
  <2>5. LeftOK(handles, u)
    BY <2>2, <2>3, <2>4, <2>a DEF LeftOK
  <2>6. \A s \in abandoned' : LeftOK(handles, s)
    BY <2>2, <2>5, <2>a DEF ProgressInv
  <2>7. outcome = "failed"
    BY <2>2 DEF ProgressInv, OutcomeOK
  <2> QED
    BY <2>1, <2>2, <2>3, <2>4, <2>6, <2>7, LineKeeps
<1> QED
  BY <1>1, <1>2, <1>3

LEMMA EndKeeps ==
    ASSUME ProgressInv, OwnProgress \/ Applied
    PROVE  ProgressInv' /\ Forward
<1>a. PICK f, p : f = Top /\ p = handles[Top.handle].parent
  OBVIOUS
<1>1. stack # <<>>
  BY DEF OwnProgress, Applied, Finished, InBody, At
<1>2. /\ outcome = "running" /\ broken = FALSE /\ abandoned = {}
      /\ HandlesOK(handles) /\ AveragesOK(handles) /\ StackOK(handles, stack)
      /\ shown = handles[1].last /\ Len(handles) \in Nat
      /\ f.handle \in 1..Len(handles) /\ f.handle # 1
      /\ Len(stack) = 1 => f.handle = 2 /\ f.entered
      /\ StackOK(handles, Tail(stack)) /\ (Tail(stack) = <<>> <=> Len(stack) = 1)
      /\ needed \in [Charts -> SUBSET Charts]
  BY <1>1, <1>a, Running, TopFacts DEF ProgressInv
<1>3. CASE OwnProgress
  <2>1. PICK value \in Reports : Direct(f.handle, value)
    BY <1>3, <1>a DEF OwnProgress
  <2>2. value \in 0..100
    BY ShapeAssumption
  <2>3. UNCHANGED <<stack, needed, outcome, broken, abandoned>>
    BY <1>3 DEF OwnProgress
  <2>4. /\ HandlesOK(handles') /\ AveragesOK(handles') /\ shown' = handles'[1].last
        /\ Len(handles') = Len(handles) /\ Forward
    BY <1>2, <2>1, <2>2, DirectKeeps
  <2>5. StackOK(handles', stack') /\ OutcomeOK' /\ Len(handles) <= Len(handles')
    <3>1. Len(handles) <= Len(handles') /\ Len(handles') \in Nat
      BY <1>2, <2>4
    <3>2. StackOK(handles', stack)
      BY <1>2, <3>1, StackGrows
    <3> QED
      BY <1>1, <1>2, <2>3, <3>1, <3>2 DEF OutcomeOK
  <2>6. needed' \in [Charts -> SUBSET Charts] /\ \A t \in abandoned' : LeftOK(handles, t)
    BY <1>2, <2>3
  <2> QED
    BY <2>4, <2>5, <2>6, Reported
<1>4. CASE Applied
  <2>1. /\ stack' = Tail(stack) /\ UNCHANGED <<needed, broken, abandoned>>
        /\ outcome' = IF Len(stack) = 1 THEN "applied" ELSE outcome
        /\ IF f.entered THEN Direct(p, 100) ELSE UNCHANGED <<handles, shown>>
    BY <1>4, <1>a DEF Applied, EndApply
  <2>2. /\ needed' \in [Charts -> SUBSET Charts] /\ \A t \in abandoned' : LeftOK(handles, t)
        /\ StackOK(handles, stack') /\ (stack' = <<>> <=> Len(stack) = 1)
    BY <1>2, <2>1
  <2>3. CASE f.entered
    <3>1. p \in 1..Len(handles)
      BY <1>2, <1>a, HandlesFacts
    <3>2. Direct(p, 100) /\ 100 \in 0..100
      BY <2>1, <2>3
    <3>3. /\ HandlesOK(handles') /\ AveragesOK(handles') /\ shown' = handles'[1].last
          /\ Len(handles') = Len(handles) /\ handles'[p].last = Rounded(100) /\ Forward
      BY <1>2, <3>1, <3>2, DirectKeeps
    <3>4. ASSUME Len(stack) = 1 PROVE shown' = 100
      <4>1. p = 1
        BY <1>2, <1>a, <3>4 DEF HandlesOK
      <4>2. Rounded(100) = 100
        BY DEF Rounded
      <4> QED
        BY <3>3, <4>1, <4>2
    <3>5. StackOK(handles', stack') /\ OutcomeOK' /\ Len(handles) <= Len(handles')
      <4>1. Len(handles) <= Len(handles') /\ Len(handles') \in Nat
        BY <1>2, <3>3
      <4>2. StackOK(handles', stack')
        BY <1>2, <2>2, <4>1, StackGrows
      <4>3. OutcomeOK'
        BY <1>2, <2>1, <2>2, <3>4 DEF OutcomeOK
      <4> QED
        BY <4>1, <4>2, <4>3
    <3> QED
      BY <2>2, <3>3, <3>5, Reported
  <2>4. CASE ~f.entered
    <3>1. UNCHANGED <<handles, shown>> /\ Len(stack) # 1
      BY <1>2, <2>1, <2>4
    <3>2. OutcomeOK'
      BY <1>2, <2>1, <2>2, <3>1 DEF OutcomeOK
    <3> QED
      BY <2>2, <3>1, <3>2, Quiet
  <2> QED
    BY <2>3, <2>4
<1> QED
  BY <1>3, <1>4

LEMMA NextKeeps ==
    ASSUME ProgressInv, [ProgressNext]_progressVars
    PROVE  ProgressInv' /\ [Forward]_progressVars
<1>1. CASE ApplyDependency \/ FindDependency \/ ApplySubChart \/ ApplyLocal
  BY <1>1, ApplyKeeps
<1>2. CASE Written \/ ToolSucceeds \/ StartFails \/ WriteFails \/ ToolFails
  BY <1>2, ToolKeeps
<1>3. CASE KubectlPrints \/ KappPrints \/ LatePrints
  BY <1>3, LinesKeep
<1>4. CASE OwnProgress \/ Applied
  BY <1>4, EndKeeps
<1>5. CASE SetTool
  BY <1>5, SetToolKeeps
<1>6. CASE UNCHANGED progressVars
  <2>1. UNCHANGED <<handles, stack, needed, shown, outcome, broken, abandoned>>
    BY <1>6 DEF progressVars
  <2>2. OutcomeOK' /\ HandlesOK(handles') /\ AveragesOK(handles') /\ StackOK(handles', stack')
        /\ \A t \in abandoned' : LeftOK(handles', t)
    BY <2>1 DEF ProgressInv, OutcomeOK
  <2> QED
    BY <1>6, <2>1, <2>2 DEF ProgressInv
<1> QED
  BY <1>1, <1>2, <1>3, <1>4, <1>5, <1>6 DEF ProgressNext

-----------------------------------------------------------------------------
(* Theorems *)

\* The inductive invariant: the handles are a tree in which every slot holds what its
\* clone has told last, and only averages exceed 100.
THEOREM ProgressInvariant == ProgressSpec => []ProgressInv
<1>1. ProgressInit => ProgressInv
  BY InitKeeps
<1>2. ProgressInv /\ [ProgressNext]_progressVars => ProgressInv'
  BY NextKeeps
<1> QED
  BY <1>1, <1>2, PTL DEF ProgressSpec

\* Every handle's own share stays within the 90 percent of progressCb, and the slot that
\* addProgressSubscription made for it holds what it has told last.
THEOREM ProgressTypeCorrect == ProgressSpec => []ProgressTypeOK
<1>1. ProgressInv => ProgressTypeOK
  <2> SUFFICES ASSUME ProgressInv PROVE ProgressTypeOK
    OBVIOUS
  <2>1. /\ HandlesOK(handles) /\ StackOK(handles, stack) /\ OutcomeOK
        /\ DOMAIN handles = 1..Len(handles) /\ Len(handles) \in Nat /\ shown \in Nat
        /\ needed \in [Charts -> SUBSET Charts]
    BY Running DEF ProgressInv
  <2>2. ASSUME NEW n \in DOMAIN handles
        PROVE  /\ handles[n].local \in 0..90
               /\ handles[n].last \in Nat /\ handles[n].last % 5 = 0
               /\ handles[n].parent < n
               /\ LET slots == handles[handles[n].parent].child
                  IN  handles[n].parent # 0 =>
                         /\ handles[n].index \in DOMAIN slots
                         /\ slots[handles[n].index] = handles[n].last
    <3>1. n \in 1..Len(handles) /\ handles[n] \in HandleSet
      BY <2>1, <2>2, HandlesFacts
    <3>2. Placed(handles, n) /\ Rounded(handles[n].last) = handles[n].last
      BY <2>1, <3>1 DEF HandlesOK
    <3>3. handles[n].local \in 0..90 /\ handles[n].last \in Nat
      BY <3>1 DEF HandleSet
    <3>4. handles[n].last % 5 = 0
      <4>1. PICK v : v = handles[n].last
        OBVIOUS
      <4>2. v \in Nat /\ Rounded(v) = v
        BY <3>2, <3>3, <4>1
      <4>3. Rounded(v) % 5 = 0
        BY <4>2, RoundedFacts
      <4> QED
        BY <4>1, <4>2, <4>3
    <3>5. ASSUME handles[n].parent # 0
          PROVE  /\ handles[n].index \in DOMAIN handles[handles[n].parent].child
                 /\ handles[handles[n].parent].child[handles[n].index] = handles[n].last
      <4>1. PICK p : p = handles[n].parent
        OBVIOUS
      <4>2. /\ p \in 1..Len(handles) /\ handles[n].index \in 1..Len(handles[p].child)
            /\ handles[p].child[handles[n].index] = handles[n].last
        BY <2>1, <3>1, <3>2, <3>5, <4>1, HandlesFacts DEF Placed
      <4>3. handles[p].child \in Seq(Nat)
        BY <2>1, <4>2, HandlesFacts, HandleFields
      <4>4. DOMAIN handles[p].child = 1..Len(handles[p].child)
        BY <4>3
      <4> QED
        BY <4>1, <4>2, <4>4
    <3> QED
      BY <3>2, <3>3, <3>4, <3>5 DEF Placed
  <2>3. \A n \in DOMAIN stack : stack[n].handle \in DOMAIN handles
    <3>1. PICK S : stack \in Seq(S)
      BY <2>1 DEF StackOK
    <3>2. DOMAIN stack = 1..Len(stack)
      BY <3>1
    <3>3. \A n \in 1..Len(stack) : stack[n].handle \in 2..Len(handles)
      BY <2>1 DEF StackOK, FrameOK
    <3> QED
      BY <2>1, <3>2, <3>3
  <2>4. \A t \in abandoned : t.handle \in DOMAIN handles /\ t.matched \in 0..(t.count + 1)
    <3>1. \A t \in abandoned : LeftOK(handles, t)
      BY DEF ProgressInv
    <3> QED
      BY <2>1, <3>1 DEF LeftOK
  <2> QED
    BY <2>1, <2>2, <2>3, <2>4 DEF ProgressTypeOK, OutcomeOK
<1> QED
  BY <1>1, ProgressInvariant, PTL

\* reportProgress averages percentages to a percentage: what Progress passes to the
\* subscriber is one, as long as no chart applies more charts than its handle was
\* announced with, whoever applies whom.
THEOREM ShownIsInPercent == ProgressSpec => []InPercent
<1>1. ProgressInv => InPercent
  <2> SUFFICES ASSUME ProgressInv, \A n \in DOMAIN handles : Fits(handles[n])
               PROVE  shown \in 0..100
    BY DEF InPercent
  <2>1. /\ HandlesOK(handles) /\ AveragesOK(handles) /\ DOMAIN handles = 1..Len(handles)
        /\ shown = handles[1].last /\ shown \in Nat
    BY Running
  <2>2. \A n \in 1..Len(handles) :
           handles[n].last <= 100 \/ handles[n].last = Rounded(Average(handles[n]))
    BY <2>1 DEF AveragesOK, Averaged
  <2>3. \A n \in 1..Len(handles) : Fits(handles[n])
    BY <2>1
  <2>4. 100 \in Nat /\ 90 <= 100
    OBVIOUS
  <2>5. \A n \in 1..Len(handles) : handles[n].last <= 100
    BY <2>1, <2>2, <2>3, <2>4, WithinBound
  <2>6. 1 \in 1..Len(handles)
    BY <2>1, HandlesFacts
  <2>7. PICK v : v = shown
    OBVIOUS
  <2>8. v \in Nat /\ v <= 100
    BY <2>1, <2>5, <2>6, <2>7
  <2>9. v \in 0..100
    BY <2>8
  <2> QED
    BY <2>7, <2>9
<1> QED
  BY <1>1, ProgressInvariant, PTL

\* 100 is shown when Apply has returned to the command or the controller without an
\* error; before that only where a handle was told so or does not fit: averages of
\* shares of 90 stay at 90.
THEOREM DoneIsDone == ProgressSpec => []DoneMeansDone
<1>1. ProgressInv => DoneMeansDone
  <2> SUFFICES ASSUME ProgressInv PROVE DoneMeansDone
    OBVIOUS
  <2>1. /\ HandlesOK(handles) /\ DOMAIN handles = 1..Len(handles)
        /\ shown = handles[1].last /\ shown \in Nat
    BY Running
  <2>2. ASSUME \A n \in DOMAIN handles : ~Overridden(handles[n]) /\ Fits(handles[n])
        PROVE  ~(shown >= 100)
    <3>1. \A n \in 1..Len(handles) : Fits(handles[n])
      BY <2>1, <2>2
    <3>2. \A n \in 1..Len(handles) :
             handles[n].last <= 90 \/ handles[n].last = Rounded(Average(handles[n]))
      BY <2>1, <2>2 DEF Overridden
    <3>3. 90 \in Nat /\ 90 <= 90
      OBVIOUS
    <3>4. \A n \in 1..Len(handles) : handles[n].last <= 90
      BY <2>1, <3>1, <3>2, <3>3, WithinBound
    <3>5. shown <= 90
      BY <2>1, <3>4, HandlesFacts
    <3> QED
      BY <2>1, <3>5
  <2>3. outcome = "applied" => shown = 100
    BY DEF ProgressInv, OutcomeOK
  <2> QED
    BY <2>2, <2>3 DEF DoneMeansDone
<1> QED
  BY <1>1, ProgressInvariant, PTL

\* Tell passes on what has risen as something that has risen: what the subscriber was
\* shown is only taken back where a handle's own share falls, or where a handle was told
\* something else than its average.
THEOREM ProgressNeverBackwards == ProgressSpec => NeverBackwards
<1>1. ProgressInv /\ [ProgressNext]_progressVars => [Forward]_progressVars
  BY NextKeeps
<1> QED
  BY <1>1, ProgressInvariant, PTL DEF ProgressSpec, NeverBackwards, Forward

\* No apply succeeds after runWithStdin has seen a tool with input fail.
THEOREM SuccessIsAlwaysHonest == ProgressSpec => []SuccessIsHonest
<1>1. ProgressInv => SuccessIsHonest
  BY DEF ProgressInv, OutcomeOK, SuccessIsHonest
<1> QED
  BY <1>1, ProgressInvariant, PTL
=============================================================================
