---------------------------- MODULE ChartOptions ----------------------------
(***************************************************************************)
(* How the options of a command reach the values of a chart and of its sub *)
(* charts (pkg/kdo: chart_options.go, chart_init.go, chart.go): the flags  *)
(* fill a dictionary, newChart loads values.yaml, calls init with the      *)
(* options init has parameters for, and sets what is left.  init creates   *)
(* sub charts with chart(url, ...); ChartOptions is copied for them, the   *)
(* dictionary inside it only if there is none yet.                         *)
(*                                                                         *)
(* A value is what it comes from; names, types and contents are left out.  *)
(***************************************************************************)
EXTENDS Naturals, Sequences, SequencesExt

CONSTANTS Keys,          \* names of values, all of them in the values.yaml of every chart
          KeySets,       \* bound: the sets of keys that are parameters or arguments
          MaxCharts,     \* bound: charts, the root and its sub charts
          MaxStatements  \* bound: assignments in all bodies of init

ASSUME BoundsAssumption == MaxCharts \in Nat \ {0} /\ MaxStatements \in Nat
                            /\ KeySets \subseteq SUBSET Keys

VARIABLES given,   \* the keys the command line sets
          heap,    \* the dictionaries, in the order they were made
          chart,   \* the charts by number
          stack,   \* the charts in newChart, the innermost last
          statements

vars == <<given, heap, chart, stack, statements>>

Charts == 1..MaxCharts

Absent == <<"absent", 0>>
Default == <<"values.yaml", 0>>
Assigned == <<"init", 0>>
Given == <<"command line", 0>>
Nested == <<"values.yaml of the parent", 0>>
Arg(c) == <<"argument of", c>>

Values == {Absent, Default, Assigned, Given, Nested} \cup {Arg(c) : c \in Charts}
Dictionaries == [Keys -> Values]

Nil == 0

NoChart == [at |-> "none", parent |-> 0, dict |-> Nil, params |-> {}, args |-> {},
            values |-> [k \in Keys |-> Absent]]

NewChart(parent, dict, args) ==
    [NoChart EXCEPT !.at = "load", !.parent = parent, !.dict = dict, !.args = args]

Existing == {c \in Charts : chart[c].at # "none"}

TypeOK ==
    /\ given \subseteq Keys
    /\ heap \in Seq(Dictionaries)
    /\ chart \in [Charts -> [at: {"none", "load", "body", "done"}, parent: 0..MaxCharts,
                             dict: 0..Len(heap), params: SUBSET Keys, args: SUBSET Keys,
                             values: Dictionaries]]
    /\ \A n \in DOMAIN stack : chart[stack[n]].parent = IF n = 1 THEN 0 ELSE stack[n - 1]
    /\ \A c \in Existing : chart[c].at = "done" <=> c \notin {stack[n] : n \in DOMAIN stack}
    /\ statements \in 0..MaxStatements

\* The flags; there is no dictionary before the first of them is set.
Init == /\ given \in SUBSET Keys
        /\ heap = IF given = {} THEN <<>>
                  ELSE <<[k \in Keys |-> IF k \in given THEN Given ELSE Absent]>>
        /\ chart = [c \in Charts |-> IF c = 1 THEN NewChart(0, Len(heap), {}) ELSE NoChart]
        /\ stack = <<1>>
        /\ statements = 0

At(pc) == stack # <<>> /\ chart[Last(stack)].at = pc
Top == Last(stack)

-----------------------------------------------------------------------------
(* Dictionaries *)

Contents(dict) == IF dict = Nil THEN [k \in Keys |-> Absent] ELSE heap[dict]

\* properties.delete, for every parameter of init
Without(dict, keys) ==
    IF dict = Nil THEN heap
    ELSE [heap EXCEPT ![dict] = [k \in Keys |-> IF k \in keys THEN Absent ELSE @[k]]]

\* properties.set, for every argument: the dictionary is made when it is needed.
With(dict, keys, value) ==
    LET Written(d) == [k \in Keys |-> IF k \in keys THEN value ELSE d[k]]
    IN  CASE keys = {} -> heap
          [] keys # {} /\ dict = Nil -> Append(heap, Written(Contents(Nil)))
          [] OTHER -> [heap EXCEPT ![dict] = Written(@)]

\* SetValue: SetField for everything that is there
Overlaid(values, d) == [k \in Keys |-> IF d[k] = Absent THEN values[k] ELSE d[k]]

-----------------------------------------------------------------------------
(* newChart *)

\* (variant: what the options say is set before init runs)
LoadAndSet ==
    /\ At("load")
    /\ \E params \in KeySets :
          /\ chart' = [chart EXCEPT ![Top].at = "body",
                                    ![Top].params = params,
                                    ![Top].values = Overlaid([k \in Keys |-> Default],
                                                             Contents(chart[Top].dict))]
          /\ heap' = IF chart[Top].dict = Nil THEN heap
                     ELSE [heap EXCEPT ![chart[Top].dict] = [k \in Keys |-> Absent]]
    /\ UNCHANGED <<given, stack, statements>>

\* values.yaml is loaded, and init called with the options it has parameters for,
\* which are options no longer.
Load ==
    /\ At("load")
    /\ \E params \in KeySets :
          /\ chart' = [chart EXCEPT ![Top].at = "body",
                                    ![Top].params = params,
                                    ![Top].values = [k \in Keys |-> Default]]
          /\ heap' = Without(chart[Top].dict, params)
    /\ UNCHANGED <<given, stack, statements>>

\* init assigns self.key, or a key of a sub chart it has created.
Assign ==
    /\ At("body")
    /\ statements < MaxStatements
    /\ statements' = statements + 1
    /\ \E c \in Existing, k \in Keys :
          /\ c = Top \/ (chart[c].parent = Top /\ chart[c].at = "done")
          /\ chart' = [chart EXCEPT ![c].values[k] = Assigned]
    /\ UNCHANGED <<given, heap, stack>>

\* (variant: the dictionary that is made for the arguments is kept by the parent)
SubChartAllocating ==
    /\ At("body")
    /\ \E c \in Charts, args \in KeySets :
          LET made == With(chart[Top].dict, args, Arg(c))
              dict == IF Len(made) > Len(heap) THEN Len(made) ELSE chart[Top].dict
          IN  /\ c = 1 + Cardinality(Existing)
              /\ heap' = made
              /\ chart' = [chart EXCEPT ![c] = NewChart(Top, dict, args), ![Top].dict = dict]
              /\ stack' = Append(stack, c)
    /\ UNCHANGED <<given, statements>>

\* (variant: a chart forgets which one has created it)
SubChartOfRoot ==
    /\ At("body")
    /\ \E c \in Charts, args \in KeySets :
          LET made == With(chart[Top].dict, args, Arg(c))
              dict == IF Len(made) > Len(heap) THEN Len(made) ELSE chart[Top].dict
          IN  /\ c = 1 + Cardinality(Existing)
              /\ heap' = made
              /\ chart' = [chart EXCEPT ![c] = NewChart(1, dict, args)]
              /\ stack' = Append(stack, c)
    /\ UNCHANGED <<given, statements>>

\* chart(url, args...): the options of the parent are copied, which copies the pointer
\* to its dictionary, and the arguments set in them.
SubChart ==
    /\ At("body")
    /\ \E c \in Charts, args \in KeySets :
          LET made == With(chart[Top].dict, args, Arg(c))
              dict == IF Len(made) > Len(heap) THEN Len(made) ELSE chart[Top].dict
          IN  /\ c = 1 + Cardinality(Existing)
              /\ heap' = made
              /\ chart' = [chart EXCEPT ![c] = NewChart(Top, dict, args)]
              /\ stack' = Append(stack, c)
    /\ UNCHANGED <<given, statements>>

\* The end of newChart: what is left of the options is set.  A sub chart is assigned to
\* self then, and gets what values.yaml of the parent has under its name.
Finish ==
    /\ At("body")
    /\ \E nested \in KeySets :
          /\ chart[Top].parent = 0 => nested = {}
          /\ chart' = [chart EXCEPT
                         ![Top].at = "done",
                         ![Top].values = [k \in Keys |-> IF k \in nested THEN Nested
                                                         ELSE Overlaid(@, Contents(chart[Top].dict))[k]]]
    /\ stack' = Front(stack)
    /\ UNCHANGED <<given, heap, statements>>

Next == Load \/ Assign \/ SubChart \/ Finish

Spec == Init /\ [][Next]_vars

-----------------------------------------------------------------------------
(* Properties *)

\* What the command line sets is what the chart gets, whatever its values.yaml and its
\* init say, if no chart takes the key as a parameter of init or as an argument.
CommandLineWins ==
    \A k \in given :
        chart[1].at = "done"
        /\ (\A c \in Existing : k \notin chart[c].params \cup chart[c].args)
            => chart[1].values[k] = Given

Parent(c) == chart[c].parent

\* A set of charts that has the parent and the sub charts of each of them, but the root
Connected(S) == \A c \in Existing : Parent(c) > 1 => (c \in S <=> Parent(c) \in S)

\* The charts belong to the same sub chart of the root.
SameBranch(c, d) == \A S \in SUBSET Existing : d \in S /\ Connected(S) => c \in S

\* Without options on the command line the arguments of a sub chart stay in its branch:
\* neither the root nor the other sub charts see them.
ArgumentsStayInTheirBranch ==
    given = {} =>
        \A c, d \in Existing : \A k \in Keys :
            chart[c].values[k] = Arg(d) => c # 1 /\ SameBranch(c, d)
=============================================================================
