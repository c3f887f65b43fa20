----------------------------- MODULE ObjectStore ------------------------------
(***************************************************************************)
(* What the interface K8s (pkg/k8s/k8s.go) promises to a Chart.star and to *)
(* kdo's own code, whoever implements it: objects by name and namespace,   *)
(* and calls, one at a time, of which each takes effect at once and at     *)
(* most once, or not at all, while others change the objects as they like. *)
(* An error says nothing of the effect; "NotFound" and "none" do.          *)
(***************************************************************************)
EXTENDS Naturals

CONSTANTS Namespaces,
          Unset,       \* no namespace is given
          Absent,      \* there is no object
          Marks,       \* what a field of an object can hold; 0 is nothing
          Calls,       \* the calls that are made
          NoCall

\* One object of interest in every namespace.  `mine' is what the caller writes, and
\* `theirs' what it leaves alone: annotations and labels of others.
Contents == [mine : Marks, theirs : Marks]

Ops == {"get", "patch", "create_or_update", "delete_by_name",
        "delete", "apply", "rollout_status", "wait"}

\* `home' is the namespace of the handle (a chart and each of its sub charts have their
\* own), ns the option "namespace", own the one in the object that is applied.
\* A patch with the mark 0 removes the field.
CallType == [op : Ops, home : Namespaces, ns : Namespaces \cup {Unset},
             own : Namespaces \cup {Unset}, value : Marks, ignore : BOOLEAN,
             timeout : Nat, builtin : BOOLEAN]

\* "Override default namespace of chart"
Address(c) == IF c.own # Unset THEN c.own ELSE IF c.ns # Unset THEN c.ns ELSE c.home

Pending == [status |-> "pending", obj |-> Absent]
Ok(o) == [status |-> "ok", obj |-> o]
None == [status |-> "none", obj |-> Absent]
NotFound == [status |-> "NotFound", obj |-> Absent]
Error == [status |-> "error", obj |-> Absent]

\* "Ignore not found"
Missing(c) == IF c.ignore THEN None ELSE NotFound

VARIABLES objects,   \* what lies under the name, per namespace
          call,      \* the call that is made, or NoCall
          result,    \* what it has come to, or Pending
          answer     \* what the call before has returned

vars == <<objects, call, result, answer>>

Init == /\ objects \in [Namespaces -> Contents \cup {Absent}]
        /\ call = NoCall /\ result = Pending /\ answer = None

Others == /\ \E n \in Namespaces, o \in Contents \cup {Absent} :
                objects' = [objects EXCEPT ![n] = o]
          /\ UNCHANGED <<call, result, answer>>

Begin == /\ call = NoCall
         /\ call' \in Calls
         /\ result' \in {Pending, Error}
         /\ UNCHANGED <<objects, answer>>

Kept(o) == IF o = Absent THEN 0 ELSE o.theirs

\* What call c does to the object o that it finds, at once: n is there afterwards.
Outcome(c, o, n, r) ==
    \/ /\ c.op = "get"
       /\ n = o
       /\ r = IF o = Absent THEN Missing(c) ELSE Ok(o)
    \/ /\ c.op = "patch"
       /\ \/ o = Absent /\ n = o /\ r = Missing(c)
          \/ o # Absent /\ n = [mine |-> c.value, theirs |-> o.theirs] /\ r = Ok(n)
          \/ o # Absent /\ c.ignore /\ n = o /\ r = None
    \/ /\ c.op = "create_or_update"
       /\ \/ n = [mine |-> c.value, theirs |-> Kept(o)] /\ r = Ok(n)
          \/ o = Absent /\ n = o /\ r = NotFound
    \/ /\ c.op \in {"delete", "delete_by_name"}
       /\ n = Absent
       /\ r = Ok(Absent) \/ (o = Absent /\ ~c.ignore /\ r = NotFound)
    \/ /\ c.op = "apply"
       /\ n \in {[mine |-> c.value, theirs |-> Kept(o)], [mine |-> c.value, theirs |-> 0]}
       /\ r = Ok(Absent)
    \/ /\ c.op \in {"rollout_status", "wait"}
       /\ n = o
       /\ \/ (o # Absent \/ c.ignore) /\ r = Ok(Absent)
          \/ o = Absent /\ ~c.ignore /\ r = NotFound

TakeEffect ==
    /\ call # NoCall /\ result = Pending
    /\ \E n \in Contents \cup {Absent} :
          /\ Outcome(call, objects[Address(call)], n, result')
          /\ objects' = [objects EXCEPT ![Address(call)] = n]
    /\ UNCHANGED <<call, answer>>

Fail == /\ call # NoCall
        /\ result' = Error
        /\ UNCHANGED <<objects, call, answer>>

Return == /\ call # NoCall
          /\ answer' = IF result = Pending THEN Error ELSE result
          /\ call' = NoCall /\ result' = Pending
          /\ UNCHANGED objects

Next == Others \/ Begin \/ TakeEffect \/ Fail \/ Return

Spec == Init /\ [][Next]_vars
=============================================================================
