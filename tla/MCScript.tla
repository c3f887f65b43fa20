------------------------------- MODULE MCScript -------------------------------
EXTENDS Script

CONSTANTS home, other

MCNamespaces == {home, other}
MCMarks == {0, 1}

Call(op, options) ==
    [o \in {"op", "home", "ns", "own", "value", "ignore", "timeout", "builtin"} |->
        CASE o = "op" -> op
          [] o # "op" /\ o \in DOMAIN options -> options[o]
          [] o = "home" -> home
          [] o \in {"ns", "own"} -> Unset
          [] o \in {"value", "timeout"} -> 0
          [] o = "ignore" -> FALSE
          [] OTHER -> TRUE]

\* What a loop does with the object it watches
MCBodyCalls ==
    {Call("patch", [value |-> 1]), Call("delete_by_name", [ignore |-> TRUE])}

MCCalls ==
    MCBodyCalls
    \cup {Call("get", [ns |-> other, ignore |-> i, builtin |-> b]) : i, b \in BOOLEAN}
    \cup {Call("patch", [value |-> 0, ignore |-> i]) : i \in BOOLEAN}
    \cup {Call("patch", [value |-> 1, builtin |-> FALSE])}
    \cup {Call("create_or_update", [own |-> home, value |-> 1, builtin |-> b]) : b \in BOOLEAN}
    \cup {Call("delete_by_name", [ignore |-> FALSE]), Call("delete", [ns |-> other])}
    \cup {Call("apply", [ns |-> n, own |-> o, value |-> 1]) :
              n, o \in {Unset, other}}
    \cup {Call("rollout_status", [timeout |-> t]) : t \in {0, 1}}
    \cup {Call("wait", [timeout |-> 1, ignore |-> i]) : i \in BOOLEAN}

\* What a loop calls has nothing to do with the other namespace.
MCInit == ScriptInit /\ (loop # "left" => objects[other] = Absent)

MCSpec == MCInit /\ [][ScriptNext]_allVars /\ Fairness
=============================================================================
