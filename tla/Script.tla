-------------------------------- MODULE Script --------------------------------
(***************************************************************************)
(* A Chart.star that watches an object and makes calls in the body of the  *)
(* loop, or makes calls without watching: K8sCalls and Watch together, on  *)
(* the same objects.  Every change of the watched object is an event that  *)
(* kubectl may print, and every object the loop gets was one.              *)
(***************************************************************************)
EXTENDS K8sCalls, Sequences

CONSTANTS Watched,     \* the namespace of the watched object
          BodyCalls,   \* the calls of a script that watches
          MaxEvents    \* bound: objects kubectl prints

ASSUME WatchedAssumption ==
    Watched \in Namespaces /\ BodyCalls \subseteq Calls /\ MaxEvents \in Nat \ {0}

VARIABLES kubectl, printed, pipe, watcher, obj, next, cancel, loop, got,
          events   \* versions the watched object has had since the loop began

watchVars == <<kubectl, printed, pipe, watcher, obj, next, cancel, loop, got>>
allVars == <<vars, watchVars, events>>

W == INSTANCE Watch

ScriptInit ==
    /\ Init
    /\ \/ W!Idle
       \/ \E ignore \in BOOLEAN : W!Begin(backend, objects[Watched] # Absent, ignore)
    /\ events = IF objects[Watched] = Absent THEN 0 ELSE 1

\* A script without a loop makes any call, one with a loop some, in its body or later.
Free(c) == \/ loop = "left" /\ got = <<>>
           \/ loop \in {"body", "left"} /\ c \in BodyCalls

\* kubectl prints the object as it finds it, and a deleted one as well.
Happens == events' = IF watcher = "start" THEN (IF objects'[Watched] = Absent THEN 0 ELSE 1)
                     ELSE IF kubectl = "running" /\ objects'[Watched] # objects[Watched]
                     THEN events + 1 ELSE events

CallStep(A) == A /\ Happens /\ UNCHANGED watchVars

WatchStep(A) == A /\ UNCHANGED <<vars, events>>

Prints == printed < events /\ W!Prints
Start == ~expired /\ W!Start

InLoop(A) == pc = "idle" /\ A

ScriptNext ==
    \/ \E c \in Calls : CallStep(Free(c) /\ Begin(c))
    \/ CallStep(Serve) \/ CallStep(ServeInMemory) \/ CallStep(Proceed) \/ CallStep(Tick)
    \/ CallStep(Others) \/ CallStep(Expire)
    \/ WatchStep(Prints) \/ WatchStep(W!Exits)
    \/ WatchStep(Start) \/ WatchStep(W!StartFails)
    \/ WatchStep(W!Decode) \/ WatchStep(W!DecodeFails) \/ WatchStep(W!Waited)
    \/ WatchStep(W!Write) \/ WatchStep(W!Cancelled)
    \/ WatchStep(InLoop(W!Receive)) \/ WatchStep(InLoop(W!NextPanics))
    \/ WatchStep(InLoop(W!Again)) \/ WatchStep(InLoop(W!Leave))

\* Goroutines run when they can, a body comes to its end if its calls do, time passes,
\* and a kubectl that has to end ends.  Nothing else of the cluster is fair: a watch
\* need not print, and a request has no deadline (Do of k8s_client.go has no context).
Fairness ==
    /\ WF_allVars(CallStep(Proceed)) /\ WF_allVars(CallStep(Tick))
    /\ WF_allVars(CallStep(GivesUp)) /\ WF_allVars(CallStep(ServeInMemory))
    /\ WF_allVars(WatchStep(W!Decode \/ W!DecodeFails)) /\ WF_allVars(WatchStep(W!Write \/ W!Cancelled))
    /\ WF_allVars(WatchStep(InLoop(W!Receive)))
    /\ WF_allVars(WatchStep(InLoop(W!Again \/ W!Leave)))

ScriptSpec == ScriptInit /\ [][ScriptNext]_allVars /\ Fairness

-----------------------------------------------------------------------------
(* Properties *)

ScriptTypeOK == TypeOK /\ W!TypeOK /\ events \in Nat
                /\ (kubectl # "memory" => printed <= events)

\* The loop sees the objects in the order kubectl has printed them, and none is lost.
NothingLost == got = [n \in 1..Len(got) |-> n]

\* Everything printed reaches the loop, which catches up with kubectl again and again
\* until it is left, or a call in its body never returns, or something printed is no
\* object: then the stream ends, and the loop waits for ever.
Delivered == []<>(pc = "idle") =>
                 []<>(Len(got) = printed \/ loop = "left" \/ watcher \in {"wait", "failed"})

\* Two more objects after the loop was left end the goroutine, and with it kubectl;
\* or the goroutine waits for kubectl, because one of them cannot be decoded.
GoroutineEnds ==
    (loop = "left" /\ Len(pipe) >= 2) ~> (watcher \in {"ended", "wait", "failed"})
=============================================================================
