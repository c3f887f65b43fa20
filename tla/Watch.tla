------------------------------- MODULE Watch --------------------------------
(***************************************************************************)
(* k8s.watch in a Chart.star: `for obj in k8s.watch(kind, name): ...'      *)
(* (pkg/k8s/k8s_value.go).  A goroutine decodes what `kubectl get --watch' *)
(* prints and hands the objects to the loop through the channel next; the  *)
(* end of the loop is told to the goroutine through the channel cancel.    *)
(* Both channels have room for one.  kubectl and the pipe from it are      *)
(* external.  The double of `kdo test' has one object, perhaps nil, or an  *)
(* error in place of kubectl.                                              *)
(***************************************************************************)
EXTENDS Naturals, Sequences

CONSTANTS MaxEvents  \* bound: objects kubectl prints, a natural number

VARIABLES kubectl,   \* "running" or "exited", or "memory" for the double
          printed,   \* how many objects it has printed; they are 1, 2, ...
          pipe,      \* printed and not decoded
          watcher,   \* where the goroutine is; "failed" if its stream returned an
                     \* error, which nobody looks at
          obj,       \* the object it has decoded last; 0 for nil
          next,      \* the channel
          cancel,    \* whether the other channel holds the cancellation
          loop,      \* "next", "body", "left", or "panicked"
          got        \* the objects the loop has seen

vars == <<kubectl, printed, pipe, watcher, obj, next, cancel, loop, got>>

Objects == 1..MaxEvents

TypeOK ==
    /\ kubectl \in {"running", "exited", "memory"}
    /\ printed \in 0..MaxEvents
    /\ pipe \in Seq(Objects) /\ got \in Seq(Objects)
    /\ watcher \in {"start", "decode", "write", "wait", "failed", "ended"}
    /\ obj \in 0..MaxEvents
    /\ next \in Seq(0..MaxEvents) /\ Len(next) <= 1
    /\ cancel \in BOOLEAN
    /\ loop \in {"next", "body", "left", "panicked"}
    /\ kubectl # "memory" => ((cancel \/ watcher = "ended") <=> loop = "left")

\* The loop begins to watch an object that is there or not.  The double reads it at
\* once; if it is not there, its stream is an error, or nil with ignore_not_found.
Begin(backend, there, ignore) ==
    /\ kubectl = IF backend = "memory" THEN "memory" ELSE "exited"
    /\ obj = IF backend = "memory" /\ there THEN 1 ELSE 0
    /\ printed = obj
    /\ watcher = IF backend # "memory" THEN "start"
                 ELSE IF there \/ ignore THEN "write" ELSE "failed"
    /\ pipe = <<>> /\ next = <<>> /\ got = <<>>
    /\ cancel = FALSE
    /\ loop = "next"

\* No loop watches anything.
Idle ==
    /\ kubectl = "exited" /\ printed = 0
    /\ pipe = <<>> /\ next = <<>> /\ got = <<>>
    /\ watcher = "ended" /\ obj = 0
    /\ cancel = FALSE
    /\ loop = "left"

-----------------------------------------------------------------------------
(* kubectl *)

Prints ==
    /\ kubectl = "running" /\ watcher \notin {"failed", "ended"}
    /\ printed < MaxEvents
    /\ printed' = printed + 1
    /\ pipe' = Append(pipe, printed + 1)
    /\ UNCHANGED <<kubectl, watcher, obj, next, cancel, loop, got>>

\* The timeout it was given is over, or the API server has closed the watch; or the
\* reader of the pipe is gone.
Exits ==
    /\ kubectl = "running"
    /\ kubectl' = "exited"
    /\ UNCHANGED <<printed, pipe, watcher, obj, next, cancel, loop, got>>

-----------------------------------------------------------------------------
(* The goroutine: Watch, and the writer of Iterate *)

Start ==
    /\ watcher = "start"
    /\ kubectl' = "running"
    /\ watcher' = "decode"
    /\ UNCHANGED <<printed, pipe, obj, next, cancel, loop, got>>

\* There is no kubectl, or the context is done.
StartFails ==
    /\ watcher = "start"
    /\ watcher' = "failed"
    /\ UNCHANGED <<kubectl, printed, pipe, obj, next, cancel, loop, got>>

\* Decode blocks on an empty pipe, whether or not kubectl runs: nobody closes the
\* writing end of the pipe.
Decode ==
    /\ watcher = "decode" /\ pipe # <<>>
    /\ obj' = Head(pipe)
    /\ pipe' = Tail(pipe)
    /\ watcher' = "write"
    /\ UNCHANGED <<kubectl, printed, next, cancel, loop, got>>

\* What is printed is no object: it is the end of the stream, but for cmd.Wait.
DecodeFails ==
    /\ watcher = "decode" /\ pipe # <<>>
    /\ pipe' = Tail(pipe)
    /\ watcher' = "wait"
    /\ UNCHANGED <<kubectl, printed, obj, next, cancel, loop, got>>

Waited ==
    /\ watcher = "wait" /\ kubectl = "exited"
    /\ watcher' = "failed"
    /\ UNCHANGED <<kubectl, printed, pipe, obj, next, cancel, loop, got>>

\* (variant: an object nobody has taken yet is replaced)
WriteLatest ==
    /\ watcher = "write"
    /\ next' = <<obj>>
    /\ watcher' = "decode"
    /\ UNCHANGED <<kubectl, printed, pipe, obj, cancel, loop, got>>

\* The two cases of the select; with both ready either may be taken.  The stream of
\* the double ends with its object.
Write ==
    /\ watcher = "write" /\ next = <<>>
    /\ next' = <<obj>>
    /\ watcher' = IF kubectl = "memory" THEN "ended" ELSE "decode"
    /\ UNCHANGED <<kubectl, printed, pipe, obj, cancel, loop, got>>

\* (variant: the cancellation is taken and not told to the stream)
CancelIgnored ==
    /\ watcher = "write" /\ cancel
    /\ cancel' = FALSE
    /\ watcher' = "decode"
    /\ UNCHANGED <<kubectl, printed, pipe, obj, next, loop, got>>

Cancelled ==
    /\ watcher = "write" /\ cancel
    /\ cancel' = FALSE
    /\ watcher' = "ended"
    /\ UNCHANGED <<kubectl, printed, pipe, obj, next, loop, got>>

-----------------------------------------------------------------------------
(* The loop *)

Receive ==
    /\ loop = "next" /\ next # <<>> /\ Head(next) # 0
    /\ got' = Append(got, Head(next))
    /\ next' = <<>>
    /\ loop' = "body"
    /\ UNCHANGED <<kubectl, printed, pipe, watcher, obj, cancel>>

\* Next cannot convert nil.
NextPanics ==
    /\ loop = "next" /\ next = <<0>>
    /\ next' = <<>>
    /\ loop' = "panicked"
    /\ UNCHANGED <<kubectl, printed, pipe, watcher, obj, cancel, got>>

Again ==
    /\ loop = "body"
    /\ loop' = "next"
    /\ UNCHANGED <<kubectl, printed, pipe, watcher, obj, next, cancel, got>>

\* (variant: leaving the loop is not told)
LeaveSilently ==
    /\ loop = "body"
    /\ loop' = "left"
    /\ UNCHANGED <<kubectl, printed, pipe, watcher, obj, next, cancel, got>>

\* break, return or an error in the body: Done
Leave ==
    /\ loop = "body"
    /\ loop' = "left"
    /\ cancel' = TRUE
    /\ UNCHANGED <<kubectl, printed, pipe, watcher, obj, next, got>>

=============================================================================
