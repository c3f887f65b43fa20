------------------------------- MODULE K8sCalls -------------------------------
(***************************************************************************)
(* The calls a Chart.star makes on its k8s argument, and kdo itself where  *)
(* it keeps records and references: pkg/k8s/k8s_value.go, the requests and *)
(* kubectl commands they become against a cluster (k8s.go, k8s_client.go), *)
(* and the double that stands in for the cluster in `kdo test'             *)
(* (k8s_in_memory.go).  A script makes one call at a time.  In a cluster   *)
(* others change the objects meanwhile, requests and answers get lost, and *)
(* the context of the handle expires.                                      *)
(***************************************************************************)
EXTENDS Naturals

CONSTANTS Namespaces,
          Unset,       \* no namespace is given
          Absent,      \* there is no object
          NoCall,
          Marks,       \* what a field of an object can hold; 0 is nothing
          Calls,       \* the calls scripts make
          Backends,    \* of "cluster" and "memory"
          Pause,       \* between two attempts of rollout_status: 10 seconds
          MaxCalls,    \* bound: calls a script makes
          MaxWrites    \* bound: changes others make

VARIABLES backend,   \* the implementation of K8s
          objects,   \* what lies under the name, per namespace
          revision,  \* the last resourceVersion given
          call,      \* the call that is made, or NoCall
          pc,        \* "idle", "request", "reply" or "sleep"
          verb,      \* of the request, or the command of kubectl
          body,      \* of a PUT
          reply,     \* what has come back
          answer,    \* what the call before has returned
          elapsed,   \* time since rollout_status began, if it has a timeout
          since,     \* time since kubectl was started, or in the pause
          expired,   \* the context is done
          made, writes

request == <<pc, verb, body, reply>>
timers == <<elapsed, since>>
vars == <<backend, objects, revision, call, request, answer, timers, expired, made, writes>>

Bare(o) == IF o = Absent THEN Absent ELSE [mine |-> o.mine, theirs |-> o.theirs]

NoVerb == "none"
NoReply == [status |-> "pending", obj |-> Absent]
Failure == [status |-> "error", obj |-> Absent]

\* The first half of CreateOrUpdate
Asking == call.op = "create_or_update" /\ verb \in {"GET", "kubectl get"}

\* (variant: whatever the failure)
NotYetAtAll == verb = "rollout" /\ reply.status \in {"NotFound", "error"}

\* RolloutStatus tries again if its object is not there.
NotYet == verb = "rollout" /\ reply.status = "NotFound"

\* IgnoreNotFound forgives a 404, and the 422 of a patch; kubectl gets it as a flag.
AnswerTo(c, v, r) ==
    LET forgiven == c.ignore /\ (r.status = "NotFound" \/ (v = "PATCH" /\ r.status = "Invalid"))
    IN  CASE r.status \in {"ok", "none"} -> [status |-> r.status, obj |-> Bare(r.obj)]
          [] v \in {"GET", "PATCH"} /\ forgiven -> [status |-> "none", obj |-> Absent]
          [] v = "DELETE" /\ forgiven -> [status |-> "ok", obj |-> Absent]
          [] ~forgiven /\ r.status = "NotFound" /\ v # "rollout" ->
                [status |-> "NotFound", obj |-> Absent]
          [] OTHER -> Failure

\* The objects without their versions, and what the call has come to.
Held == [n \in Namespaces |-> Bare(objects[n])]
Result == IF pc = "reply" /\ ~Asking /\ ~NotYet THEN AnswerTo(call, verb, reply) ELSE NoReply

Store == INSTANCE ObjectStore WITH objects <- Held, result <- Result

Objects == [mine : Marks, theirs : Marks, rv : Nat]

\* Callers give a namespace of its own only to an object, and CreateOrUpdate one that
\* lies where its handle does (configMap and secret of chart.go).
CallsAssumption ==
    /\ Absent \notin Objects \cup Store!Contents /\ Unset \notin Namespaces /\ NoCall \notin Store!CallType
    /\ Marks \subseteq Nat /\ 0 \in Marks
    /\ Calls \subseteq Store!CallType
    /\ \A c \in Calls :
          /\ c.op \notin {"apply", "create_or_update"} => c.own = Unset
          /\ c.op = "create_or_update" => ~c.ignore /\ c.ns = Unset /\ c.own \in {Unset, c.home}
    /\ Backends \subseteq {"cluster", "memory"}
    /\ Pause \in Nat /\ MaxCalls \in Nat /\ MaxWrites \in Nat

ASSUME CallsAssumption

Commands == {"kubectl get", "kubectl delete", "kubectl apply", "rollout", "wait"}
Verbs == {"memory", "GET", "PATCH", "POST", "PUT", "DELETE"} \cup Commands
Statuses == {"pending", "ok", "none", "NotFound", "AlreadyExists", "Conflict", "Invalid",
             "error"}

Init == /\ backend \in Backends
        /\ objects \in [Namespaces -> [mine : Marks, theirs : Marks, rv : {0}] \cup {Absent}]
        /\ revision = 0
        /\ call = NoCall /\ pc = "idle" /\ verb = NoVerb
        /\ body = Absent /\ reply = NoReply
        /\ answer = [status |-> "none", obj |-> Absent]
        /\ elapsed = 0 /\ since = 0
        /\ expired = FALSE
        /\ made = 0 /\ writes = 0

-----------------------------------------------------------------------------
(* The script, and what it starts *)

\* The namespace of a request, and the flag -n of kubectl
Place(c) == IF c.ns # Unset THEN c.ns ELSE c.home

FirstVerb(c) ==
    IF backend = "memory" THEN "memory"
    ELSE
    CASE c.op \in {"get", "create_or_update"} -> "GET"
      [] c.op = "patch" -> "PATCH"
      [] c.op = "delete_by_name" -> "DELETE"
      [] c.op = "delete" -> "kubectl delete"
      [] c.op = "apply" -> "kubectl apply"
      [] c.op = "rollout_status" -> "rollout"
      [] c.op = "wait" -> "wait"

\* A command is not started when the context is done.
Launch(v) == IF v \in Commands /\ expired
             THEN verb' = v /\ pc' = "reply" /\ reply' = Failure
             ELSE verb' = v /\ pc' = "request" /\ UNCHANGED reply

Begin(c) ==
    /\ pc = "idle" /\ made < MaxCalls
    /\ made' = made + 1
    /\ call' = c
    /\ Launch(FirstVerb(c))
    /\ UNCHANGED <<backend, objects, revision, body, answer, timers, expired, writes>>

Step(v) == /\ pc = "request" /\ verb = v
           /\ pc' = "reply"
           /\ UNCHANGED <<backend, call, verb, body, answer, timers, expired, made, writes>>

Put(n, content) ==
    /\ revision' = revision + 1
    /\ objects' = [objects EXCEPT ![n] =
          [mine |-> content.mine, theirs |-> content.theirs, rv |-> revision + 1]]

Remove(n) == /\ objects' = [objects EXCEPT ![n] = Absent]
             /\ UNCHANGED revision

Unchanged == UNCHANGED <<objects, revision>>

Replies(status, o) == reply' = [status |-> status, obj |-> o]

\* A patch adds a field, or removes it, which needs it to be there.
Patchable(o) == call.value # 0 \/ o.mine # 0

\* What mutate writes, and a patch
Mutated(o) == [mine |-> call.value, theirs |-> IF o = Absent THEN 0 ELSE o.theirs]

-----------------------------------------------------------------------------
(* The cluster: k8sImpl, with the API server and kubectl *)

Here == objects[Place(call)]

\* A kind the client does not know is asked for with kubectl, or is an error.
Unknown ==
    /\ pc = "request" /\ ~call.builtin
    /\ verb \in {"GET", "PATCH", "POST", "PUT", "DELETE"}
    /\ IF verb = "GET"
       THEN Launch("kubectl get")
       ELSE pc' = "reply" /\ reply' = Failure /\ UNCHANGED verb
    /\ UNCHANGED <<backend, objects, revision, call, body, answer, timers, expired, made, writes>>

Get == /\ Step("GET") /\ call.builtin
       /\ Unchanged
       /\ IF Here = Absent THEN Replies("NotFound", Absent) ELSE Replies("ok", Here)

\* With --ignore-not-found nothing is printed, and nothing cannot be decoded.
KubectlGet ==
    /\ Step("kubectl get")
    /\ Unchanged
    /\ IF Here # Absent THEN Replies("ok", Here)
       ELSE Replies(IF call.ignore THEN "error" ELSE "NotFound", Absent)

Patch ==
    /\ Step("PATCH") /\ call.builtin
    /\ \/ Here = Absent /\ Unchanged /\ Replies("NotFound", Absent)
       \/ Here # Absent /\ ~Patchable(Here) /\ Unchanged /\ Replies("Invalid", Absent)
       \/ /\ Here # Absent /\ Patchable(Here)
          /\ Put(Place(call), Mutated(Here))
          /\ Replies("ok", objects'[Place(call)])

Post ==
    /\ Step("POST") /\ call.builtin
    /\ IF Here = Absent
       THEN Put(Place(call), Mutated(Absent)) /\ Replies("ok", objects'[Place(call)])
       ELSE Unchanged /\ Replies("AlreadyExists", Absent)

\* (variant: the body does not carry the resourceVersion that was read)
PutBlindly ==
    /\ Step("PUT") /\ call.builtin
    /\ IF Here = Absent
       THEN Unchanged /\ Replies("NotFound", Absent)
       ELSE Put(Place(call), body) /\ Replies("ok", objects'[Place(call)])

\* The body carries the resourceVersion that was read; the API server compares it.
Update ==
    /\ Step("PUT") /\ call.builtin
    /\ \/ Here = Absent /\ Unchanged /\ Replies("NotFound", Absent)
       \/ Here # Absent /\ Here.rv # body.rv /\ Unchanged /\ Replies("Conflict", Absent)
       \/ /\ Here # Absent /\ Here.rv = body.rv
          /\ Put(Place(call), body)
          /\ Replies("ok", objects'[Place(call)])

DeleteByName ==
    /\ Step("DELETE") /\ call.builtin
    /\ IF Here = Absent THEN Unchanged /\ Replies("NotFound", Absent)
       ELSE Remove(Place(call)) /\ Replies("ok", Absent)

\* Always with --ignore-not-found
DeleteObject ==
    /\ Step("kubectl delete")
    /\ Remove(Place(call))
    /\ Replies("ok", Absent)

\* The object gets the handle's namespace if it has none.  kubectl merges; it refuses
\* a namespace that is not the one of -n, and the flag --ignore-not-found.
Apply ==
    LET own == IF call.own # Unset THEN call.own ELSE call.home
    IN  /\ Step("kubectl apply")
        /\ IF own # Place(call) \/ call.ignore
           THEN Unchanged /\ Replies("error", Absent)
           ELSE Put(own, Mutated(objects[own])) /\ Replies("ok", Absent)

\* What rollout status and wait ask for has come, or the object is not there; neither
\* has the flag --ignore-not-found.
RolledOut == \E v \in {"rollout", "wait"} :
    /\ Step(v)
    /\ Here # Absent /\ ~call.ignore
    /\ Unchanged /\ Replies("ok", Absent)

NotThere == \E v \in {"rollout", "wait"} :
    /\ Step(v)
    /\ Here = Absent /\ ~call.ignore
    /\ Unchanged /\ Replies("NotFound", Absent)

\* kubectl has waited for as long as --timeout says, its context is done, or it does not
\* know the flag it is given.
GivesUp == \E v \in {"rollout", "wait"} :
    /\ Step(v)
    /\ (call.timeout > 0 /\ since = call.timeout) \/ expired \/ call.ignore
    /\ Unchanged /\ Replies("error", Absent)

\* Any other failure: the request does not arrive, or what it did is not heard of.
Breaks ==
    /\ backend = "cluster" /\ pc \in {"request", "reply"}
    /\ pc' = "reply" /\ reply' = Failure
    /\ UNCHANGED <<backend, objects, revision, call, verb, body, answer, timers,
                   expired, made, writes>>

Serve == \/ Unknown \/ Get \/ KubectlGet \/ Patch \/ Post \/ Update \/ DeleteByName
         \/ DeleteObject \/ Apply \/ RolledOut \/ NotThere \/ GivesUp \/ Breaks
-----------------------------------------------------------------------------
(* The double: K8sInMemory *)

InMemory(ops) == Step("memory") /\ call.op \in ops

\* GetObject: what is missing is nil, or an error the double knows again.
Absence == IF call.ignore THEN "none" ELSE "NotFound"

InMemoryGet ==
    /\ InMemory({"get"})
    /\ Unchanged
    /\ IF Here = Absent THEN Replies(Absence, Absent) ELSE Replies("ok", Here)

\* A patch of nil is an error, as is one that cannot be applied.
InMemoryPatch ==
    /\ InMemory({"patch"})
    /\ CASE Here = Absent ->
              Unchanged /\ Replies(IF call.ignore THEN "error" ELSE "NotFound", Absent)
         [] Here # Absent /\ ~Patchable(Here) -> Unchanged /\ Replies("error", Absent)
         [] OTHER -> /\ Put(Place(call), Mutated(Here))
                     /\ Replies("ok", objects'[Place(call)])

InMemoryCreateOrUpdate ==
    /\ InMemory({"create_or_update"})
    /\ Put(Place(call), Mutated(Here))
    /\ Replies("ok", objects'[Place(call)])

\* DeleteByName and DeleteObject
InMemoryDelete ==
    /\ InMemory({"delete_by_name", "delete"})
    /\ Remove(Place(call))
    /\ Replies("ok", Absent)

\* The namespace of the object goes first; what was there is replaced.
InMemoryApply ==
    LET key == IF call.own # Unset THEN call.own ELSE Place(call)
    IN  /\ InMemory({"apply"})
        /\ Put(key, Mutated(Absent))
        /\ Replies("ok", Absent)

\* RolloutStatus and Wait: whatever is there is ready, and what may be missing too.
InMemoryWait ==
    /\ InMemory({"rollout_status", "wait"})
    /\ Unchanged
    /\ Replies(IF Here # Absent \/ call.ignore THEN "ok" ELSE "NotFound", Absent)

ServeInMemory == \/ InMemoryGet \/ InMemoryPatch \/ InMemoryCreateOrUpdate
                 \/ InMemoryDelete \/ InMemoryApply \/ InMemoryWait

-----------------------------------------------------------------------------
(* The rest of a call *)

Asks(v, b) ==
    /\ pc' = "request" /\ verb' = v /\ body' = b
    /\ UNCHANGED <<backend, objects, revision, call, reply, answer, timers, expired, made, writes>>

\* The second half of CreateOrUpdate
CreateIt == /\ pc = "reply" /\ Asking /\ reply.status = "NotFound"
            /\ Asks("POST", Absent)

UpdateIt == /\ pc = "reply" /\ Asking /\ reply.status = "ok"
            /\ Asks("PUT", [reply.obj EXCEPT !.mine = call.value])

\* (variant: only the time of one attempt is limited)
NeverUp == FALSE

TimeIsUp == call.timeout > 0 /\ elapsed > call.timeout

\* RolloutStatus waits for an object that is not there yet.
Sleep == /\ pc = "reply" /\ NotYet /\ ~TimeIsUp
         /\ pc' = "sleep" /\ since' = 0
         /\ UNCHANGED <<backend, objects, revision, call, verb, body, reply, answer,
                        elapsed, expired, made, writes>>

TryAgain == /\ pc = "sleep" /\ since = Pause
            /\ Launch("rollout")
            /\ since' = 0
            /\ UNCHANGED <<backend, objects, revision, call, body, answer, elapsed, expired,
                           made, writes>>

Return == /\ pc = "reply"
          /\ Asking => reply.status \notin {"ok", "NotFound"}
          /\ NotYet => TimeIsUp
          /\ answer' = AnswerTo(call, verb, reply)
          /\ call' = NoCall /\ pc' = "idle"
          /\ verb' = NoVerb /\ body' = Absent /\ reply' = NoReply
          /\ elapsed' = 0 /\ since' = 0
          /\ UNCHANGED <<backend, objects, revision, expired, made, writes>>

Proceed == CreateIt \/ UpdateIt \/ Sleep \/ TryAgain \/ Return

\* Time passes while kubectl waits and in the pause; what both take besides is left out.
Waits == pc = "request" /\ verb \in {"rollout", "wait"} /\ call.timeout > 0

Tick == /\ (Waits /\ since < call.timeout) \/ (pc = "sleep" /\ since < Pause)
        /\ since' = since + 1
        /\ elapsed' = IF call.timeout > 0 THEN elapsed + 1 ELSE elapsed
        /\ UNCHANGED <<backend, objects, revision, call, request, answer, expired, made, writes>>

-----------------------------------------------------------------------------
(* The others in the cluster; the end of the context *)

Others ==
    /\ backend = "cluster" /\ writes < MaxWrites
    /\ writes' = writes + 1
    /\ \E n \in Namespaces :
          \/ objects[n] # Absent /\ Remove(n)
          \/ \E content \in Store!Contents : Put(n, content)
    /\ UNCHANGED <<backend, call, request, answer, timers, expired, made>>

Expire == /\ ~expired
          /\ expired' = TRUE
          /\ UNCHANGED <<backend, objects, revision, call, request, answer, timers, made, writes>>

Next == \/ \E c \in Calls : Begin(c)
        \/ Serve \/ ServeInMemory \/ Proceed \/ Tick \/ Others \/ Expire

Spec == Init /\ [][Next]_vars

-----------------------------------------------------------------------------
(* Properties *)

TypeOK ==
    /\ backend \in Backends
    /\ objects \in [Namespaces -> Objects \cup {Absent}]
    /\ revision \in Nat
    /\ pc \in {"idle", "request", "reply", "sleep"}
    /\ IF pc = "idle" THEN call = NoCall /\ verb = NoVerb ELSE call \in Calls /\ verb \in Verbs
    /\ pc # "idle" => (verb = "memory" <=> backend = "memory")
    /\ body \in Objects \cup {Absent}
    /\ verb = "PUT" => body # Absent
    /\ reply \in [status : Statuses, obj : Objects \cup {Absent}]
    /\ answer \in [status : {"ok", "none", "NotFound", "error"}, obj : Store!Contents \cup {Absent}]
    /\ elapsed \in Nat /\ since \in Nat
    /\ expired \in BOOLEAN
    /\ made \in 0..MaxCalls /\ writes \in 0..MaxWrites

\* Both the cluster and the double keep the contract of K8s: every call takes effect
\* at once and at most once, what CreateOrUpdate writes keeps what others have written
\* since it read, and "not found" is only said of what is not there.
ImplementsStore == Store!Spec

\* "Timeout": rollout_status with a timeout waits no longer than twice that long and
\* one pause, whenever the object appears.
InTime == call # NoCall => elapsed <= 2 * call.timeout + Pause

\* A call that waits ends, if it has a timeout, or when the context does.
WaitsEnd ==
    (pc # "idle" /\ call.op \in {"rollout_status", "wait"} /\ (call.timeout > 0 \/ expired))
        ~> (pc = "idle")
=============================================================================
