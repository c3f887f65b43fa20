----------------------------- MODULE ScriptProofs -----------------------------
(***************************************************************************)
(* Proofs about K8sCalls and Script, for any namespaces, fields, calls and *)
(* bounds.  About the calls: their types, the limit on waiting, and that   *)
(* both the cluster and the double implement ObjectStore.  About a script  *)
(* that watches: it makes its calls like any other, and no object is lost  *)
(* or overtaken on its way from kubectl to the loop.                       *)
(***************************************************************************)
EXTENDS Script, TLAPS

-----------------------------------------------------------------------------
(* The calls *)

\* Which request belongs to which call.
VerbInv ==
    pc # "idle" =>
        /\ verb \in {"GET", "kubectl get"} => call.op \in {"get", "create_or_update"}
        /\ verb = "PATCH" => call.op = "patch"
        /\ verb \in {"POST", "PUT"} => call.op = "create_or_update"
        /\ verb = "DELETE" => call.op = "delete_by_name"
        /\ verb = "kubectl delete" => call.op = "delete"
        /\ verb = "kubectl apply" => call.op = "apply"
        /\ verb = "rollout" => call.op = "rollout_status"
        /\ verb = "wait" => call.op = "wait"
        /\ pc = "sleep" => verb = "rollout"

\* No object has a version that has not been given yet.
Known(o) == o # Absent => o.rv <= revision

RevisionInv ==
    /\ \A n \in Namespaces : Known(objects[n])
    /\ Known(body) /\ Known(reply.obj)

\* What CreateOrUpdate has read is still there, if it has the version that was read.
Same(o) == /\ o # Absent
           /\ LET there == objects[Place(call)]
              IN  there # Absent /\ there.rv = o.rv => there.theirs = o.theirs

CopyInv ==
    /\ pc = "reply" /\ Asking /\ reply.status = "ok" => Same(reply.obj)
    /\ pc = "request" /\ verb = "PUT" => Same(body) /\ body.mine = call.value

\* How long each attempt of a call that waits, and the pause between two, may last.
TimeInv ==
    /\ pc = "idle" => elapsed = 0 /\ since = 0
    /\ pc # "idle" =>
          /\ call.timeout = 0 => elapsed = 0
          /\ verb \notin {"rollout", "wait"} => elapsed = 0 /\ since = 0
          /\ pc = "sleep" => since <= Pause /\ elapsed <= call.timeout + since
          /\ pc # "sleep" /\ verb = "rollout" =>
                since <= call.timeout /\ elapsed <= call.timeout + Pause + since
          /\ pc # "sleep" /\ verb = "wait" => since <= call.timeout /\ elapsed <= since

IInv == TypeOK /\ VerbInv /\ RevisionInv /\ CopyInv /\ TimeInv

-----------------------------------------------------------------------------

LEMMA CallFacts ==
    ASSUME NEW c \in Calls
    PROVE  /\ c \in Store!CallType /\ c # NoCall
           /\ c.op \in Store!Ops /\ c.home \in Namespaces
           /\ c.ns \in Namespaces \cup {Unset} /\ c.own \in Namespaces \cup {Unset}
           /\ c.value \in Marks /\ c.ignore \in BOOLEAN /\ c.builtin \in BOOLEAN
           /\ c.timeout \in Nat
           /\ Place(c) \in Namespaces
           /\ c.op \notin {"apply", "create_or_update"} => c.own = Unset
           /\ c.op = "create_or_update" => ~c.ignore /\ c.ns = Unset /\ c.own \in {Unset, c.home}
  BY CallsAssumption DEF CallsAssumption, Store!CallType, Place

LEMMA InitInv == Init => IInv
<1> SUFFICES ASSUME Init PROVE IInv
  OBVIOUS
<1>1. TypeOK
  <2>1. [mine : Marks, theirs : Marks, rv : {0}] \subseteq Objects
    BY DEF Objects
  <2>2. objects \in [Namespaces -> Objects \cup {Absent}]
    BY <2>1 DEF Init
  <2>3. /\ made \in 0..MaxCalls /\ writes \in 0..MaxWrites
    BY CallsAssumption DEF Init, CallsAssumption
  <2>4. /\ reply \in [status : Statuses, obj : Objects \cup {Absent}]
        /\ answer \in [status : {"ok", "none", "NotFound", "error"},
                        obj : Store!Contents \cup {Absent}]
    BY DEF Init, NoReply, Statuses
  <2> QED
    BY <2>2, <2>3, <2>4 DEF Init, TypeOK, NoVerb
<1>2. VerbInv /\ CopyInv /\ TimeInv
  BY DEF Init, VerbInv, CopyInv, TimeInv, NoVerb
<1>3. RevisionInv
  BY DEF Init, RevisionInv, Known, NoReply
<1> QED
  BY <1>1, <1>2, <1>3 DEF IInv

-----------------------------------------------------------------------------

\* A write gives the next version to the object, and leaves the other ones alone.
LEMMA PutFacts ==
    ASSUME IInv, NEW n \in Namespaces, NEW content, Put(n, content),
           content.mine \in Marks, content.theirs \in Marks
    PROVE  /\ objects' \in [Namespaces -> Objects \cup {Absent}]
           /\ revision' = revision + 1
           /\ objects'[n] = [mine |-> content.mine, theirs |-> content.theirs, rv |-> revision + 1]
           /\ objects'[n] \in Objects /\ objects'[n].rv = revision + 1
           /\ \A m \in Namespaces : m # n => objects'[m] = objects[m]
           /\ \A m \in Namespaces : objects'[m] # Absent => objects'[m].rv <= revision'
<1> DEFINE o == [mine |-> content.mine, theirs |-> content.theirs, rv |-> revision + 1]
<1>1. revision \in Nat /\ objects \in [Namespaces -> Objects \cup {Absent}]
  BY DEF IInv, TypeOK
<1>2. o \in Objects /\ o.rv = revision + 1
  BY <1>1 DEF Objects
<1>3. objects' = [objects EXCEPT ![n] = o] /\ revision' = revision + 1
  BY DEF Put
<1>4. objects' \in [Namespaces -> Objects \cup {Absent}]
  BY <1>1, <1>2, <1>3
<1>5. objects'[n] = o /\ \A m \in Namespaces : m # n => objects'[m] = objects[m]
  BY <1>1, <1>3
<1>6. ASSUME NEW m \in Namespaces, objects'[m] # Absent PROVE objects'[m].rv <= revision'
  <2>1. CASE m = n
    BY <2>1, <1>1, <1>2, <1>3, <1>5
  <2>2. CASE m # n
    <3>1. objects[m] \in Objects /\ objects[m].rv <= revision
      BY <2>2, <1>1, <1>5, <1>6 DEF IInv, RevisionInv, Known
    <3> QED
      BY <3>1, <2>2, <1>1, <1>3, <1>5 DEF Objects
  <2> QED
    BY <2>1, <2>2
<1> QED
  BY <1>2, <1>3, <1>4, <1>5, <1>6

LEMMA RemoveFacts ==
    ASSUME IInv, NEW n \in Namespaces, Remove(n)
    PROVE  /\ objects' \in [Namespaces -> Objects \cup {Absent}]
           /\ revision' = revision
           /\ objects'[n] = Absent
           /\ \A m \in Namespaces : m # n => objects'[m] = objects[m]
           /\ \A m \in Namespaces : objects'[m] # Absent => objects'[m].rv <= revision'
  BY DEF Remove, IInv, TypeOK, RevisionInv, Known

LEMMA UnchangedFacts ==
    ASSUME IInv, Unchanged
    PROVE  /\ objects' \in [Namespaces -> Objects \cup {Absent}]
           /\ revision' = revision
           /\ \A m \in Namespaces : objects'[m] = objects[m]
           /\ \A m \in Namespaces : objects'[m] # Absent => objects'[m].rv <= revision'
  BY DEF Unchanged, IInv, TypeOK, RevisionInv, Known

\* What all steps of the server, of kubectl and of the double have in common.
LEMMA StepInv ==
    ASSUME IInv, NEW v \in Verbs, Step(v),
           objects' \in [Namespaces -> Objects \cup {Absent}],
           revision' \in Nat, revision' >= revision,
           \A n \in Namespaces : objects'[n] # Absent => objects'[n].rv <= revision',
           reply' \in [status : Statuses, obj : Objects \cup {Absent}],
           reply'.obj # Absent => reply'.obj.rv <= revision',
           Asking' /\ reply'.status = "ok" => Same(reply.obj)'
    PROVE  IInv'
<1>0. /\ pc = "request" /\ verb = v /\ pc' = "reply" /\ verb' = v /\ call' = call
      /\ backend' = backend /\ body' = body /\ answer' = answer
      /\ elapsed' = elapsed /\ since' = since /\ expired' = expired
      /\ made' = made /\ writes' = writes
  BY DEF Step, timers
<1>1. TypeOK'
  BY <1>0 DEF IInv, TypeOK
<1>2. VerbInv'
  BY <1>0 DEF IInv, VerbInv
<1>3. RevisionInv'
  <2>1. Known(body)'
    <3>1. body # Absent => body.rv \in Nat /\ revision \in Nat /\ body.rv <= revision
      BY DEF IInv, TypeOK, RevisionInv, Known, Objects
    <3> QED
      BY <3>1, <1>0 DEF Known
  <2> QED
    BY <2>1 DEF RevisionInv, Known
<1>4. CopyInv'
  BY <1>0 DEF CopyInv
<1>5. TimeInv'
  BY <1>0 DEF IInv, TimeInv
<1> QED
  BY <1>1, <1>2, <1>3, <1>4, <1>5 DEF IInv

\* What a request for the object of the call finds.
LEMMA HereFacts ==
    ASSUME IInv, pc # "idle"
    PROVE  /\ call \in Calls /\ Place(call) \in Namespaces
           /\ Here \in Objects \cup {Absent}
           /\ Here # Absent => Here.mine \in Marks /\ Here.theirs \in Marks /\ Here.rv <= revision
           /\ call.value \in Marks
           /\ Mutated(Here) = [mine |-> call.value, theirs |-> IF Here = Absent THEN 0 ELSE Here.theirs]
           /\ 0 \in Marks
<1>1. call \in Calls /\ objects \in [Namespaces -> Objects \cup {Absent}]
  BY DEF IInv, TypeOK
<1>2. Place(call) \in Namespaces /\ call.value \in Marks
  BY <1>1, CallFacts
<1>3. Here \in Objects \cup {Absent}
  BY <1>1, <1>2 DEF Here
<1>4. Here # Absent => Here.rv <= revision
  BY <1>2 DEF IInv, RevisionInv, Known, Here
<1> QED
  BY <1>1, <1>2, <1>3, <1>4, CallsAssumption DEF Objects, Mutated, CallsAssumption

LEMMA RepliesFacts ==
    ASSUME NEW s \in Statuses, NEW o, Replies(s, o)
    PROVE  /\ reply' = [status |-> reply'.status, obj |-> reply'.obj]
           /\ reply'.status = s /\ reply'.status \in Statuses /\ reply'.obj = o
  BY DEF Replies

LEMMA ServeInv == IInv /\ (Serve \/ ServeInMemory) /\ ~Unknown /\ ~Breaks => IInv'
<1> SUFFICES ASSUME IInv, Serve \/ ServeInMemory, ~Unknown, ~Breaks PROVE IInv'
  OBVIOUS
<1>0. revision \in Nat /\ pc = "request" /\ call \in Calls
  BY DEF IInv, TypeOK, Serve, Get, KubectlGet, Patch, Post, Update, DeleteByName, DeleteObject,
         Apply, RolledOut, NotThere, GivesUp, ServeInMemory, InMemoryGet, InMemoryPatch,
         InMemoryCreateOrUpdate, InMemoryDelete, InMemoryApply, InMemoryWait, InMemory, Step
<1> DEFINE Wrote(n, content) == /\ Put(n, content)
                                /\ content.mine \in Marks /\ content.theirs \in Marks
                                /\ reply'.obj \in {Absent, objects'[n]}
           Written == \E n \in Namespaces : \E content : Wrote(n, content)
           Taken == \E n \in Namespaces : Remove(n) /\ reply'.obj = Absent
           Read == Unchanged /\ reply'.obj \in {Absent, Here}
<1>1. ASSUME NEW v \in Verbs, Step(v), Written \/ Taken \/ Read,
             reply' = [status |-> reply'.status, obj |-> reply'.obj], reply'.status \in Statuses,
             Asking' /\ reply'.status = "ok" => Same(reply.obj)'
      PROVE  IInv'
  <2>1. /\ objects' \in [Namespaces -> Objects \cup {Absent}]
        /\ revision' \in Nat /\ revision' >= revision
        /\ \A n \in Namespaces : objects'[n] # Absent => objects'[n].rv <= revision'
        /\ reply'.obj \in Objects \cup {Absent}
        /\ reply'.obj # Absent => reply'.obj.rv <= revision'
    <3>1. CASE Written
      <4>0. PICK n \in Namespaces : \E content : Wrote(n, content)
        BY <3>1
      <4>1. PICK content : Wrote(n, content)
        BY <4>0
      <4>2. /\ objects' \in [Namespaces -> Objects \cup {Absent}]
            /\ revision' = revision + 1
            /\ \A m \in Namespaces : objects'[m] # Absent => objects'[m].rv <= revision'
        BY <4>1, PutFacts
      <4>3. objects'[n] \in Objects /\ objects'[n].rv = revision + 1
        BY <4>1, PutFacts
      <4>4. reply'.obj = Absent \/ reply'.obj = objects'[n]
        BY <4>1
      <4> QED
        BY <4>2, <4>3, <4>4, <1>0
    <3>2. CASE Taken
      BY <3>2, <1>0, RemoveFacts
    <3>3. CASE Read
      BY <3>3, <1>0, UnchangedFacts, HereFacts
    <3> QED
      BY <1>1, <3>1, <3>2, <3>3
  <2>2. reply' \in [status : Statuses, obj : Objects \cup {Absent}]
    BY <1>1, <2>1
  <2> QED
    BY <1>1, <2>1, <2>2, StepInv
<1>2. ASSUME NEW v \in Verbs \ {"GET", "kubectl get"}, Step(v) PROVE ~Asking'
  BY <1>2 DEF Asking, Step
<1>3. CASE Get
  <2>1. /\ Step("GET") /\ Read
        /\ reply' = [status |-> reply'.status, obj |-> reply'.obj] /\ reply'.status \in Statuses
        /\ reply'.status = "ok" => reply'.obj = Here /\ Here # Absent
    BY <1>3 DEF Get, Replies, Statuses
  <2>2. Asking' /\ reply'.status = "ok" => Same(reply.obj)'
    BY <2>1 DEF Same, Here, Unchanged, Step, Place
  <2> QED
    BY <2>1, <2>2, <1>1 DEF Verbs
<1>4. CASE KubectlGet
  <2>1. /\ Step("kubectl get") /\ Read
        /\ reply' = [status |-> reply'.status, obj |-> reply'.obj] /\ reply'.status \in Statuses
        /\ reply'.status = "ok" => reply'.obj = Here /\ Here # Absent
    <3>1. \E status \in {"error", "NotFound"} :
             \/ Here # Absent /\ Replies("ok", Here)
             \/ Replies(status, Absent)
      BY <1>4, Zenon DEF KubectlGet
    <3>2. Step("kubectl get") /\ Unchanged
      BY <1>4 DEF KubectlGet
    <3> QED
      BY <3>1, <3>2, RepliesFacts DEF Statuses
  <2>2. Asking' /\ reply'.status = "ok" => Same(reply.obj)'
    BY <2>1 DEF Same, Here, Unchanged, Step, Place
  <2> QED
    BY <2>1, <2>2, <1>1 DEF Verbs, Commands
<1>5. CASE Patch
  <2>1. /\ Step("PATCH") /\ (Written \/ Read)
        /\ reply' = [status |-> reply'.status, obj |-> reply'.obj] /\ reply'.status \in Statuses
    <3>1. CASE Here # Absent /\ Patchable(Here)
      <4>1. Put(Place(call), Mutated(Here)) /\ reply' = [status |-> "ok", obj |-> objects'[Place(call)]]
            /\ Step("PATCH")
        BY <3>1, <1>5 DEF Patch, Replies
      <4>2. Mutated(Here).mine \in Marks /\ Mutated(Here).theirs \in Marks
        BY <3>1, <1>0, HereFacts DEF Objects
      <4>3. Place(call) \in Namespaces
        BY <1>0, HereFacts
      <4> QED
        BY <4>1, <4>2, <4>3 DEF Statuses
    <3>2. CASE ~(Here # Absent /\ Patchable(Here))
      BY <3>2, <1>5 DEF Patch, Replies, Statuses
    <3> QED
      BY <3>1, <3>2
  <2> QED
    BY <2>1, <1>1, <1>2 DEF Verbs
<1>6. CASE Post
  <2>1. /\ Step("POST") /\ (Written \/ Read)
        /\ reply' = [status |-> reply'.status, obj |-> reply'.obj] /\ reply'.status \in Statuses
    <3>1. CASE Here = Absent
      <4>1. Put(Place(call), Mutated(Absent)) /\ reply' = [status |-> "ok", obj |-> objects'[Place(call)]]
            /\ Step("POST")
        BY <3>1, <1>6 DEF Post, Replies
      <4>2. Mutated(Absent).mine \in Marks /\ Mutated(Absent).theirs \in Marks
        BY <1>0, HereFacts DEF Mutated
      <4>3. Place(call) \in Namespaces
        BY <1>0, HereFacts
      <4> QED
        BY <4>1, <4>2, <4>3 DEF Statuses
    <3>2. CASE Here # Absent
      BY <3>2, <1>6 DEF Post, Replies, Statuses
    <3> QED
      BY <3>1, <3>2
  <2> QED
    BY <2>1, <1>1, <1>2 DEF Verbs
<1>7. CASE Update
  <2>1. /\ Step("PUT") /\ (Written \/ Read)
        /\ reply' = [status |-> reply'.status, obj |-> reply'.obj] /\ reply'.status \in Statuses
    <3>1. CASE Here # Absent /\ Here.rv = body.rv
      <4>1. Put(Place(call), body) /\ reply' = [status |-> "ok", obj |-> objects'[Place(call)]]
            /\ Step("PUT")
        BY <3>1, <1>7 DEF Update, Replies
      <4>2. body.mine \in Marks /\ body.theirs \in Marks
        BY <4>1, <1>0 DEF IInv, TypeOK, Objects, Step
      <4>3. Place(call) \in Namespaces
        BY <1>0, HereFacts
      <4> QED
        BY <4>1, <4>2, <4>3 DEF Statuses
    <3>2. CASE ~(Here # Absent /\ Here.rv = body.rv)
      BY <3>2, <1>7 DEF Update, Replies, Statuses
    <3> QED
      BY <3>1, <3>2
  <2> QED
    BY <2>1, <1>1, <1>2 DEF Verbs
<1>8. CASE DeleteByName \/ DeleteObject
  <2>1. \/ Unchanged /\ Replies("NotFound", Absent)
        \/ Remove(Place(call)) /\ Replies("ok", Absent)
    BY <1>8, Zenon DEF DeleteByName, DeleteObject
  <2>2. reply' = [status |-> reply'.status, obj |-> reply'.obj] /\ reply'.status \in Statuses
    BY <2>1, RepliesFacts DEF Statuses
  <2>3. Step("DELETE") \/ Step("kubectl delete")
    BY <1>8 DEF DeleteByName, DeleteObject
  <2>4. Taken \/ Read
    BY <2>1, <1>0, HereFacts, RepliesFacts DEF Statuses
  <2> QED
    BY <2>2, <2>3, <2>4, <1>1, <1>2 DEF Verbs, Commands
<1>9. CASE Apply
  <2> DEFINE own == IF call.own # Unset THEN call.own ELSE call.home
  <2>1. /\ Step("kubectl apply") /\ (Written \/ Read)
        /\ reply' = [status |-> reply'.status, obj |-> reply'.obj] /\ reply'.status \in Statuses
    <3>1. CASE ~(own # Place(call) \/ call.ignore)
      <4>1. Put(own, Mutated(objects[own])) /\ reply' = [status |-> "ok", obj |-> Absent]
            /\ Step("kubectl apply")
        BY <3>1, <1>9 DEF Apply, Replies
      <4>2. own \in Namespaces /\ own = Place(call)
        BY <3>1, <1>0, HereFacts
      <4>3. Mutated(objects[own]).mine \in Marks /\ Mutated(objects[own]).theirs \in Marks
        BY <4>2, <1>0, HereFacts DEF Here
      <4>4. Written
        BY <4>1, <4>2, <4>3
      <4> QED
        BY <4>1, <4>4 DEF Statuses
    <3>2. CASE own # Place(call) \/ call.ignore
      <4>1. Step("kubectl apply") /\ Unchanged /\ reply' = [status |-> "error", obj |-> Absent]
        BY <3>2, <1>9 DEF Apply, Replies
      <4> QED
        BY <4>1 DEF Statuses
    <3> QED
      BY <3>1, <3>2
  <2> QED
    BY <2>1, <1>1, <1>2 DEF Verbs, Commands
<1>10. CASE RolledOut \/ NotThere \/ GivesUp
  <2>1. PICK v \in {"rollout", "wait"} : /\ Step(v) /\ Read
        /\ reply' = [status |-> reply'.status, obj |-> reply'.obj] /\ reply'.status \in Statuses
    BY <1>10 DEF RolledOut, NotThere, GivesUp, Replies, Statuses
  <2> QED
    BY <2>1, <1>1, <1>2 DEF Verbs, Commands
<1>11. ASSUME Step("memory"), NEW n \in Namespaces, Put(n, Mutated(Here)) \/ Put(n, Mutated(Absent)),
              NEW o \in {Absent, objects'[n]}, Replies("ok", o)
       PROVE  IInv'
  <2>1. /\ Mutated(Here).mine \in Marks /\ Mutated(Here).theirs \in Marks
        /\ Mutated(Absent).mine \in Marks /\ Mutated(Absent).theirs \in Marks
    BY <1>0, HereFacts DEF Mutated
  <2>2. /\ reply' = [status |-> reply'.status, obj |-> reply'.obj] /\ reply'.status \in Statuses
        /\ reply'.obj \in {Absent, objects'[n]}
    BY <1>11, RepliesFacts DEF Statuses
  <2>3. Written
    BY <1>11, <2>1, <2>2
  <2> QED
    BY <1>11, <2>2, <2>3, <1>1, <1>2 DEF Verbs
<1>12. ASSUME Step("memory"), Unchanged \/ Remove(Place(call)),
              NEW status \in Statuses, Replies(status, Absent) \/ (Unchanged /\ Replies(status, Here))
       PROVE  IInv'
  <2>1. reply' = [status |-> reply'.status, obj |-> reply'.obj] /\ reply'.status \in Statuses
    BY <1>12, RepliesFacts
  <2>2. Taken \/ Read
    BY <1>12, <1>0, HereFacts, RepliesFacts
  <2> QED
    BY <1>12, <2>1, <2>2, <1>1, <1>2 DEF Verbs
<1>13. {"ok", "none", "NotFound", "error"} \subseteq Statuses /\ Place(call) \in Namespaces
  BY <1>0, HereFacts DEF Statuses
<1>14. CASE InMemoryGet
  <2>1. \E status \in {"ok", "none", "NotFound"} :
            /\ Step("memory") /\ Unchanged
            /\ Replies(status, Absent) \/ Replies(status, Here)
    BY <1>14, Zenon DEF InMemoryGet, InMemory, Absence
  <2> QED
    BY <2>1, <1>12, <1>13
<1>15. CASE InMemoryPatch
  <2>1. CASE Here # Absent /\ Patchable(Here)
    <3>1. Step("memory") /\ Put(Place(call), Mutated(Here)) /\ Replies("ok", objects'[Place(call)])
      BY <1>15, <2>1 DEF InMemoryPatch, InMemory
    <3> QED
      BY <3>1, <1>11, <1>13
  <2>2. CASE Here = Absent
    <3>1. \E status \in {"NotFound", "error"} :
              Step("memory") /\ Unchanged /\ Replies(status, Absent)
      BY <1>15, <2>2, Zenon DEF InMemoryPatch, InMemory
    <3> QED
      BY <3>1, <1>12, <1>13
  <2>3. CASE Here # Absent /\ ~Patchable(Here)
    <3>1. Step("memory") /\ Unchanged /\ Replies("error", Absent)
      BY <1>15, <2>3 DEF InMemoryPatch, InMemory
    <3> QED
      BY <3>1, <1>12, <1>13
  <2> QED
    BY <2>1, <2>2, <2>3
<1>16. CASE InMemoryCreateOrUpdate
  BY <1>16, <1>11, <1>13 DEF InMemoryCreateOrUpdate, InMemory
<1>17. CASE InMemoryDelete
  BY <1>17, <1>12, <1>13 DEF InMemoryDelete, InMemory
<1>18. CASE InMemoryApply
  <2> DEFINE key == IF call.own # Unset THEN call.own ELSE Place(call)
  <2>1. Step("memory") /\ Put(key, Mutated(Absent)) /\ Replies("ok", Absent)
    BY <1>18 DEF InMemoryApply, InMemory
  <2>2. key \in Namespaces
    BY <1>0, <1>13, CallFacts
  <2> QED
    BY <2>1, <2>2, <1>11
<1>19. CASE InMemoryWait
  <2>1. \E status \in {"ok", "NotFound"} :
            Step("memory") /\ Unchanged /\ Replies(status, Absent)
    BY <1>19, Zenon DEF InMemoryWait, InMemory
  <2> QED
    BY <2>1, <1>12, <1>13
<1> QED
  BY <1>3, <1>4, <1>5, <1>6, <1>7, <1>8, <1>9, <1>10, <1>14, <1>15, <1>16, <1>17, <1>18, <1>19
     DEF Serve, ServeInMemory

\* Launch starts a request, or answers with a failure.
LEMMA LaunchFacts ==
    ASSUME NEW v, Launch(v)
    PROVE  /\ verb' = v
           /\ \/ pc' = "request" /\ reply' = reply
              \/ pc' = "reply" /\ reply' = Failure /\ v \in Commands
  BY DEF Launch

LEMMA FailureFacts ==
    /\ Failure \in [status : Statuses, obj : Objects \cup {Absent}]
    /\ NoReply \in [status : Statuses, obj : Objects \cup {Absent}]
    /\ Failure.status = "error" /\ Failure.obj = Absent
    /\ NoReply.status = "pending" /\ NoReply.obj = Absent
  BY DEF Failure, NoReply, Statuses

LEMMA BeginInv == IInv /\ (\E c \in Calls : Begin(c)) => IInv'
<1> SUFFICES ASSUME IInv, NEW c \in Calls, Begin(c) PROVE IInv'
  OBVIOUS
<1> DEFINE v == FirstVerb(c)
<1>1. /\ pc = "idle" /\ made < MaxCalls /\ made' = made + 1 /\ call' = c
      /\ backend' = backend /\ objects' = objects /\ revision' = revision /\ body' = body
      /\ answer' = answer /\ elapsed' = elapsed /\ since' = since /\ expired' = expired
      /\ writes' = writes /\ verb' = v
      /\ \/ pc' = "request" /\ reply' = reply
         \/ pc' = "reply" /\ reply' = Failure /\ v \in Commands
  BY LaunchFacts DEF Begin, timers
<1>2. c.op \in Store!Ops
  BY CallFacts
<1>3. /\ v \in Verbs /\ (v = "memory" <=> backend = "memory")
      /\ v \in {"GET", "kubectl get"} => c.op \in {"get", "create_or_update"}
      /\ v = "PATCH" => c.op = "patch"
      /\ v \notin {"POST", "PUT"}
      /\ v = "DELETE" => c.op = "delete_by_name"
      /\ v = "kubectl delete" => c.op = "delete"
      /\ v = "kubectl apply" => c.op = "apply"
      /\ v = "rollout" => c.op = "rollout_status"
      /\ v = "wait" => c.op = "wait"
  <2>1. CASE backend = "memory"
    BY <2>1, <1>2 DEF FirstVerb, Verbs
  <2>2. CASE backend # "memory"
    <3>1. v = CASE c.op \in {"get", "create_or_update"} -> "GET"
                [] c.op = "patch" -> "PATCH"
                [] c.op = "delete_by_name" -> "DELETE"
                [] c.op = "delete" -> "kubectl delete"
                [] c.op = "apply" -> "kubectl apply"
                [] c.op = "rollout_status" -> "rollout"
                [] c.op = "wait" -> "wait"
      BY <2>2 DEF FirstVerb
    <3> HIDE DEF v
    <3> QED
      BY <1>2, <2>2, <3>1 DEF Verbs, Commands, Store!Ops
  <2> QED
    BY <2>1, <2>2
<1>4. TypeOK'
  <2>1. made' \in 0..MaxCalls
    BY <1>1, CallsAssumption DEF IInv, TypeOK, CallsAssumption
  <2>2. reply' \in [status : Statuses, obj : Objects \cup {Absent}]
    BY <1>1, FailureFacts DEF IInv, TypeOK
  <2> QED
    BY <1>1, <1>3, <2>1, <2>2 DEF IInv, TypeOK
<1>5. VerbInv'
  BY <1>1, <1>3 DEF VerbInv
<1>6. RevisionInv'
  BY <1>1, FailureFacts DEF IInv, RevisionInv, Known
<1>7. CopyInv'
  BY <1>1, <1>3, FailureFacts DEF CopyInv
<1>8. TimeInv'
  <2>1. c.timeout \in Nat /\ Pause \in Nat /\ elapsed = 0 /\ since = 0
    BY <1>1, CallFacts, CallsAssumption DEF IInv, TimeInv, CallsAssumption
  <2> QED
    BY <1>1, <2>1 DEF TimeInv
<1> QED
  BY <1>4, <1>5, <1>6, <1>7, <1>8 DEF IInv

LEMMA UnknownInv == IInv /\ Unknown => IInv'
<1> SUFFICES ASSUME IInv, Unknown PROVE IInv'
  OBVIOUS
<1>1. /\ pc = "request" /\ verb \in {"GET", "PATCH", "POST", "PUT", "DELETE"} /\ call' = call
      /\ backend' = backend /\ objects' = objects /\ revision' = revision /\ body' = body
      /\ answer' = answer /\ elapsed' = elapsed /\ since' = since /\ expired' = expired
      /\ made' = made /\ writes' = writes
      /\ \/ verb = "GET" /\ verb' = "kubectl get" /\ pc' = "request" /\ reply' = reply
         \/ verb = "GET" /\ verb' = "kubectl get" /\ pc' = "reply" /\ reply' = Failure
         \/ verb' = verb /\ pc' = "reply" /\ reply' = Failure
  BY LaunchFacts DEF Unknown, timers
<1>2. TypeOK'
  <2>1. reply' \in [status : Statuses, obj : Objects \cup {Absent}]
    BY <1>1, FailureFacts DEF IInv, TypeOK
  <2> QED
    BY <1>1, <2>1 DEF IInv, TypeOK, Verbs, Commands
<1>3. VerbInv'
  BY <1>1 DEF IInv, VerbInv
<1>4. RevisionInv'
  BY <1>1, FailureFacts DEF IInv, RevisionInv, Known
<1>5. CopyInv'
  BY <1>1, FailureFacts DEF CopyInv
<1>6. TimeInv'
  BY <1>1 DEF IInv, TimeInv
<1> QED
  BY <1>2, <1>3, <1>4, <1>5, <1>6 DEF IInv

LEMMA BreaksInv == IInv /\ Breaks => IInv'
<1> SUFFICES ASSUME IInv, Breaks PROVE IInv'
  OBVIOUS
<1>1. /\ pc \in {"request", "reply"} /\ pc' = "reply" /\ reply' = Failure /\ call' = call
      /\ verb' = verb
      /\ backend' = backend /\ objects' = objects /\ revision' = revision /\ body' = body
      /\ answer' = answer /\ elapsed' = elapsed /\ since' = since /\ expired' = expired
      /\ made' = made /\ writes' = writes
  BY DEF Breaks, timers
<1>2. TypeOK'
  BY <1>1, FailureFacts DEF IInv, TypeOK
<1>3. VerbInv'
  BY <1>1 DEF IInv, VerbInv
<1>4. RevisionInv'
  BY <1>1, FailureFacts DEF IInv, RevisionInv, Known
<1>5. CopyInv'
  BY <1>1, FailureFacts DEF CopyInv
<1>6. TimeInv'
  BY <1>1 DEF IInv, TimeInv
<1> QED
  BY <1>2, <1>3, <1>4, <1>5, <1>6 DEF IInv

-----------------------------------------------------------------------------

LEMMA AsksInv ==
    ASSUME IInv, pc # "idle", call.op = "create_or_update", verb \in {"GET", "kubectl get"},
           NEW b \in Objects \cup {Absent}, Known(b),
           \/ Asks("POST", b)
           \/ Asks("PUT", b) /\ b # Absent /\ Same(b) /\ b.mine = call.value
    PROVE  IInv'
<1>1. /\ pc' = "request" /\ verb' \in {"POST", "PUT"} /\ body' = b
      /\ backend' = backend /\ objects' = objects /\ revision' = revision /\ reply' = reply
      /\ call' = call /\ answer' = answer /\ elapsed' = elapsed /\ since' = since
      /\ expired' = expired /\ made' = made /\ writes' = writes
      /\ verb' = "PUT" => b # Absent /\ Same(b) /\ b.mine = call.value
  BY DEF Asks, timers
<1>2. TypeOK'
  BY <1>1 DEF IInv, TypeOK, Verbs
<1>3. VerbInv'
  BY <1>1 DEF VerbInv
<1>4. RevisionInv'
  BY <1>1 DEF IInv, RevisionInv, Known
<1>5. CopyInv'
  BY <1>1 DEF CopyInv, Same, Place
<1>6. TimeInv'
  BY <1>1 DEF IInv, TimeInv
<1> QED
  BY <1>2, <1>3, <1>4, <1>5, <1>6 DEF IInv

LEMMA CreateOrUpdateInv == IInv /\ (CreateIt \/ UpdateIt) => IInv'
<1> SUFFICES ASSUME IInv, CreateIt \/ UpdateIt PROVE IInv'
  OBVIOUS
<1>1. pc = "reply" /\ call.op = "create_or_update" /\ verb \in {"GET", "kubectl get"}
  BY DEF CreateIt, UpdateIt, Asking
<1>2. CASE CreateIt
  BY <1>1, <1>2, AsksInv DEF CreateIt, Known
<1>3. CASE UpdateIt
  <2> DEFINE o == reply.obj
             b == [o EXCEPT !.mine = call.value]
  <2>1. Same(o)
    BY <1>3 DEF UpdateIt, IInv, CopyInv
  <2>2. o \in Objects /\ o # Absent /\ Known(o)
    BY <2>1 DEF IInv, TypeOK, RevisionInv, Same
  <2>3. call.value \in Marks
    BY <1>1, HereFacts
  <2>4. b \in Objects /\ b.mine = call.value /\ b.theirs = o.theirs /\ b.rv = o.rv
    BY <2>2, <2>3 DEF Objects
  <2>5. b # Absent
    BY <2>4, CallsAssumption DEF CallsAssumption
  <2>6. Known(b) /\ Same(b)
    BY <2>1, <2>2, <2>4, <2>5 DEF Known, Same
  <2> QED
    BY <1>1, <1>3, <2>4, <2>5, <2>6, AsksInv DEF UpdateIt
<1> QED
  BY <1>2, <1>3

LEMMA SleepInv == IInv /\ Sleep => IInv'
<1> SUFFICES ASSUME IInv, Sleep PROVE IInv'
  OBVIOUS
<1>1. /\ pc = "reply" /\ verb = "rollout" /\ ~TimeIsUp /\ pc' = "sleep" /\ since' = 0
      /\ call' = call /\ verb' = verb /\ body' = body /\ reply' = reply
      /\ backend' = backend /\ objects' = objects /\ revision' = revision
      /\ answer' = answer /\ elapsed' = elapsed
      /\ expired' = expired /\ made' = made /\ writes' = writes
  BY DEF Sleep, NotYet
<1>2. call \in Calls /\ call.timeout \in Nat /\ Pause \in Nat /\ elapsed \in Nat
  BY <1>1, CallFacts, CallsAssumption DEF IInv, TypeOK, CallsAssumption
<1>3. TypeOK' /\ VerbInv' /\ RevisionInv' /\ CopyInv'
  BY <1>1 DEF IInv, TypeOK, VerbInv, RevisionInv, Known, CopyInv
<1>4. TimeInv'
  BY <1>1, <1>2 DEF IInv, TimeInv, TimeIsUp
<1> QED
  BY <1>3, <1>4 DEF IInv

LEMMA TryAgainInv == IInv /\ TryAgain => IInv'
<1> SUFFICES ASSUME IInv, TryAgain PROVE IInv'
  OBVIOUS
<1>1. /\ pc = "sleep" /\ since = Pause /\ since' = 0 /\ verb' = "rollout"
      /\ \/ pc' = "request" /\ reply' = reply
         \/ pc' = "reply" /\ reply' = Failure
      /\ call' = call /\ body' = body
      /\ backend' = backend /\ objects' = objects /\ revision' = revision
      /\ answer' = answer /\ elapsed' = elapsed
      /\ expired' = expired /\ made' = made /\ writes' = writes
  BY LaunchFacts DEF TryAgain
<1>2. /\ call \in Calls /\ call.timeout \in Nat /\ Pause \in Nat /\ elapsed \in Nat
      /\ verb = "rollout"
  BY <1>1, CallFacts, CallsAssumption DEF IInv, TypeOK, VerbInv, CallsAssumption
<1>3. reply' \in [status : Statuses, obj : Objects \cup {Absent}]
  BY <1>1, FailureFacts DEF IInv, TypeOK
<1>4. TypeOK' /\ VerbInv'
  BY <1>1, <1>2, <1>3 DEF IInv, TypeOK, VerbInv
<1>5. RevisionInv'
  BY <1>1, FailureFacts DEF IInv, RevisionInv, Known
<1>6. CopyInv'
  BY <1>1, FailureFacts DEF CopyInv
<1>7. TimeInv'
  BY <1>1, <1>2 DEF IInv, TimeInv
<1> QED
  BY <1>4, <1>5, <1>6, <1>7 DEF IInv

\* An object without its version is one.
LEMMA BareFacts ==
    ASSUME NEW o \in Objects \cup {Absent}
    PROVE  /\ Bare(o) \in Store!Contents \cup {Absent}
           /\ Bare(o) = Absent <=> o = Absent
           /\ o # Absent => /\ Bare(o) = [mine |-> o.mine, theirs |-> o.theirs]
                            /\ Bare(o).theirs = o.theirs
  BY CallsAssumption DEF CallsAssumption, Bare, Objects, Store!Contents

LEMMA AnswerFacts ==
    ASSUME NEW c \in Calls, NEW v, NEW r \in [status : Statuses, obj : Objects \cup {Absent}]
    PROVE  AnswerTo(c, v, r) \in [status : {"ok", "none", "NotFound", "error"},
                                  obj : Store!Contents \cup {Absent}]
<1> DEFINE Answers == [status : {"ok", "none", "NotFound", "error"}, obj : Store!Contents \cup {Absent}]
           forgiven == c.ignore /\ (r.status = "NotFound" \/ (v = "PATCH" /\ r.status = "Invalid"))
<1>1. c.ignore \in BOOLEAN /\ r.status \in Statuses /\ r.obj \in Objects \cup {Absent}
  BY CallFacts
<1>2. CASE r.status \in {"ok", "none"}
  <2>1. AnswerTo(c, v, r) = [status |-> r.status, obj |-> Bare(r.obj)]
    BY <1>2 DEF AnswerTo
  <2> QED
    BY <2>1, <1>1, <1>2, BareFacts
<1>3. CASE r.status \notin {"ok", "none"}
  <2>1. \/ AnswerTo(c, v, r) = [status |-> "none", obj |-> Absent]
        \/ AnswerTo(c, v, r) = [status |-> "ok", obj |-> Absent]
        \/ AnswerTo(c, v, r) = [status |-> "NotFound", obj |-> Absent]
        \/ AnswerTo(c, v, r) = Failure
    BY <1>1, <1>3 DEF AnswerTo
  <2> QED
    BY <2>1 DEF Failure
<1> QED
  BY <1>2, <1>3

LEMMA ReturnInv == IInv /\ Return => IInv'
<1> SUFFICES ASSUME IInv, Return PROVE IInv'
  OBVIOUS
<1>1. /\ pc = "reply" /\ pc' = "idle" /\ call' = NoCall /\ verb' = NoVerb /\ body' = Absent
      /\ reply' = NoReply /\ elapsed' = 0 /\ since' = 0 /\ answer' = AnswerTo(call, verb, reply)
      /\ backend' = backend /\ objects' = objects /\ revision' = revision
      /\ expired' = expired /\ made' = made /\ writes' = writes
  BY DEF Return
<1>2. answer' \in [status : {"ok", "none", "NotFound", "error"}, obj : Store!Contents \cup {Absent}]
  BY <1>1, AnswerFacts DEF IInv, TypeOK
<1>3. reply' \in [status : Statuses, obj : Objects \cup {Absent}] /\ reply'.obj = Absent
  BY <1>1, FailureFacts
<1>4. TypeOK'
  BY <1>1, <1>2, <1>3 DEF IInv, TypeOK, NoVerb
<1>5. RevisionInv'
  BY <1>1, <1>3 DEF IInv, RevisionInv, Known
<1>6. VerbInv' /\ CopyInv' /\ TimeInv'
  BY <1>1 DEF VerbInv, CopyInv, TimeInv
<1> QED
  BY <1>4, <1>5, <1>6 DEF IInv

LEMMA TickInv == IInv /\ Tick => IInv'
<1> SUFFICES ASSUME IInv, Tick PROVE IInv'
  OBVIOUS
<1>1. /\ pc' = pc /\ verb' = verb /\ body' = body /\ reply' = reply /\ call' = call
      /\ backend' = backend /\ objects' = objects /\ revision' = revision
      /\ answer' = answer /\ expired' = expired /\ made' = made /\ writes' = writes
      /\ since' = since + 1
      /\ elapsed' = IF call.timeout > 0 THEN elapsed + 1 ELSE elapsed
      /\ \/ /\ pc = "request" /\ verb \in {"rollout", "wait"} /\ call.timeout > 0
            /\ since < call.timeout
         \/ pc = "sleep" /\ since < Pause
  BY DEF Tick, Waits, request
<1>2. /\ call \in Calls /\ call.timeout \in Nat /\ Pause \in Nat
      /\ elapsed \in Nat /\ since \in Nat
      /\ pc = "sleep" => verb = "rollout"
  BY <1>1, CallFacts, CallsAssumption DEF IInv, TypeOK, VerbInv, CallsAssumption
<1>3. TypeOK'
  BY <1>1, <1>2 DEF IInv, TypeOK
<1>4. VerbInv' /\ RevisionInv'
  BY <1>1 DEF IInv, VerbInv, RevisionInv, Known
<1>5. CopyInv'
  BY <1>1 DEF IInv, CopyInv, Asking, Same, Place
<1>6. TimeInv'
  BY <1>1, <1>2 DEF IInv, TimeInv
<1> QED
  BY <1>3, <1>4, <1>5, <1>6 DEF IInv

-----------------------------------------------------------------------------

\* What has been read stays the same, or gets another version.
LEMMA SameKept ==
    ASSUME IInv, pc # "idle", NEW o \in Objects, Known(o), Same(o), call' = call,
           NEW n \in Namespaces,
           \/ Remove(n)
           \/ \E content \in Store!Contents : Put(n, content)
    PROVE  Same(o)'
<1>1. Place(call) \in Namespaces /\ Place(call)' = Place(call)
  BY HereFacts DEF Place
<1>2. o # Absent /\ revision \in Nat /\ o.rv <= revision /\ o.rv \in Nat
  BY DEF Same, Known, Objects, IInv, TypeOK
<1>3. CASE Remove(n)
  BY <1>1, <1>2, <1>3, RemoveFacts DEF Same
<1>4. CASE \E content \in Store!Contents : Put(n, content)
  <2>1. PICK content \in Store!Contents : Put(n, content)
    BY <1>4
  <2>2. content.mine \in Marks /\ content.theirs \in Marks
    BY DEF Store!Contents
  <2>3. objects'[n].rv = revision + 1
    BY <2>1, <2>2, PutFacts
  <2>4. \A m \in Namespaces : m # n => objects'[m] = objects[m]
    BY <2>1, <2>2, PutFacts
  <2> QED
    BY <1>1, <1>2, <2>3, <2>4 DEF Same
<1> QED
  BY <1>3, <1>4

LEMMA OthersInv == IInv /\ Others => IInv'
<1> SUFFICES ASSUME IInv, Others PROVE IInv'
  OBVIOUS
<1>1. /\ pc' = pc /\ verb' = verb /\ body' = body /\ reply' = reply /\ call' = call
      /\ backend' = backend /\ answer' = answer /\ elapsed' = elapsed /\ since' = since
      /\ expired' = expired /\ made' = made
      /\ writes < MaxWrites /\ writes' = writes + 1
  BY DEF Others, request, timers
<1>2. PICK n \in Namespaces : \/ Remove(n)
                              \/ \E content \in Store!Contents : Put(n, content)
  BY DEF Others
<1>3. /\ objects' \in [Namespaces -> Objects \cup {Absent}]
      /\ revision \in Nat /\ revision' \in Nat /\ revision' >= revision
      /\ \A m \in Namespaces : objects'[m] # Absent => objects'[m].rv <= revision'
  <2>0. revision \in Nat
    BY DEF IInv, TypeOK
  <2>1. CASE Remove(n)
    BY <2>0, <2>1, RemoveFacts
  <2>2. CASE \E content \in Store!Contents : Put(n, content)
    <3>1. PICK content \in Store!Contents : Put(n, content)
      BY <2>2
    <3>2. content.mine \in Marks /\ content.theirs \in Marks
      BY DEF Store!Contents
    <3>3. /\ objects' \in [Namespaces -> Objects \cup {Absent}]
          /\ revision' = revision + 1
          /\ \A m \in Namespaces : objects'[m] # Absent => objects'[m].rv <= revision'
      BY <3>1, <3>2, PutFacts
    <3> QED
      BY <2>0, <3>3
  <2> QED
    BY <1>2, <2>1, <2>2
<1>4. /\ body \in Objects \cup {Absent} /\ reply.obj \in Objects \cup {Absent}
      /\ Known(body) /\ Known(reply.obj)
  BY DEF IInv, TypeOK, RevisionInv
<1>5. TypeOK'
  <2>1. writes' \in 0..MaxWrites
    BY <1>1, CallsAssumption DEF IInv, TypeOK, CallsAssumption
  <2> QED
    BY <1>1, <1>3, <2>1 DEF IInv, TypeOK
<1>6. VerbInv' /\ TimeInv'
  BY <1>1 DEF IInv, VerbInv, TimeInv
<1>7. RevisionInv'
  <2>1. ASSUME NEW o \in Objects \cup {Absent}, Known(o) PROVE o # Absent => o.rv <= revision'
    BY <1>3, <2>1 DEF Known, Objects
  <2> QED
    BY <1>1, <1>3, <1>4, <2>1 DEF RevisionInv, Known
<1>8. CopyInv'
  <2>1. ASSUME NEW o \in Objects \cup {Absent}, pc # "idle", Known(o), Same(o) PROVE Same(o)'
    BY <1>1, <1>2, <2>1, SameKept DEF Same
  <2>2. ASSUME pc' = "reply", Asking', reply'.status = "ok" PROVE Same(reply.obj)'
    <3>1. Same(reply.obj)
      BY <1>1, <2>2 DEF IInv, CopyInv, Asking
    <3> QED
      BY <1>1, <1>4, <2>1, <2>2, <3>1 DEF Same
  <2>3. ASSUME pc' = "request", verb' = "PUT" PROVE Same(body)' /\ body'.mine = call'.value
    <3>1. Same(body) /\ body.mine = call.value
      BY <1>1, <2>3 DEF IInv, CopyInv
    <3> QED
      BY <1>1, <1>4, <2>1, <2>3, <3>1 DEF Same
  <2> QED
    BY <2>2, <2>3 DEF CopyInv
<1> QED
  BY <1>5, <1>6, <1>7, <1>8 DEF IInv

LEMMA ExpireInv == IInv /\ (Expire \/ UNCHANGED vars) => IInv'
<1> SUFFICES ASSUME IInv, Expire \/ UNCHANGED vars PROVE IInv'
  OBVIOUS
<1>1. /\ pc' = pc /\ verb' = verb /\ body' = body /\ reply' = reply /\ call' = call
      /\ backend' = backend /\ objects' = objects /\ revision' = revision
      /\ answer' = answer /\ elapsed' = elapsed /\ since' = since
      /\ made' = made /\ writes' = writes
      /\ (expired' = TRUE \/ expired' = expired)
  BY DEF Expire, vars, request, timers
<1>2. TypeOK' /\ VerbInv' /\ RevisionInv' /\ TimeInv'
  <2>1. TypeOK'
    BY <1>1 DEF IInv, TypeOK
  <2> QED
    BY <1>1, <2>1 DEF IInv, VerbInv, RevisionInv, Known, TimeInv
<1>3. CopyInv'
  BY <1>1 DEF IInv, CopyInv, Asking, Same, Place
<1> QED
  BY <1>2, <1>3 DEF IInv

LEMMA NextInv == IInv /\ [Next]_vars => IInv'
<1> SUFFICES ASSUME IInv, [Next]_vars PROVE IInv'
  OBVIOUS
<1>1. CASE \E c \in Calls : Begin(c)
  BY <1>1, BeginInv
<1>2. CASE Serve \/ ServeInMemory
  BY <1>2, ServeInv, UnknownInv, BreaksInv
<1>3. CASE Proceed
  BY <1>3, CreateOrUpdateInv, SleepInv, TryAgainInv, ReturnInv DEF Proceed
<1>4. CASE Tick \/ Others \/ Expire \/ UNCHANGED vars
  BY <1>4, TickInv, OthersInv, ExpireInv
<1> QED
  BY <1>1, <1>2, <1>3, <1>4 DEF Next

-----------------------------------------------------------------------------

\* The inductive invariant holds in every state.
THEOREM CallsInvariant == Spec => []IInv
<1>1. Init => IInv
  BY InitInv
<1>2. IInv /\ [Next]_vars => IInv'
  BY NextInv
<1> QED
  BY <1>1, <1>2, PTL DEF Spec

\* Objects, requests, replies and answers are what they should be, whatever is called,
\* whatever the others do and whatever is lost: an answer carries no version, the double
\* serves all requests of a script or none.
THEOREM CallsTypeCorrect == Spec => []TypeOK
<1>1. IInv => TypeOK
  BY DEF IInv
<1> QED
  BY <1>1, CallsInvariant, PTL

\* rollout_status with a timeout ends after twice that and one pause (the loop of
\* RolloutStatus), for any timeout and any pause.
THEOREM WaitsInTime == Spec => []InTime
<1>1. IInv => InTime
  <2> SUFFICES ASSUME IInv, call # NoCall PROVE elapsed <= 2 * call.timeout + Pause
    BY DEF InTime
  <2>1. pc # "idle"
    BY DEF IInv, TypeOK
  <2>2. /\ call.timeout \in Nat /\ Pause \in Nat /\ elapsed \in Nat /\ since \in Nat
    BY <2>1, CallFacts, CallsAssumption DEF IInv, TypeOK, CallsAssumption
  <2>3. /\ verb \notin {"rollout", "wait"} => elapsed = 0
        /\ pc = "sleep" => since <= Pause /\ elapsed <= call.timeout + since
        /\ pc # "sleep" /\ verb = "rollout" =>
              since <= call.timeout /\ elapsed <= call.timeout + Pause + since
        /\ pc # "sleep" /\ verb = "wait" => since <= call.timeout /\ elapsed <= since
    BY <2>1 DEF IInv, TimeInv
  <2> QED
    BY <2>2, <2>3
<1> QED
  BY <1>1, CallsInvariant, PTL

-----------------------------------------------------------------------------
(* The refinement of ObjectStore: requests, kubectl commands and the double *)
(* of `kdo test' keep the contract of the interface K8s.  A call takes      *)
(* effect in the step that serves its last request; reading what            *)
(* CreateOrUpdate will change, and each attempt of rollout_status that      *)
(* finds nothing, are stutters.                                             *)

\* Only the double answers with nothing instead of an object.
NoneInv == pc = "reply" /\ reply.status = "none" => verb = "memory"

LEMMA NoneFacts == Spec => []NoneInv
<1>1. Init => NoneInv
  BY DEF Init, NoneInv
<1>2. ASSUME NoneInv, [Next]_vars PROVE NoneInv'
  <2>1. CASE \E c \in Calls : Begin(c)
    BY <2>1, LaunchFacts, FailureFacts DEF Begin, NoneInv
  <2>2. CASE Unknown
    BY <2>2, LaunchFacts, FailureFacts DEF Unknown, NoneInv
  <2>3. CASE Serve /\ ~Unknown
    <3> DEFINE Told == \E s \in Statuses \ {"none"} : \E o : Replies(s, o)
    <3>1. Told => NoneInv'
      BY DEF Replies, NoneInv
    <3>2. CASE Get
      BY <3>1, <3>2 DEF Get, Statuses
    <3>3. CASE KubectlGet
      <4>1. \E s \in {"ok", "error", "NotFound"} : \E o : Replies(s, o)
        BY <3>3, Zenon DEF KubectlGet
      <4> QED
        BY <3>1, <4>1 DEF Statuses
    <3>4. CASE Patch
      <4>1. \E s \in {"ok", "Invalid", "NotFound"} : \E o : Replies(s, o)
        BY <3>4, Zenon DEF Patch
      <4> QED
        BY <3>1, <4>1 DEF Statuses
    <3>5. CASE Post
      BY <3>1, <3>5 DEF Post, Statuses
    <3>6. CASE Update
      <4>1. \E s \in {"ok", "Conflict", "NotFound"} : \E o : Replies(s, o)
        BY <3>6, Zenon DEF Update
      <4> QED
        BY <3>1, <4>1 DEF Statuses
    <3>7. CASE DeleteByName \/ DeleteObject
      <4>1. \E s \in {"ok", "NotFound"} : \E o : Replies(s, o)
        BY <3>7, Zenon DEF DeleteByName, DeleteObject
      <4> QED
        BY <3>1, <4>1 DEF Statuses
    <3>8. CASE Apply
      <4>1. \E s \in {"ok", "error"} : \E o : Replies(s, o)
        BY <3>8, Zenon DEF Apply
      <4> QED
        BY <3>1, <4>1 DEF Statuses
    <3>9. CASE RolledOut \/ NotThere \/ GivesUp
      <4>1. \E s \in {"ok", "error", "NotFound"} : \E o : Replies(s, o)
        BY <3>9, Zenon DEF RolledOut, NotThere, GivesUp
      <4> QED
        BY <3>1, <4>1 DEF Statuses
    <3>10. CASE Breaks
      BY <3>10, FailureFacts DEF Breaks, NoneInv
    <3> QED
      BY <2>3, <3>2, <3>3, <3>4, <3>5, <3>6, <3>7, <3>8, <3>9, <3>10 DEF Serve
  <2>4. CASE ServeInMemory
    <3>1. Step("memory")
      BY <2>4 DEF ServeInMemory, InMemoryGet, InMemoryPatch, InMemoryCreateOrUpdate,
                  InMemoryDelete, InMemoryApply, InMemoryWait, InMemory
    <3> QED
      BY <3>1 DEF Step, NoneInv
  <2>5. CASE Proceed
    <3>1. CASE TryAgain
      BY <3>1, LaunchFacts, FailureFacts DEF TryAgain, NoneInv
    <3>2. CASE CreateIt \/ UpdateIt \/ Sleep \/ Return
      BY <3>2 DEF CreateIt, UpdateIt, Asks, Sleep, Return, NoneInv
    <3> QED
      BY <2>5, <3>1, <3>2 DEF Proceed
  <2>6. CASE Tick \/ Others \/ Expire \/ UNCHANGED vars
    <3>1. UNCHANGED request
      BY <2>6, Zenon DEF Tick, Others, Expire, vars
    <3> QED
      BY <1>2, <3>1 DEF request, NoneInv
  <2> QED
    BY <1>2, <2>1, <2>2, <2>3, <2>4, <2>5, <2>6 DEF Next
<1> QED
  BY <1>1, <1>2, PTL DEF Spec

-----------------------------------------------------------------------------

LEMMA HeldFacts ==
    ASSUME IInv
    PROVE  /\ Held \in [Namespaces -> Store!Contents \cup {Absent}]
           /\ \A n \in Namespaces : /\ Held[n] = Bare(objects[n])
                                    /\ Held[n] = Absent <=> objects[n] = Absent
           /\ \A n \in Namespaces : [Held EXCEPT ![n] = Held[n]] = Held
<1>1. \A n \in Namespaces : objects[n] \in Objects \cup {Absent}
  BY DEF IInv, TypeOK
<1>2. \A n \in Namespaces : /\ Bare(objects[n]) \in Store!Contents \cup {Absent}
                            /\ Bare(objects[n]) = Absent <=> objects[n] = Absent
  BY <1>1, BareFacts
<1>3. Held = [n \in Namespaces |-> Bare(objects[n])]
  BY DEF Held
<1> HIDE DEF Held
<1> QED
  BY <1>2, <1>3

LEMMA HeldPut ==
    ASSUME IInv, NEW n \in Namespaces, NEW content, Put(n, content),
           content.mine \in Marks, content.theirs \in Marks
    PROVE  LET o == [mine |-> content.mine, theirs |-> content.theirs]
           IN  /\ o \in Store!Contents /\ Bare(objects'[n]) = o
               /\ Held' = [Held EXCEPT ![n] = o]
<1> DEFINE o == [mine |-> content.mine, theirs |-> content.theirs]
<1>1. /\ objects'[n] = [mine |-> content.mine, theirs |-> content.theirs, rv |-> revision + 1]
      /\ objects'[n] \in Objects
      /\ \A m \in Namespaces : m # n => objects'[m] = objects[m]
  BY PutFacts
<1>2. objects'[n] # Absent
  BY <1>1, CallsAssumption DEF CallsAssumption
<1>3. Bare(objects'[n]) = o
  BY <1>1, <1>2 DEF Bare
<1>4. o \in Store!Contents
  BY DEF Store!Contents
<1>5. Held' = [m \in Namespaces |-> Bare(objects'[m])] /\ Held = [m \in Namespaces |-> Bare(objects[m])]
  BY DEF Held, Bare
<1> QED
  BY <1>1, <1>3, <1>4, <1>5

LEMMA HeldRemove ==
    ASSUME IInv, NEW n \in Namespaces, Remove(n)
    PROVE  Held' = [Held EXCEPT ![n] = Absent]
<1>1. objects'[n] = Absent /\ \A m \in Namespaces : m # n => objects'[m] = objects[m]
  BY RemoveFacts
<1>2. Bare(objects'[n]) = Absent
  BY <1>1 DEF Bare
<1>3. Held' = [m \in Namespaces |-> Bare(objects'[m])] /\ Held = [m \in Namespaces |-> Bare(objects[m])]
  BY DEF Held, Bare
<1> QED
  BY <1>1, <1>2, <1>3

\* What the answers of requests mean to the caller.
LEMMA AnswerOfOk ==
    ASSUME NEW c, NEW v, NEW r, r.status = "ok"
    PROVE  AnswerTo(c, v, r) = [status |-> "ok", obj |-> Bare(r.obj)]
BY DEF AnswerTo

LEMMA Answers ==
    ASSUME NEW c \in Calls, NEW v, NEW r
    PROVE  /\ r.status \in {"ok", "none"} =>
                 AnswerTo(c, v, r) = [status |-> r.status, obj |-> Bare(r.obj)]
           /\ r.status = "NotFound" /\ v \in {"GET", "PATCH"} => AnswerTo(c, v, r) = Store!Missing(c)
           /\ r.status = "NotFound" /\ v = "DELETE" /\ c.ignore => AnswerTo(c, v, r) = Store!Ok(Absent)
           /\ r.status = "NotFound" /\ v # "rollout" /\ ~c.ignore =>
                 AnswerTo(c, v, r) = Store!NotFound
           /\ r.status = "NotFound" /\ v = "rollout" => AnswerTo(c, v, r) = Store!Error
           /\ r.status = "Invalid" /\ v = "PATCH" /\ c.ignore => AnswerTo(c, v, r) = Store!None
           /\ r.status = "Invalid" /\ v = "PATCH" /\ ~c.ignore => AnswerTo(c, v, r) = Store!Error
           /\ r.status \in {"error", "Conflict", "AlreadyExists"} => AnswerTo(c, v, r) = Store!Error
<1>1. c.ignore \in BOOLEAN
  BY CallFacts
<1>2. CASE r.status \in {"ok", "none"}
  BY <1>2 DEF AnswerTo
<1>3. CASE r.status = "NotFound" /\ v \in {"GET", "PATCH"}
  BY <1>1, <1>3 DEF AnswerTo, Store!Missing, Store!None, Store!NotFound
<1>4. CASE r.status = "NotFound" /\ v \notin {"GET", "PATCH"}
  BY <1>1, <1>4 DEF AnswerTo, Store!Ok, Store!Error, Store!NotFound, Failure
<1>5. CASE r.status = "Invalid" /\ v = "PATCH"
  BY <1>1, <1>5 DEF AnswerTo, Store!None, Store!Error, Failure
<1>6. CASE r.status \in {"error", "Conflict", "AlreadyExists"}
  BY <1>1, <1>6 DEF AnswerTo, Store!Error, Failure
<1> QED
  BY <1>1, <1>2, <1>3, <1>4, <1>5, <1>6

LEMMA BareAbsent == Bare(Absent) = Absent
  BY DEF Bare

\* The answer of a step, seen from above.
LEMMA StepResult ==
    ASSUME IInv, NEW v, Step(v), NEW status, NEW o, Replies(status, o)
    PROVE  /\ pc = "request" /\ verb = v /\ call \in Calls /\ call # NoCall
           /\ call' = call /\ answer' = answer
           /\ Result = Store!Pending
           /\ Result' = IF \/ call.op = "create_or_update" /\ v \in {"GET", "kubectl get"}
                           \/ v = "rollout" /\ status = "NotFound"
                        THEN Store!Pending
                        ELSE AnswerTo(call, v, reply')
           /\ reply'.status = status /\ reply'.obj = o
<1>1. /\ pc = "request" /\ verb = v /\ verb' = v /\ call' = call /\ answer' = answer
      /\ pc' = "reply" /\ reply' = [status |-> status, obj |-> o]
  BY DEF Step, Replies
<1>2. call \in Calls /\ call # NoCall
  BY <1>1, CallFacts DEF IInv, TypeOK
<1>3. NoReply = Store!Pending
  BY DEF NoReply, Store!Pending
<1> QED
  BY <1>1, <1>2, <1>3 DEF Result, Asking, NotYet

LEMMA Stutters ==
    ASSUME Held' = Held, call' = call, Result' = Result, answer' = answer
    PROVE  UNCHANGED Store!vars
  BY DEF Store!vars

LEMMA Fails ==
    ASSUME call # NoCall, Result' = Store!Error, Held' = Held, call' = call, answer' = answer
    PROVE  Store!Next
  BY DEF Store!Next, Store!Fail

LEMMA TakesEffect ==
    ASSUME call # NoCall, Result = Store!Pending, call' = call, answer' = answer,
           NEW n \in Store!Contents \cup {Absent},
           Store!Outcome(call, Held[Store!Address(call)], n, Result'),
           Held' = [Held EXCEPT ![Store!Address(call)] = n]
    PROVE  Store!Next
  BY DEF Store!Next, Store!TakeEffect

\* Where the calls of each kind find their object.
LEMMA Addresses ==
    ASSUME NEW c \in Calls
    PROVE  /\ Store!Address(c) \in Namespaces
           /\ c.op # "apply" => Store!Address(c) = Place(c)
           /\ c.op = "apply" => Store!Address(c) = IF c.own # Unset THEN c.own ELSE Place(c)
  BY CallFacts DEF Store!Address, Place

LEMMA HeldHere ==
    ASSUME IInv, pc # "idle", call.op # "apply"
    PROVE  /\ Store!Address(call) = Place(call)
           /\ Held[Place(call)] = Bare(Here) /\ (Bare(Here) = Absent <=> Here = Absent)
           /\ Here # Absent => /\ Bare(Here) = [mine |-> Here.mine, theirs |-> Here.theirs]
                               /\ Bare(Here) \in Store!Contents
           /\ Bare(Here) \in Store!Contents \cup {Absent}
           /\ Bare(Absent) = Absent
           /\ [Held EXCEPT ![Place(call)] = Bare(Here)] = Held
<1>1. Place(call) \in Namespaces /\ Here \in Objects \cup {Absent} /\ call \in Calls
  BY HereFacts
<1>2. Held[Place(call)] = Bare(Here)
  BY <1>1, HeldFacts DEF Here
<1>3. [Held EXCEPT ![Place(call)] = Bare(Here)] = Held
  BY <1>1, <1>2, HeldFacts
<1> QED
  BY <1>1, <1>2, <1>3, Addresses, BareFacts DEF Bare

LEMMA HeldSame == Unchanged => Held' = Held
  BY DEF Unchanged, Held, Bare

-----------------------------------------------------------------------------

\* A patch, or a write of CreateOrUpdate, of what is there.
LEMMA WriteRefines ==
    ASSUME IInv, NEW v \in {"PATCH", "POST", "PUT", "memory"}, Step(v),
           call.op \in {"patch", "create_or_update"},
           call.op = "patch" => Here # Absent,
           NEW content, Put(Place(call), content), content.mine = call.value,
           content.theirs = IF Here = Absent THEN 0 ELSE Here.theirs,
           Replies("ok", objects'[Place(call)])
    PROVE  Store!Next
<1> DEFINE n == [mine |-> content.mine, theirs |-> content.theirs]
<1>1. /\ call \in Calls /\ call # NoCall /\ call' = call /\ answer' = answer
      /\ Result = Store!Pending /\ pc = "request"
      /\ Result' = AnswerTo(call, v, reply')
      /\ reply'.status = "ok" /\ reply'.obj = objects'[Place(call)]
  BY StepResult
<1>2. content.mine \in Marks /\ content.theirs \in Marks /\ Place(call) \in Namespaces
  BY <1>1, HereFacts
<1>3. n \in Store!Contents /\ Bare(objects'[Place(call)]) = n /\ Held' = [Held EXCEPT ![Place(call)] = n]
  BY <1>2, HeldPut
<1>4. Result' = Store!Ok(n)
  BY <1>1, <1>3, Answers DEF Store!Ok
<1>5. /\ Store!Address(call) = Place(call) /\ Held[Place(call)] = Bare(Here)
      /\ Bare(Here) = Absent <=> Here = Absent
      /\ Here # Absent => Bare(Here) = [mine |-> Here.mine, theirs |-> Here.theirs]
  BY <1>1, HeldHere
<1>6. Store!Outcome(call, Bare(Here), n, Result')
  BY <1>4, <1>5 DEF Store!Outcome, Store!Kept
<1> QED
  BY <1>1, <1>3, <1>5, <1>6, TakesEffect

\* What leaves the object as it is.
LEMMA ReadRefines ==
    ASSUME IInv, pc # "idle", call.op # "apply", Unchanged, Result = Store!Pending,
           call' = call, answer' = answer,
           \/ Result' \in {Store!Pending, Store!Error}
           \/ Store!Outcome(call, Bare(Here), Bare(Here), Result')
    PROVE  [Store!Next]_Store!vars
<1>1. call # NoCall /\ Held' = Held
  BY HereFacts, CallFacts, HeldSame
<1>2. CASE Result' = Store!Pending
  BY <1>1, <1>2, Stutters
<1>3. CASE Result' = Store!Error
  BY <1>1, <1>3, Fails
<1>4. CASE Store!Outcome(call, Bare(Here), Bare(Here), Result')
  BY <1>1, <1>4, HeldHere, TakesEffect
<1> QED
  BY <1>2, <1>3, <1>4

LEMMA RemoveRefines ==
    ASSUME IInv, NEW v \in {"DELETE", "kubectl delete", "memory"}, Step(v),
           call.op \in {"delete", "delete_by_name"},
           Remove(Place(call)), Replies("ok", Absent)
    PROVE  Store!Next
<1>1. /\ call \in Calls /\ call # NoCall /\ call' = call /\ answer' = answer
      /\ Result = Store!Pending /\ pc = "request"
      /\ Result' = AnswerTo(call, v, reply') /\ reply'.status = "ok" /\ reply'.obj = Absent
  BY StepResult
<1>2. Result' = Store!Ok(Absent)
  BY <1>1, Answers, BareAbsent DEF Store!Ok
<1>3. Held' = [Held EXCEPT ![Place(call)] = Absent]
  BY <1>1, HereFacts, HeldRemove
<1>4. Store!Address(call) = Place(call)
  BY <1>1, HeldHere
<1>5. Store!Outcome(call, Held[Place(call)], Absent, Result')
  BY <1>2 DEF Store!Outcome
<1> QED
  BY <1>1, <1>3, <1>4, <1>5, TakesEffect

LEMMA ApplyRefines ==
    ASSUME IInv, NEW v \in {"kubectl apply", "memory"}, Step(v), call.op = "apply",
           NEW own \in Namespaces, own = Store!Address(call),
           Put(own, Mutated(objects[own])) \/ Put(own, Mutated(Absent)), Replies("ok", Absent)
    PROVE  Store!Next
<1>1. /\ call \in Calls /\ call # NoCall /\ call' = call /\ answer' = answer
      /\ Result = Store!Pending /\ pc = "request"
      /\ Result' = AnswerTo(call, v, reply') /\ reply'.status = "ok" /\ reply'.obj = Absent
  BY StepResult
<1>2. Result' = Store!Ok(Absent)
  BY <1>1, Answers, BareAbsent DEF Store!Ok
<1>3. /\ objects[own] \in Objects \cup {Absent} /\ call.value \in Marks /\ 0 \in Marks
      /\ Held[own] = Bare(objects[own])
  BY <1>1, HereFacts, HeldFacts DEF IInv, TypeOK
<1>4. PICK o \in {objects[own], Absent} : Put(own, Mutated(o))
  OBVIOUS
<1>5. Mutated(o).mine = call.value /\ Mutated(o).theirs = IF o = Absent THEN 0 ELSE o.theirs
  BY DEF Mutated
<1>6. Mutated(o).mine \in Marks /\ Mutated(o).theirs \in Marks
  BY <1>3, <1>5 DEF Objects
<1> DEFINE n == [mine |-> Mutated(o).mine, theirs |-> Mutated(o).theirs]
<1>7. n \in Store!Contents /\ Held' = [Held EXCEPT ![own] = n]
  BY <1>4, <1>6, HeldPut
<1>8. Store!Kept(Bare(objects[own])) = IF objects[own] = Absent THEN 0 ELSE objects[own].theirs
  <2>1. CASE objects[own] = Absent
    BY <2>1 DEF Store!Kept, Bare
  <2>2. CASE objects[own] # Absent
    <3>1. Bare(objects[own]) # Absent /\ Bare(objects[own]).theirs = objects[own].theirs
      BY <2>2, <1>3, BareFacts
    <3> QED
      BY <2>2, <3>1, Zenon DEF Store!Kept
  <2> QED
    BY <2>1, <2>2
<1>9. Store!Outcome(call, Held[own], n, Result')
  <2>1. \/ n = [mine |-> call.value, theirs |-> Store!Kept(Held[own])]
        \/ n = [mine |-> call.value, theirs |-> 0]
    BY <1>3, <1>5, <1>8
  <2> QED
    BY <1>2, <2>1 DEF Store!Outcome
<1> QED
  BY <1>1, <1>7, <1>9, TakesEffect

-----------------------------------------------------------------------------

\* An answer that is not the object and changes nothing.
LEMMA SaysRefines ==
    ASSUME IInv, NEW v \in Verbs, Step(v), Unchanged, call.op # "apply",
           NEW status, Replies(status, Absent),
           \/ status \in {"error", "Conflict", "AlreadyExists"}
           \/ status = "NotFound" /\ v = "rollout"
           \/ status = "NotFound" /\ v = "memory" /\ ~call.ignore /\ Here = Absent
                 /\ call.op \in {"get", "patch", "rollout_status", "wait"}
           \/ status = "NotFound" /\ v = "wait" /\ ~call.ignore /\ Here = Absent
           \/ status = "NotFound" /\ v \in {"GET", "PATCH", "PUT", "DELETE"} /\ Here = Absent
           \/ status = "NotFound" /\ v = "kubectl get" /\ ~call.ignore /\ Here = Absent
           \/ status = "Invalid" /\ v = "PATCH" /\ Here # Absent
           \/ status = "none" /\ call.op = "get" /\ call.ignore /\ Here = Absent
           \/ status = "ok" /\ call.op \in {"rollout_status", "wait"}
                 /\ v \in {"rollout", "wait", "memory"} /\ (Here # Absent \/ call.ignore)
    PROVE  [Store!Next]_Store!vars
<1> DEFINE a == AnswerTo(call, v, reply')
           o == Bare(Here)
<1>1. /\ pc = "request" /\ verb = v /\ call \in Calls /\ call # NoCall
      /\ call' = call /\ answer' = answer /\ Result = Store!Pending
      /\ reply'.status = status /\ reply'.obj = Absent
      /\ Result' = Store!Pending \/ (Result' = a /\ ~(call.op = "create_or_update" /\ v \in {"GET", "kubectl get"})
                                                 /\ ~(v = "rollout" /\ status = "NotFound"))
  BY StepResult
<1>2. /\ call.ignore \in BOOLEAN
      /\ call.op = "create_or_update" => ~call.ignore
      /\ Bare(Absent) = Absent /\ (o = Absent <=> Here = Absent)
      /\ o \in Store!Contents \cup {Absent}
  BY <1>1, CallFacts, HeldHere
<1>3. /\ verb \in {"GET", "kubectl get"} => call.op \in {"get", "create_or_update"}
      /\ verb = "PATCH" => call.op = "patch"
      /\ verb \in {"POST", "PUT"} => call.op = "create_or_update"
      /\ verb = "DELETE" => call.op = "delete_by_name"
      /\ verb = "wait" => call.op = "wait"
  BY <1>1 DEF IInv, VerbInv
<1>4. CASE Result' = Store!Pending
  BY <1>1, <1>4, ReadRefines
<1>5. CASE Result' # Store!Pending
  <2>1. /\ Result' = a
        /\ call.op = "create_or_update" => v \notin {"GET", "kubectl get"}
        /\ v = "rollout" => status # "NotFound"
    BY <1>1, <1>5
  <2>2. CASE status \in {"error", "Conflict", "AlreadyExists"}
    <3>1. a = Store!Error
      BY <1>1, <2>2, Answers
    <3> QED
      BY <1>1, <2>1, <3>1, ReadRefines
  <2>3. CASE status = "NotFound" /\ Here = Absent /\ ~call.ignore
    <3>1. a = Store!NotFound
      BY <1>1, <2>1, <2>3, Answers
    <3>2. call.op \in {"get", "patch", "create_or_update", "delete_by_name", "rollout_status", "wait"}
      BY <1>1, <1>3, <2>1, <2>3
    <3>3. Store!Outcome(call, o, o, Result')
      BY <1>2, <2>1, <2>3, <3>1, <3>2 DEF Store!Outcome, Store!Missing
    <3> QED
      BY <1>1, <3>3, ReadRefines
  <2>4. CASE status = "NotFound" /\ Here = Absent /\ call.ignore
    <3>1. v \in {"GET", "PATCH", "DELETE"} /\ call.op \in {"get", "patch", "delete_by_name"}
          /\ (v = "DELETE" <=> call.op = "delete_by_name")
      BY <1>1, <1>2, <1>3, <2>1, <2>4
    <3>2. CASE v = "DELETE"
      <4>1. a = Store!Ok(Absent)
        BY <1>1, <2>4, <3>2, Answers
      <4> QED
        BY <1>1, <1>2, <2>1, <2>4, <3>1, <3>2, <4>1, ReadRefines DEF Store!Outcome
    <3>3. CASE v \in {"GET", "PATCH"}
      <4>1. a = Store!Missing(call)
        BY <1>1, <2>4, <3>3, Answers
      <4>2. Store!Outcome(call, o, o, Result')
        BY <1>2, <2>1, <2>4, <3>1, <3>3, <4>1 DEF Store!Outcome
      <4> QED
        BY <1>1, <4>2, ReadRefines
    <3> QED
      BY <3>1, <3>2, <3>3
  <2>5. CASE status = "Invalid" /\ v = "PATCH" /\ Here # Absent
    <3>1. /\ call.ignore => a = Store!None
          /\ ~call.ignore => a = Store!Error
      BY <1>1, <2>5, Answers
    <3>2. CASE call.ignore
      <4>1. Store!Outcome(call, o, o, Result')
        BY <1>1, <1>2, <1>3, <2>1, <2>5, <3>1, <3>2 DEF Store!Outcome
      <4> QED
        BY <1>1, <4>1, ReadRefines
    <3>3. CASE ~call.ignore
      BY <1>1, <2>1, <3>1, <3>3, ReadRefines
    <3> QED
      BY <1>2, <3>2, <3>3
  <2>6. CASE status = "none" /\ call.op = "get" /\ call.ignore /\ Here = Absent
    <3>1. a = Store!None
      BY <1>1, <1>2, <2>6, Answers DEF Store!None
    <3>2. Store!Outcome(call, o, o, Result')
      BY <1>2, <2>1, <2>6, <3>1 DEF Store!Outcome, Store!Missing
    <3> QED
      BY <1>1, <3>2, ReadRefines
  <2>7. CASE status = "ok" /\ call.op \in {"rollout_status", "wait"} /\ (Here # Absent \/ call.ignore)
    <3>1. a = Store!Ok(Absent)
      BY <1>1, <1>2, <2>7, Answers DEF Store!Ok
    <3>2. Store!Outcome(call, o, o, Result')
      BY <1>2, <2>1, <2>7, <3>1 DEF Store!Outcome
    <3> QED
      BY <1>1, <3>2, ReadRefines
  <2> QED
    BY <1>2, <2>1, <2>2, <2>3, <2>4, <2>5, <2>6, <2>7
<1> QED
  BY <1>4, <1>5

\* An answer that is the object.
LEMMA GetRefines ==
    ASSUME IInv, NEW v \in {"GET", "kubectl get", "memory"}, Step(v), Unchanged,
           call.op \in {"get", "create_or_update"}, v = "memory" => call.op = "get",
           Here # Absent, Replies("ok", Here)
    PROVE  [Store!Next]_Store!vars
<1> DEFINE o == Bare(Here)
<1>1. /\ pc = "request" /\ call \in Calls /\ call' = call /\ answer' = answer
      /\ Result = Store!Pending
      /\ call.op = "create_or_update" => Result' = Store!Pending
      /\ call.op = "get" => Result' = AnswerTo(call, v, reply')
      /\ reply'.status = "ok" /\ reply'.obj = Here
  BY StepResult
<1>2. CASE call.op = "create_or_update"
  <2>1. Result' = Store!Pending
    BY <1>1, <1>2
  <2> QED
    BY <1>1, <1>2, <2>1, ReadRefines
<1>3. CASE call.op = "get"
  <2>1. Result' = Store!Ok(o)
    <3>1. AnswerTo(call, v, reply') = [status |-> "ok", obj |-> Bare(Here)]
      BY <1>1, AnswerOfOk
    <3> QED
      BY <1>1, <1>3, <3>1 DEF Store!Ok
  <2>2. o # Absent
    BY <1>1, <1>3, HeldHere
  <2>3. Store!Outcome(call, o, o, Result')
    BY <1>3, <2>1, <2>2 DEF Store!Outcome
  <2> QED
    BY <1>1, <1>3, <2>3, ReadRefines
<1> QED
  BY <1>2, <1>3

-----------------------------------------------------------------------------

\* The answer of a failure.
LEMMA FailureResult ==
    ASSUME NEW c \in Calls, call' = c, pc' = "reply", reply' = Failure
    PROVE  Result' \in {Store!Pending, Store!Error}
<1>1. reply'.status = "error"
  BY FailureFacts
<1>2. AnswerTo(c, verb', reply') = Store!Error
  BY <1>1, Answers
<1>3. NoReply = Store!Pending
  BY DEF NoReply, Store!Pending
<1> QED
  BY <1>2, <1>3 DEF Result

LEMMA InitRefines == Init => Store!Init
<1> SUFFICES ASSUME Init PROVE Store!Init
  OBVIOUS
<1>1. IInv
  BY InitInv
<1>2. Held \in [Namespaces -> Store!Contents \cup {Absent}]
  BY <1>1, HeldFacts
<1>3. Result = Store!Pending
  BY DEF Init, Result, NoReply, Store!Pending
<1> QED
  BY <1>2, <1>3 DEF Init, Store!Init, Store!None

LEMMA BeginRefines == IInv /\ (\E c \in Calls : Begin(c)) => Store!Next
<1> SUFFICES ASSUME IInv, NEW c \in Calls, Begin(c) PROVE Store!Next
  OBVIOUS
<1>1. /\ pc = "idle" /\ call = NoCall /\ call' = c /\ answer' = answer /\ objects' = objects
      /\ (pc' = "request" \/ (pc' = "reply" /\ reply' = Failure))
  BY LaunchFacts DEF Begin, IInv, TypeOK
<1>2. Result' \in {Store!Pending, Store!Error}
  <2>1. CASE pc' = "request"
    BY <2>1 DEF Result, NoReply, Store!Pending
  <2>2. CASE pc' = "reply" /\ reply' = Failure
    BY <1>1, <2>2, FailureResult
  <2> QED
    BY <1>1, <2>1, <2>2
<1>3. Held' = Held
  BY <1>1 DEF Held, Bare
<1> QED
  BY <1>1, <1>2, <1>3 DEF Store!Next, Store!Begin

LEMMA UnknownRefines == IInv /\ Unknown => [Store!Next]_Store!vars
<1> SUFFICES ASSUME IInv, Unknown PROVE [Store!Next]_Store!vars
  OBVIOUS
<1>1. /\ pc = "request" /\ call' = call /\ answer' = answer /\ objects' = objects
      /\ (pc' = "request" \/ (pc' = "reply" /\ reply' = Failure))
  BY LaunchFacts DEF Unknown
<1>2. call \in Calls /\ call # NoCall
  BY <1>1, HereFacts, CallFacts
<1>3. Held' = Held /\ Result = Store!Pending
  BY <1>1 DEF Held, Bare, Result, NoReply, Store!Pending
<1>4. Result' \in {Store!Pending, Store!Error}
  <2>1. CASE pc' = "request"
    BY <2>1 DEF Result, NoReply, Store!Pending
  <2>2. CASE pc' = "reply" /\ reply' = Failure
    BY <1>1, <1>2, <2>2, FailureResult
  <2> QED
    BY <1>1, <2>1, <2>2
<1> QED
  BY <1>1, <1>2, <1>3, <1>4, Stutters, Fails

LEMMA BreaksRefines == IInv /\ Breaks => [Store!Next]_Store!vars
<1> SUFFICES ASSUME IInv, Breaks PROVE [Store!Next]_Store!vars
  OBVIOUS
<1>1. /\ pc \in {"request", "reply"} /\ pc' = "reply" /\ reply' = Failure
      /\ call' = call /\ verb' = verb /\ answer' = answer /\ objects' = objects
  BY DEF Breaks
<1>2. call \in Calls /\ call # NoCall
  BY <1>1, HereFacts, CallFacts
<1>3. Held' = Held
  BY <1>1 DEF Held, Bare
<1>4. Result' \in {Store!Pending, Store!Error}
  BY <1>1, <1>2, FailureResult
<1>5. CASE Result' = Store!Error
  BY <1>1, <1>2, <1>3, <1>5, Fails
<1>6. CASE Result' = Store!Pending /\ Result' # Store!Error
  <2>1. Asking'
    <3>1. reply'.status = "error"
      BY <1>1, FailureFacts
    <3>2. AnswerTo(call, verb, reply') = Store!Error
      BY <1>2, <3>1, Answers
    <3> QED
      BY <1>1, <1>6, <3>1, <3>2 DEF Result, NotYet
  <2>2. Asking
    BY <1>1, <2>1 DEF Asking
  <2>3. Result = Store!Pending
    BY <2>2 DEF Result, NoReply, Store!Pending
  <2> QED
    BY <1>1, <1>3, <1>6, <2>3, Stutters
<1> QED
  BY <1>4, <1>5, <1>6

LEMMA ProceedRefines == IInv /\ NoneInv /\ Proceed => [Store!Next]_Store!vars
<1> SUFFICES ASSUME IInv, NoneInv, Proceed PROVE [Store!Next]_Store!vars
  OBVIOUS
<1>0. NoReply = Store!Pending
  BY DEF NoReply, Store!Pending
<1>1. CASE CreateIt \/ UpdateIt
  <2>1. /\ pc' = "request" /\ call' = call /\ answer' = answer /\ objects' = objects /\ Asking
    BY <1>1 DEF CreateIt, UpdateIt, Asks
  <2>2. Held' = Held /\ Result' = Result
    BY <2>1 DEF Held, Bare, Result
  <2> QED
    BY <2>1, <2>2, Stutters
<1>2. CASE Sleep
  <2>1. /\ pc' = "sleep" /\ call' = call /\ answer' = answer /\ objects' = objects /\ NotYet
    BY <1>2 DEF Sleep
  <2>2. Held' = Held /\ Result' = Result
    BY <2>1 DEF Held, Bare, Result
  <2> QED
    BY <2>1, <2>2, Stutters
<1>3. CASE TryAgain
  <2>1. /\ pc = "sleep" /\ call' = call /\ answer' = answer /\ objects' = objects
        /\ (pc' = "request" \/ (pc' = "reply" /\ reply' = Failure))
    BY <1>3, LaunchFacts DEF TryAgain
  <2>2. call \in Calls /\ call # NoCall
    BY <2>1, HereFacts, CallFacts
  <2>3. Held' = Held /\ Result = Store!Pending
    BY <2>1, <1>0 DEF Held, Bare, Result
  <2>4. Result' \in {Store!Pending, Store!Error}
    <3>1. CASE pc' = "request"
      BY <3>1, <1>0 DEF Result
    <3>2. CASE pc' = "reply" /\ reply' = Failure
      BY <2>1, <2>2, <3>2, FailureResult
    <3> QED
      BY <2>1, <3>1, <3>2
  <2> QED
    BY <2>1, <2>2, <2>3, <2>4, Stutters, Fails
<1>4. CASE Return
  <2>1. /\ pc = "reply" /\ pc' = "idle" /\ call' = NoCall /\ objects' = objects
        /\ answer' = AnswerTo(call, verb, reply)
        /\ Asking => reply.status \notin {"ok", "NotFound"}
    BY <1>4 DEF Return
  <2>2. /\ call \in Calls /\ call # NoCall /\ call.ignore \in BOOLEAN
        /\ reply.status \in Statuses
    BY <2>1, HereFacts, CallFacts DEF IInv, TypeOK
  <2>3. Held' = Held /\ Result' = Store!Pending
    BY <2>1, <1>0 DEF Held, Bare, Result
  <2>4. answer' = IF Result = Store!Pending THEN Store!Error ELSE Result
    <3>1. CASE ~Asking /\ ~NotYet
      <4>1. Result = answer'
        BY <2>1, <3>1 DEF Result
      <4>2. answer'.status \in {"ok", "none", "NotFound", "error"}
        BY <2>1, AnswerFacts DEF IInv, TypeOK
      <4> QED
        BY <4>1, <4>2 DEF Store!Pending
    <3>2. CASE Asking
      <4>1. reply.status \in {"pending", "AlreadyExists", "Conflict", "Invalid", "error"}
        <5>1. verb # "memory"
          BY <3>2 DEF Asking
        <5>2. reply.status # "none"
          BY <2>1, <5>1 DEF NoneInv
        <5> QED
          BY <2>1, <2>2, <3>2, <5>2 DEF Statuses
      <4>2. verb # "PATCH"
        BY <3>2 DEF Asking
      <4>3. AnswerTo(call, verb, reply) = Failure
        BY <4>1, <4>2 DEF AnswerTo
      <4> QED
        BY <2>1, <3>2, <4>3, <1>0 DEF Result, Failure, Store!Error
    <3>3. CASE NotYet
      <4>1. AnswerTo(call, verb, reply) = Store!Error
        BY <2>2, <3>3, Answers DEF NotYet
      <4> QED
        BY <2>1, <3>3, <4>1, <1>0 DEF Result
    <3> QED
      BY <3>1, <3>2, <3>3
  <2> QED
    BY <2>1, <2>2, <2>3, <2>4 DEF Store!Next, Store!Return
<1> QED
  BY <1>1, <1>2, <1>3, <1>4 DEF Proceed

LEMMA OthersRefines == IInv /\ Others => Store!Next
<1> SUFFICES ASSUME IInv, Others PROVE Store!Next
  OBVIOUS
<1>1. call' = call /\ answer' = answer /\ UNCHANGED <<call, request>>
  BY DEF Others
<1>2. Result' = Result
  BY <1>1 DEF Result, Asking, NotYet, request
<1>3. PICK n \in Namespaces : \/ Remove(n)
                              \/ \E content \in Store!Contents : Put(n, content)
  BY DEF Others
<1>4. \E o \in Store!Contents \cup {Absent} : Held' = [Held EXCEPT ![n] = o]
  <2>1. CASE Remove(n)
    BY <2>1, HeldRemove
  <2>2. CASE \E content \in Store!Contents : Put(n, content)
    <3>1. PICK content \in Store!Contents : Put(n, content)
      BY <2>2
    <3>2. content.mine \in Marks /\ content.theirs \in Marks
      BY DEF Store!Contents
    <3> QED
      BY <3>1, <3>2, HeldPut
  <2> QED
    BY <1>3, <2>1, <2>2
<1> QED
  BY <1>1, <1>2, <1>4 DEF Store!Next, Store!Others

LEMMA IdleRefines == Tick \/ Expire \/ UNCHANGED vars => UNCHANGED Store!vars
<1> SUFFICES ASSUME Tick \/ Expire \/ UNCHANGED vars PROVE UNCHANGED Store!vars
  OBVIOUS
<1>1. objects' = objects /\ call' = call /\ answer' = answer /\ request' = request
  BY Zenon DEF Tick, Expire, vars
<1>2. Held' = Held /\ Result' = Result
  BY <1>1 DEF Held, Bare, Result, Asking, NotYet, request
<1> QED
  BY <1>1, <1>2, Stutters

LEMMA ServeRefines == IInv /\ Serve => [Store!Next]_Store!vars
<1> SUFFICES ASSUME IInv, Serve PROVE [Store!Next]_Store!vars
  OBVIOUS
<1>1. CASE Unknown \/ Breaks
  BY <1>1, UnknownRefines, BreaksRefines
<1>2. CASE Get \/ KubectlGet \/ Patch \/ Post \/ Update \/ DeleteByName \/ DeleteObject \/ Apply
           \/ RolledOut \/ NotThere \/ GivesUp
  <2>0. /\ pc = "request" /\ call \in Calls /\ call.ignore \in BOOLEAN
        /\ verb \in {"GET", "kubectl get"} => call.op \in {"get", "create_or_update"}
        /\ verb = "PATCH" => call.op = "patch"
        /\ verb \in {"POST", "PUT"} => call.op = "create_or_update"
        /\ verb = "DELETE" => call.op = "delete_by_name"
        /\ verb = "kubectl delete" => call.op = "delete"
        /\ verb = "kubectl apply" => call.op = "apply"
        /\ verb = "rollout" => call.op = "rollout_status"
        /\ verb = "wait" => call.op = "wait"
    <3>1. pc = "request"
      BY <1>2 DEF Get, KubectlGet, Patch, Post, Update, DeleteByName, DeleteObject, Apply,
                  RolledOut, NotThere, GivesUp, Step
    <3> QED
      BY <3>1, HereFacts, CallFacts DEF IInv, VerbInv
  <2>1. {"GET", "kubectl get", "PATCH", "POST", "PUT", "DELETE", "kubectl delete",
         "kubectl apply", "rollout", "wait"} \subseteq Verbs
    BY DEF Verbs, Commands
  <2>2. ASSUME NEW v \in Verbs, Step(v) PROVE verb = v
    BY <2>2 DEF Step
  <2>3. CASE Get
    <3>1. Step("GET") /\ Unchanged /\ verb = "GET"
      BY <2>3 DEF Get, Step
    <3>2. \/ Here = Absent /\ Replies("NotFound", Absent)
          \/ Here # Absent /\ Replies("ok", Here)
      BY <2>3 DEF Get
    <3> QED
      BY <2>0, <2>1, <3>1, <3>2, GetRefines, SaysRefines
  <2>4. CASE KubectlGet
    <3>1. Step("kubectl get") /\ Unchanged /\ verb = "kubectl get"
      BY <2>4 DEF KubectlGet, Step
    <3>2. \/ Here # Absent /\ Replies("ok", Here)
          \/ Replies("error", Absent)
          \/ Here = Absent /\ ~call.ignore /\ Replies("NotFound", Absent)
      BY <2>0, <2>4, Zenon DEF KubectlGet
    <3> QED
      BY <2>0, <2>1, <3>1, <3>2, GetRefines, SaysRefines
  <2>5. CASE Patch
    <3>1. Step("PATCH") /\ verb = "PATCH"
      BY <2>5 DEF Patch, Step
    <3>2. \/ Here = Absent /\ Unchanged /\ Replies("NotFound", Absent)
          \/ Here # Absent /\ Unchanged /\ Replies("Invalid", Absent)
          \/ Here # Absent /\ Put(Place(call), Mutated(Here)) /\ Replies("ok", objects'[Place(call)])
      BY <2>5, Zenon DEF Patch
    <3>3. Here # Absent => Mutated(Here).mine = call.value /\ Mutated(Here).theirs = Here.theirs
      BY DEF Mutated
    <3>4. CASE Here # Absent /\ Put(Place(call), Mutated(Here)) /\ Replies("ok", objects'[Place(call)])
      BY <2>0, <3>1, <3>3, <3>4, WriteRefines
    <3>5. CASE Unchanged
      BY <2>0, <2>1, <3>1, <3>2, <3>4, <3>5, SaysRefines
    <3> QED
      BY <3>2, <3>4, <3>5
  <2>6. CASE Post
    <3>1. Step("POST") /\ verb = "POST"
      BY <2>6 DEF Post, Step
    <3>2. Mutated(Absent).mine = call.value /\ Mutated(Absent).theirs = 0
      BY DEF Mutated
    <3>3. CASE Here = Absent
      <4>1. Put(Place(call), Mutated(Absent)) /\ Replies("ok", objects'[Place(call)])
        BY <2>6, <3>3 DEF Post
      <4> QED
        BY <2>0, <3>1, <3>2, <3>3, <4>1, WriteRefines
    <3>4. CASE Here # Absent
      <4>1. Unchanged /\ Replies("AlreadyExists", Absent)
        BY <2>6, <3>4 DEF Post
      <4> QED
        BY <2>0, <2>1, <3>1, <4>1, SaysRefines
    <3> QED
      BY <3>3, <3>4
  <2>7. CASE Update
    <3>1. Step("PUT") /\ verb = "PUT"
      BY <2>7 DEF Update, Step
    <3>2. Same(body) /\ body.mine = call.value
      BY <2>0, <3>1 DEF IInv, CopyInv
    <3>3. \/ Here = Absent /\ Unchanged /\ Replies("NotFound", Absent)
          \/ Unchanged /\ Replies("Conflict", Absent)
          \/ Here # Absent /\ Here.rv = body.rv /\ Put(Place(call), body)
                /\ Replies("ok", objects'[Place(call)])
      BY <2>7, Zenon DEF Update
    <3>4. CASE Here # Absent /\ Here.rv = body.rv /\ Put(Place(call), body)
               /\ Replies("ok", objects'[Place(call)])
      <4>1. body.theirs = Here.theirs
        BY <3>2, <3>4 DEF Same, Here
      <4> QED
        BY <2>0, <3>1, <3>2, <3>4, <4>1, WriteRefines
    <3>5. CASE Unchanged
      BY <2>0, <2>1, <3>1, <3>3, <3>4, <3>5, SaysRefines
    <3> QED
      BY <3>3, <3>4, <3>5
  <2>8. CASE DeleteByName
    <3>1. Step("DELETE") /\ verb = "DELETE"
      BY <2>8 DEF DeleteByName, Step
    <3>2. \/ Here = Absent /\ Unchanged /\ Replies("NotFound", Absent)
          \/ Remove(Place(call)) /\ Replies("ok", Absent)
      BY <2>8, Zenon DEF DeleteByName
    <3> QED
      BY <2>0, <2>1, <3>1, <3>2, RemoveRefines, SaysRefines
  <2>9. CASE DeleteObject
    <3>1. /\ Step("kubectl delete") /\ verb = "kubectl delete"
          /\ Remove(Place(call)) /\ Replies("ok", Absent)
      BY <2>9 DEF DeleteObject, Step
    <3> QED
      BY <2>0, <3>1, RemoveRefines
  <2>10. CASE Apply
    <3> DEFINE own == IF call.own # Unset THEN call.own ELSE call.home
    <3>1. Step("kubectl apply") /\ verb = "kubectl apply"
      BY <2>10 DEF Apply, Step
    <3>2. CASE own # Place(call) \/ call.ignore
      <4>1. Unchanged /\ Replies("error", Absent)
        BY <2>10, <3>2, Zenon DEF Apply
      <4>2. /\ call # NoCall /\ call' = call /\ answer' = answer /\ reply'.status = "error"
            /\ Result' = AnswerTo(call, "kubectl apply", reply')
        BY <2>0, <3>1, <4>1, StepResult
      <4>3. Result' = Store!Error
        BY <2>0, <4>2, Answers
      <4> QED
        BY <4>1, <4>2, <4>3, HeldSame, Fails
    <3>3. CASE ~(own # Place(call) \/ call.ignore)
      <4>1. Put(own, Mutated(objects[own])) /\ Replies("ok", Absent)
        BY <2>10, <3>3, Zenon DEF Apply
      <4>2. own \in Namespaces /\ own = Store!Address(call)
        BY <2>0, <3>1, <3>3, CallFacts, Addresses
      <4> QED
        BY <2>0, <3>1, <4>1, <4>2, ApplyRefines
    <3> QED
      BY <3>2, <3>3
  <2>11. CASE RolledOut \/ NotThere \/ GivesUp
    <3>1. PICK v \in {"rollout", "wait"} : /\ Step(v) /\ Unchanged
              /\ \/ Here # Absent /\ Replies("ok", Absent)
                 \/ Here = Absent /\ ~call.ignore /\ Replies("NotFound", Absent)
                 \/ Replies("error", Absent)
      BY <2>11, Zenon DEF RolledOut, NotThere, GivesUp
    <3>2. verb = v
      BY <3>1 DEF Step
    <3> QED
      BY <2>0, <2>1, <3>1, <3>2, SaysRefines
  <2> QED
    BY <1>2, <2>3, <2>4, <2>5, <2>6, <2>7, <2>8, <2>9, <2>10, <2>11
<1> QED
  BY <1>1, <1>2 DEF Serve

LEMMA ServeInMemoryRefines == IInv /\ ServeInMemory => [Store!Next]_Store!vars
<1> SUFFICES ASSUME IInv, ServeInMemory PROVE [Store!Next]_Store!vars
  OBVIOUS
<1>1. Step("memory") /\ pc = "request" /\ call \in Calls /\ call.ignore \in BOOLEAN /\ "memory" \in Verbs
  <2>1. Step("memory")
    BY DEF ServeInMemory, InMemoryGet, InMemoryPatch, InMemoryCreateOrUpdate,
           InMemoryDelete, InMemoryApply, InMemoryWait, InMemory
  <2> QED
    BY <2>1, HereFacts, CallFacts DEF Step, Verbs
<1>2. CASE InMemoryGet
  <2>1. /\ call.op = "get" /\ Unchanged
        /\ \/ Here = Absent /\ call.ignore /\ Replies("none", Absent)
           \/ Here = Absent /\ ~call.ignore /\ Replies("NotFound", Absent)
           \/ Here # Absent /\ Replies("ok", Here)
    <3>1. call.op = "get" /\ Unchanged
      BY <1>2 DEF InMemoryGet, InMemory
    <3> QED
      BY <1>1, <1>2, <3>1, Zenon DEF InMemoryGet, Absence
  <2> QED
    BY <1>1, <2>1, GetRefines, SaysRefines
<1>3. CASE InMemoryPatch
  <2>1. call.op = "patch"
    BY <1>3 DEF InMemoryPatch, InMemory
  <2>2. CASE Here # Absent /\ Patchable(Here)
    <3>1. Put(Place(call), Mutated(Here)) /\ Replies("ok", objects'[Place(call)])
      BY <1>3, <2>2 DEF InMemoryPatch
    <3>2. Mutated(Here).mine = call.value /\ Mutated(Here).theirs = Here.theirs
      BY <2>2 DEF Mutated
    <3> QED
      BY <1>1, <2>1, <2>2, <3>1, <3>2, WriteRefines
  <2>3. CASE Here = Absent
    <3>1. /\ Unchanged
          /\ \/ call.ignore /\ Replies("error", Absent)
             \/ ~call.ignore /\ Replies("NotFound", Absent)
      BY <1>1, <1>3, <2>3, Zenon DEF InMemoryPatch
    <3> QED
      BY <1>1, <2>1, <2>3, <3>1, SaysRefines
  <2>4. CASE Here # Absent /\ ~Patchable(Here)
    <3>1. Unchanged /\ Replies("error", Absent)
      BY <1>3, <2>4 DEF InMemoryPatch
    <3> QED
      BY <1>1, <2>1, <3>1, SaysRefines
  <2> QED
    BY <2>2, <2>3, <2>4
<1>4. CASE InMemoryCreateOrUpdate
  <2>1. /\ call.op = "create_or_update"
        /\ Put(Place(call), Mutated(Here)) /\ Replies("ok", objects'[Place(call)])
    BY <1>4 DEF InMemoryCreateOrUpdate, InMemory
  <2>2. Mutated(Here).mine = call.value /\ Mutated(Here).theirs = IF Here = Absent THEN 0 ELSE Here.theirs
    BY DEF Mutated
  <2> QED
    BY <1>1, <2>1, <2>2, WriteRefines
<1>5. CASE InMemoryDelete
  <2>1. /\ call.op \in {"delete", "delete_by_name"}
        /\ Remove(Place(call)) /\ Replies("ok", Absent)
    BY <1>5 DEF InMemoryDelete, InMemory
  <2> QED
    BY <1>1, <2>1, RemoveRefines
<1>6. CASE InMemoryApply
  <2> DEFINE key == IF call.own # Unset THEN call.own ELSE Place(call)
  <2>1. call.op = "apply" /\ Put(key, Mutated(Absent)) /\ Replies("ok", Absent)
    BY <1>6 DEF InMemoryApply, InMemory
  <2>2. key \in Namespaces /\ key = Store!Address(call)
    BY <1>1, <2>1, CallFacts, Addresses
  <2> QED
    BY <1>1, <2>1, <2>2, ApplyRefines
<1>7. CASE InMemoryWait
  <2>1. /\ call.op \in {"rollout_status", "wait"} /\ Unchanged
        /\ \/ (Here # Absent \/ call.ignore) /\ Replies("ok", Absent)
           \/ Here = Absent /\ ~call.ignore /\ Replies("NotFound", Absent)
    <3>1. call.op \in {"rollout_status", "wait"} /\ Unchanged
      BY <1>7 DEF InMemoryWait, InMemory
    <3> QED
      BY <1>1, <1>7, <3>1, Zenon DEF InMemoryWait
  <2> QED
    BY <1>1, <2>1, SaysRefines
<1> QED
  BY <1>2, <1>3, <1>4, <1>5, <1>6, <1>7 DEF ServeInMemory

\* Every call, served by the cluster or by the double, keeps the contract of the
\* interface K8s (k8s.go): it takes effect at once and at most once, CreateOrUpdate
\* loses nothing that others have written, "not found" is only said of what is missing.
THEOREM CallsImplementStore == Spec => ImplementsStore
<1>1. Init => Store!Init
  BY InitRefines
<1>2. IInv /\ NoneInv /\ [Next]_vars => [Store!Next]_Store!vars
  <2> SUFFICES ASSUME IInv, NoneInv, [Next]_vars PROVE [Store!Next]_Store!vars
    OBVIOUS
  <2>1. CASE \E c \in Calls : Begin(c)
    BY <2>1, BeginRefines
  <2>2. CASE Serve \/ ServeInMemory
    BY <2>2, ServeRefines, ServeInMemoryRefines
  <2>3. CASE Proceed
    BY <2>3, ProceedRefines
  <2>4. CASE Others
    BY <2>4, OthersRefines
  <2>5. CASE Tick \/ Expire \/ UNCHANGED vars
    BY <2>5, IdleRefines
  <2> QED
    BY <2>1, <2>2, <2>3, <2>4, <2>5 DEF Next
<1>3. Spec => []IInv
  BY CallsInvariant
<1> QED
  BY <1>1, <1>2, <1>3, NoneFacts, PTL DEF Spec, ImplementsStore, Store!Spec

-----------------------------------------------------------------------------
(* Scripts that watch *)

\* A script with a loop makes its calls like one without: what is proved of the calls
\* holds in it.
THEOREM ScriptMakesCalls == ScriptSpec => Spec
<1>1. ScriptInit => Init
  BY DEF ScriptInit
<1>2. [ScriptNext]_allVars => [Next]_vars
  <2> SUFFICES ASSUME [ScriptNext]_allVars PROVE [Next]_vars
    OBVIOUS
  <2>1. CASE \E c \in Calls : CallStep(Free(c) /\ Begin(c))
    BY <2>1 DEF CallStep, Next
  <2>2. CASE \/ CallStep(Serve) \/ CallStep(ServeInMemory) \/ CallStep(Proceed)
             \/ CallStep(Tick) \/ CallStep(Others) \/ CallStep(Expire)
    BY <2>2, Zenon DEF CallStep, Next
  <2>3. CASE UNCHANGED vars
    BY <2>3
  <2> QED
    BY <2>1, <2>2, <2>3, Zenon DEF ScriptNext, WatchStep, allVars
<1> QED
  BY <1>1, <1>2, PTL DEF ScriptSpec, Spec

\* The limit on waiting, in a script that watches.
THEOREM ScriptInTime == ScriptSpec => []InTime
  BY ScriptMakesCalls, WaitsInTime, PTL

\* The contract of the interface K8s, in a script that watches.
THEOREM ScriptImplementsStore == ScriptSpec => ImplementsStore
  BY ScriptMakesCalls, CallsImplementStore, PTL

-----------------------------------------------------------------------------

\* How many objects have left the goroutine.
Passed == Len(got) + Len(next)

\* The double has nil in place of an object.
NilHeld == /\ kubectl = "memory" /\ got = <<>> /\ next = <<>> /\ obj = 0

\* The objects lie one after the other in got, next, obj and pipe.
InOrder ==
    /\ got \in Seq(Nat) /\ pipe \in Seq(Nat) /\ printed \in Nat /\ obj \in Nat
    /\ \A i \in 1..Len(got) : got[i] = i
    /\ \/ next = <<>> \/ next = <<Len(got) + 1>>
       \/ next = <<0>> /\ watcher = "ended"
    /\ watcher \in {"start", "decode"} => /\ \A i \in 1..Len(pipe) : pipe[i] = Passed + i
                                         /\ printed = Passed + Len(pipe)
    /\ watcher = "write" => NilHeld \/ /\ obj = Passed + 1
                                       /\ \A i \in 1..Len(pipe) : pipe[i] = obj + i
                                       /\ printed = obj + Len(pipe)
    /\ watcher \in {"start", "decode", "write", "wait", "failed", "ended"}

\* A loop begins with kubectl that is to be started, or with the double's one object.
LEMMA BeginFacts ==
    ASSUME NEW there \in BOOLEAN, NEW ignore \in BOOLEAN, W!Begin(backend, there, ignore)
    PROVE  /\ pipe = <<>> /\ next = <<>> /\ got = <<>> /\ obj \in {0, 1} /\ printed = obj
           /\ cancel = FALSE /\ loop = "next"
           /\ \/ kubectl = "exited" /\ watcher = "start" /\ obj = 0
              \/ kubectl = "memory" /\ watcher \in {"write", "failed"}
<1>1. CASE backend = "memory"
  <2>1. watcher \in {"write", "failed"} /\ kubectl = "memory"
    BY <1>1 DEF W!Begin
  <2>2. obj \in {0, 1}
    BY <1>1 DEF W!Begin
  <2> QED
    BY <2>1, <2>2 DEF W!Begin
<1>2. CASE backend # "memory"
  <2>1. watcher = "start" /\ kubectl = "exited"
    BY <1>2 DEF W!Begin
  <2>2. obj = 0
    BY <1>2 DEF W!Begin
  <2> QED
    BY <2>1, <2>2 DEF W!Begin
<1> QED
  BY <1>1, <1>2

LEMMA InOrderInit == ScriptInit => InOrder
<1> SUFFICES ASSUME ScriptInit PROVE InOrder
  OBVIOUS
<1>1. CASE W!Idle
  BY <1>1 DEF W!Idle, InOrder, Passed
<1>2. ASSUME NEW ignore \in BOOLEAN, W!Begin(backend, objects[Watched] # Absent, ignore)
      PROVE  InOrder
  <2>1. /\ next = <<>> /\ got = <<>> /\ pipe = <<>> /\ printed = obj /\ obj \in {0, 1}
        /\ \/ watcher = "start" /\ obj = 0
           \/ watcher = "write" /\ kubectl = "memory"
           \/ watcher = "failed"
    BY <1>2, BeginFacts
  <2> QED
    BY <2>1 DEF InOrder, Passed, NilHeld
<1> QED
  BY <1>1, <1>2 DEF ScriptInit

\* One step of the watch keeps the order.
LEMMA InOrderStep ==
    InOrder /\ (Prints \/ W!Exits \/ Start \/ W!StartFails \/ W!Decode \/ W!DecodeFails
                \/ W!Waited \/ W!Write \/ W!Cancelled \/ W!Receive \/ W!NextPanics
                \/ W!Again \/ W!Leave) => InOrder'
<1> SUFFICES ASSUME InOrder,
                    \/ Prints \/ W!Exits \/ Start \/ W!StartFails \/ W!Decode \/ W!DecodeFails
                    \/ W!Waited \/ W!Write \/ W!Cancelled \/ W!Receive \/ W!NextPanics
                    \/ W!Again \/ W!Leave
             PROVE  InOrder'
  OBVIOUS
<1>0. /\ got \in Seq(Nat) /\ pipe \in Seq(Nat) /\ printed \in Nat /\ obj \in Nat
      /\ Len(got) \in Nat /\ Len(pipe) \in Nat
      /\ \/ next = <<>> /\ Len(next) = 0
         \/ next = <<Len(got) + 1>> /\ Len(next) = 1 /\ Head(next) = Len(got) + 1
         \/ next = <<0>> /\ Len(next) = 1 /\ Head(next) = 0 /\ watcher = "ended"
  BY DEF InOrder
<1>1. CASE Prints
  <2>1. /\ watcher \notin {"failed", "ended"} /\ kubectl = "running" /\ printed' = printed + 1
        /\ pipe' = Append(pipe, printed + 1)
        /\ watcher' = watcher /\ obj' = obj /\ next' = next /\ got' = got
    BY <1>1 DEF Prints, W!Prints, InOrder
  <2>2. /\ pipe' \in Seq(Nat) /\ Len(pipe') = Len(pipe) + 1
        /\ \A i \in 1..Len(pipe) : pipe'[i] = pipe[i]
        /\ pipe'[Len(pipe) + 1] = printed + 1
    BY <1>0, <2>1
  <2>3. /\ got' \in Seq(Nat) /\ printed' \in Nat /\ obj' \in Nat /\ Passed' = Passed /\ Passed \in Nat
        /\ \A i \in 1..Len(got') : got'[i] = i
        /\ next' = <<>> \/ next' = <<Len(got') + 1>>
        /\ watcher' \in {"start", "decode", "write", "wait", "failed", "ended"}
    BY <1>0, <2>1 DEF InOrder, Passed
  <2>4. CASE watcher \in {"start", "decode"}
    <3>1. printed = Passed + Len(pipe) /\ \A i \in 1..Len(pipe) : pipe[i] = Passed + i
      BY <2>4 DEF InOrder
    <3>2. ASSUME NEW i \in 1..Len(pipe') PROVE pipe'[i] = Passed' + i
      <4>1. CASE i = Len(pipe) + 1
        BY <1>0, <2>1, <2>2, <2>3, <3>1, <4>1
      <4>2. CASE i # Len(pipe) + 1
        <5>1. i \in 1..Len(pipe)
          BY <1>0, <2>2, <4>2
        <5>2. pipe'[i] = pipe[i] /\ pipe[i] = Passed + i
          BY <2>2, <3>1, <5>1
        <5> QED
          BY <2>1, <2>3, <5>2
      <4> QED
        BY <4>1, <4>2
    <3>3. printed' = Passed' + Len(pipe')
      BY <1>0, <2>1, <2>2, <2>3, <3>1
    <3> QED
      BY <2>1, <2>2, <2>3, <2>4, <3>2, <3>3 DEF InOrder
  <2>5. CASE watcher = "write"
    <3>1. /\ obj = Passed + 1 /\ printed = obj + Len(pipe)
          /\ \A i \in 1..Len(pipe) : pipe[i] = obj + i
      BY <2>1, <2>5 DEF InOrder, NilHeld
    <3>2. ASSUME NEW i \in 1..Len(pipe') PROVE pipe'[i] = obj' + i
      <4>1. CASE i = Len(pipe) + 1
        BY <1>0, <2>1, <2>2, <2>3, <3>1, <4>1
      <4>2. CASE i # Len(pipe) + 1
        <5>1. i \in 1..Len(pipe)
          BY <1>0, <2>2, <4>2
        <5>2. pipe'[i] = pipe[i] /\ pipe[i] = obj + i
          BY <2>2, <3>1, <5>1
        <5> QED
          BY <2>1, <2>3, <5>2
      <4> QED
        BY <4>1, <4>2
    <3>3. printed' = obj' + Len(pipe')
      BY <1>0, <2>1, <2>2, <3>1
    <3> QED
      BY <2>1, <2>2, <2>3, <2>5, <3>1, <3>2, <3>3 DEF InOrder
  <2>6. CASE watcher = "wait"
    BY <2>1, <2>2, <2>3, <2>6 DEF InOrder
  <2> QED
    BY <2>1, <2>4, <2>5, <2>6 DEF InOrder
<1>2. CASE W!Decode
  <2>1. /\ watcher = "decode" /\ pipe # <<>> /\ obj' = Head(pipe) /\ pipe' = Tail(pipe)
        /\ watcher' = "write" /\ printed' = printed /\ next' = next /\ got' = got
    BY <1>2 DEF W!Decode
  <2>2. /\ obj' = pipe[1] /\ pipe' \in Seq(Nat) /\ Len(pipe') = Len(pipe) - 1 /\ Len(pipe) > 0
        /\ \A i \in 1..Len(pipe') : pipe'[i] = pipe[i + 1]
    BY <1>0, <2>1
  <2>3. Passed' = Passed /\ Passed \in Nat
    BY <1>0, <2>1 DEF Passed
  <2>4. printed = Passed + Len(pipe) /\ \A i \in 1..Len(pipe) : pipe[i] = Passed + i
    BY <2>1 DEF InOrder
  <2>5. obj' = Passed + 1 /\ obj' \in Nat /\ printed = obj' + Len(pipe')
    BY <1>0, <2>2, <2>3, <2>4
  <2>6. ASSUME NEW i \in 1..Len(pipe') PROVE pipe'[i] = obj' + i
    <3>1. i + 1 \in 1..Len(pipe)
      BY <1>0, <2>2
    <3>2. pipe'[i] = Passed + (i + 1)
      BY <2>2, <2>4, <3>1
    <3> QED
      BY <2>3, <2>5, <3>2
  <2>7. next' = <<>> \/ next' = <<Len(got') + 1>>
    BY <1>0, <2>1
  <2>8. got' \in Seq(Nat) /\ printed' \in Nat /\ \A i \in 1..Len(got') : got'[i] = i
    BY <1>0, <2>1 DEF InOrder
  <2> QED
    BY <2>1, <2>2, <2>3, <2>5, <2>6, <2>7, <2>8 DEF InOrder
<1>3. CASE W!Write
  <2>1. /\ watcher = "write" /\ next = <<>> /\ next' = <<obj>> /\ watcher' \in {"decode", "ended"}
        /\ printed' = printed /\ pipe' = pipe /\ obj' = obj /\ got' = got
        /\ kubectl = "memory" => watcher' = "ended"
    BY <1>3 DEF W!Write
  <2>2. CASE NilHeld
    BY <1>0, <2>1, <2>2 DEF InOrder, NilHeld
  <2>3. CASE ~NilHeld
    <3>1. Len(next') = 1 /\ Len(next) = 0 /\ obj = Len(got) + 1
      BY <1>0, <2>1, <2>3 DEF InOrder, Passed
    <3> QED
      BY <1>0, <2>1, <2>3, <3>1 DEF InOrder, Passed
  <2> QED
    BY <2>2, <2>3
<1>4. CASE W!Receive
  <2>1. /\ next # <<>> /\ Head(next) # 0 /\ got' = Append(got, Head(next)) /\ next' = <<>>
        /\ printed' = printed /\ pipe' = pipe /\ obj' = obj /\ watcher' = watcher
    BY <1>4 DEF W!Receive
  <2>2. Head(next) = Len(got) + 1 /\ Len(next) = 1 /\ Len(next') = 0
    BY <1>0, <2>1
  <2>3. /\ got' \in Seq(Nat) /\ Len(got') = Len(got) + 1
        /\ \A i \in 1..Len(got) : got'[i] = got[i]
        /\ got'[Len(got) + 1] = Len(got) + 1
    BY <1>0, <2>1, <2>2
  <2>4. ~NilHeld
    BY <2>1 DEF NilHeld
  <2> QED
    BY <1>0, <2>1, <2>2, <2>3, <2>4 DEF InOrder, Passed
<1>5. CASE W!Exits \/ W!Cancelled \/ W!Again \/ W!Leave \/ W!StartFails \/ W!Waited
  <2>1. /\ printed' = printed /\ pipe' = pipe /\ obj' = obj /\ next' = next /\ got' = got
        /\ kubectl = "memory" => kubectl' = "memory"
        /\ \/ watcher' = watcher
           \/ watcher' = "ended"
           \/ watcher \in {"start", "wait"} /\ watcher' = "failed"
    BY <1>5 DEF W!Exits, W!Cancelled, W!Again, W!Leave, W!StartFails, W!Waited
  <2>2. NilHeld /\ watcher' = watcher => NilHeld'
    BY <2>1 DEF NilHeld
  <2> QED
    BY <2>1, <2>2 DEF InOrder, Passed
<1>6. CASE Start
  <2>1. /\ printed' = printed /\ pipe' = pipe /\ obj' = obj /\ next' = next /\ got' = got
        /\ watcher = "start" /\ watcher' = "decode"
    BY <1>6 DEF Start, W!Start
  <2> QED
    BY <2>1 DEF InOrder, Passed
<1>7. CASE W!DecodeFails
  <2>1. /\ printed' = printed /\ pipe' = Tail(pipe) /\ obj' = obj /\ next' = next /\ got' = got
        /\ watcher = "decode" /\ watcher' = "wait" /\ pipe # <<>>
    BY <1>7 DEF W!DecodeFails
  <2>2. pipe' \in Seq(Nat)
    BY <1>0, <2>1
  <2> QED
    BY <2>1, <2>2 DEF InOrder
<1>8. CASE W!NextPanics
  <2>1. /\ printed' = printed /\ pipe' = pipe /\ obj' = obj /\ next = <<0>> /\ next' = <<>>
        /\ got' = got /\ watcher' = watcher
    BY <1>8 DEF W!NextPanics
  <2>2. watcher = "ended"
    BY <1>0, <2>1
  <2> QED
    BY <2>1, <2>2 DEF InOrder
<1> QED
  BY <1>1, <1>2, <1>3, <1>4, <1>5, <1>6, <1>7, <1>8

\* The loop sees what kubectl has printed, in that order and without gaps (Watch and
\* Iterate), whatever calls its body makes.
THEOREM WatchLosesNothing == ScriptSpec => []NothingLost
<1>1. ScriptInit => InOrder
  BY InOrderInit
<1>2. InOrder /\ [ScriptNext]_allVars => InOrder'
  <2> SUFFICES ASSUME InOrder, [ScriptNext]_allVars PROVE InOrder'
    OBVIOUS
  <2>1. CASE UNCHANGED watchVars
    BY <2>1 DEF watchVars, InOrder, Passed, NilHeld
  <2>2. CASE \/ Prints \/ W!Exits \/ Start \/ W!StartFails \/ W!Decode \/ W!DecodeFails
             \/ W!Waited \/ W!Write \/ W!Cancelled \/ W!Receive \/ W!NextPanics
             \/ W!Again \/ W!Leave
    BY <2>2, InOrderStep
  <2> QED
    BY <2>1, <2>2, Zenon DEF ScriptNext, CallStep, WatchStep, InLoop, allVars
<1>3. InOrder => NothingLost
  <2> SUFFICES ASSUME InOrder PROVE got = [n \in 1..Len(got) |-> n]
    BY DEF NothingLost
  <2> QED
    BY DEF InOrder
<1> QED
  BY <1>1, <1>2, <1>3, PTL DEF ScriptSpec

-----------------------------------------------------------------------------
(* Type correctness *)

\* The goroutine hands over what it has decoded; kubectl prints what has happened.
WatchTypes ==
    /\ W!TypeOK
    /\ watcher = "start" => printed = 0 /\ kubectl = "exited"
    /\ events \in Nat
    /\ kubectl # "memory" => printed <= events

LEMMA WatchTypesInit == ScriptInit => WatchTypes
<1> SUFFICES ASSUME ScriptInit PROVE WatchTypes
  OBVIOUS
<1>0. /\ <<>> \in Seq(W!Objects) /\ <<>> \in Seq(0..MaxEvents) /\ Len(<<>>) = 0
      /\ 1 \in W!Objects /\ {0, 1} \subseteq 0..MaxEvents
  BY WatchedAssumption DEF W!Objects
<1>1. events \in Nat
  BY DEF ScriptInit
<1>2. /\ pipe = <<>> /\ next = <<>> /\ got = <<>> /\ obj \in {0, 1} /\ printed = obj
      /\ cancel = FALSE
      /\ \/ kubectl = "exited" /\ watcher = "ended" /\ loop = "left" /\ obj = 0
         \/ kubectl = "exited" /\ watcher = "start" /\ loop = "next" /\ obj = 0
         \/ kubectl = "memory" /\ watcher \in {"write", "failed"} /\ loop = "next"
  <2>1. CASE W!Idle
    BY <2>1 DEF W!Idle
  <2>2. CASE \E ignore \in BOOLEAN : W!Begin(backend, objects[Watched] # Absent, ignore)
    BY <2>2, BeginFacts
  <2> QED
    BY <2>1, <2>2 DEF ScriptInit
<1>3. pipe \in Seq(W!Objects) /\ got \in Seq(W!Objects) /\ next \in Seq(0..MaxEvents)
  BY <1>0, <1>2, Zenon
<1>4. Len(next) <= 1
  BY <1>0, <1>2
<1>5. /\ printed \in 0..MaxEvents /\ obj \in 0..MaxEvents
      /\ kubectl # "memory" => printed <= events
  BY <1>0, <1>1, <1>2
<1>6. /\ kubectl \in {"running", "exited", "memory"} /\ cancel \in BOOLEAN
      /\ watcher \in {"start", "decode", "write", "wait", "failed", "ended"}
      /\ loop \in {"next", "body", "left", "panicked"}
      /\ kubectl # "memory" => ((cancel \/ watcher = "ended") <=> loop = "left")
      /\ watcher = "start" => printed = 0 /\ kubectl = "exited"
  BY <1>2
<1> QED
  BY <1>1, <1>3, <1>4, <1>5, <1>6, Zenon DEF WatchTypes, W!TypeOK

LEMMA WatchTypesStep == WatchTypes /\ [ScriptNext]_allVars => WatchTypes'
<1> SUFFICES ASSUME WatchTypes, [ScriptNext]_allVars PROVE WatchTypes'
  OBVIOUS
<1> USE WatchedAssumption DEF W!Objects
<1>1. ASSUME UNCHANGED watchVars,
             \/ events' \in {events, events + 1}
             \/ watcher = "start" /\ events' \in {0, 1}
      PROVE  WatchTypes'
  <2>1. /\ kubectl' = kubectl /\ printed' = printed /\ pipe' = pipe /\ watcher' = watcher
        /\ obj' = obj /\ next' = next /\ cancel' = cancel /\ loop' = loop /\ got' = got
    BY <1>1 DEF watchVars
  <2> QED
    BY <1>1, <2>1 DEF WatchTypes, W!TypeOK
<1>2. CASE \/ \E c \in Calls : CallStep(Free(c) /\ Begin(c))
           \/ CallStep(Serve) \/ CallStep(ServeInMemory) \/ CallStep(Proceed)
           \/ CallStep(Tick) \/ CallStep(Others) \/ CallStep(Expire)
  <2>1. UNCHANGED watchVars /\ Happens
    BY <1>2, Zenon DEF CallStep
  <2>2. \/ events' \in {events, events + 1}
        \/ watcher = "start" /\ events' \in {0, 1}
    BY <2>1 DEF Happens
  <2> QED
    BY <1>1, <2>1, <2>2
<1>3. CASE WatchStep(Prints)
  BY <1>3 DEF WatchStep, Prints, W!Prints, WatchTypes, W!TypeOK
<1>4. CASE WatchStep(W!Exits)
  BY <1>4 DEF WatchStep, W!Exits, WatchTypes, W!TypeOK
<1>5. CASE WatchStep(W!Decode)
  BY <1>5 DEF WatchStep, W!Decode, WatchTypes, W!TypeOK
<1>6. CASE WatchStep(W!Write)
  BY <1>6 DEF WatchStep, W!Write, WatchTypes, W!TypeOK
<1>7. CASE WatchStep(W!Cancelled)
  BY <1>7 DEF WatchStep, W!Cancelled, WatchTypes, W!TypeOK
<1>8. CASE WatchStep(InLoop(W!Receive))
  <2>1. Head(next) \in W!Objects
    BY <1>8 DEF WatchStep, InLoop, W!Receive, WatchTypes, W!TypeOK
  <2> QED
    BY <1>8, <2>1 DEF WatchStep, InLoop, W!Receive, WatchTypes, W!TypeOK
<1>9. CASE WatchStep(InLoop(W!Again))
  BY <1>9 DEF WatchStep, InLoop, W!Again, WatchTypes, W!TypeOK
<1>10. CASE WatchStep(InLoop(W!Leave))
  BY <1>10 DEF WatchStep, InLoop, W!Leave, WatchTypes, W!TypeOK
<1>11. CASE UNCHANGED allVars
  BY <1>1, <1>11 DEF allVars
<1>12. CASE WatchStep(Start)
  BY <1>12 DEF WatchStep, Start, W!Start, WatchTypes, W!TypeOK
<1>13. CASE WatchStep(W!StartFails)
  BY <1>13 DEF WatchStep, W!StartFails, WatchTypes, W!TypeOK
<1>14. CASE WatchStep(W!DecodeFails)
  BY <1>14 DEF WatchStep, W!DecodeFails, WatchTypes, W!TypeOK
<1>15. CASE WatchStep(W!Waited)
  BY <1>15 DEF WatchStep, W!Waited, WatchTypes, W!TypeOK
<1>16. CASE WatchStep(InLoop(W!NextPanics))
  BY <1>16 DEF WatchStep, InLoop, W!NextPanics, WatchTypes, W!TypeOK
<1> QED
  BY <1>12, <1>13, <1>14, <1>15, <1>16, <1>1, <1>2, <1>3, <1>4, <1>5, <1>6, <1>7, <1>8, <1>9, <1>10, <1>11 DEF ScriptNext

\* Every state of a script is of the declared type: no channel holds more than it has room
\* for, the goroutine only ends without an error if the loop was left, and kubectl prints
\* no more than has happened.
THEOREM ScriptTypeCorrect == ScriptSpec => []ScriptTypeOK
<1>1. WatchTypes /\ TypeOK => ScriptTypeOK
  BY DEF WatchTypes, ScriptTypeOK
<1> QED
  BY <1>1, WatchTypesInit, WatchTypesStep, ScriptMakesCalls, CallsTypeCorrect, PTL DEF ScriptSpec
=============================================================================
