------------------------- MODULE KdoControllerProofs -------------------------
(***************************************************************************)
(* Proofs about KdoController, for every set of specifications and every   *)
(* bound: the inductive invariant behind NoOrphans and NoLostWork; the     *)
(* status writes, which belong to the phase the resource is in; and that   *)
(* the controller implements the life cycle KdoChartLifecycle.             *)
(***************************************************************************)
EXTENDS KdoController, TLAPS

-----------------------------------------------------------------------------
(* The inductive invariant *)

\* A live version under the controller's finalizer.
LiveMine(v) == v.phase = "live" /\ Mine \in v.fin

\* What a chain of dropped events allows: the resource went away, did not
\* change, or stayed live with its specification and gained the finalizer.
Quiet(a, b) == \/ b.phase = "absent"
               \/ b = a
               \/ a.phase = "live" /\ LiveMine(b) /\ b.spec = a.spec

NoPass(i, j) == \A k \in i..(j - 1) : ~Passes(log[k], log[k + 1])

\* The versions between the cache and the API server.
LogSettled == \A i \in seen..rv : /\ log[i].phase = "absent" => log[i].fin = {}
                                  /\ log[i].phase = "deleting" => log[i].fin # {}
LogNoRevival == \A i \in seen..(rv - 1) :
                    log[i].phase = "deleting" => log[i + 1].phase # "live"
LogLivePrefix == \A i, j \in seen..rv :
                    i <= j /\ LiveMine(log[j]) => log[i].phase = "live"
LogQuiet == \A i, j \in seen..rv : i <= j /\ NoPass(i, j) => Quiet(log[i], log[j])

LogInv == LogSettled /\ LogNoRevival /\ LogLivePrefix /\ LogQuiet

\* A live version the informer may still show is under a finalizer that is there.
SeenGuarded == \A i \in seen..rv : LiveMine(log[i]) => Guarded

\* The worker's copy against the resource.
ApplyPCs == {"initStatus", "apply", "applied", "applyFailed"}

CopyInv ==
    /\ copy.rv <= rv
    /\ pc = "addFinalizer" => copy.rv <= seen
    /\ pc \in LivePCs /\ copy.rv = rv => res.phase = "live" /\ res.spec = copy.spec
    /\ pc \in DeletePCs /\ copy.rv = rv => res.phase = "deleting" /\ res.fin = {Mine}

WorkerInv ==
    /\ ~up => pc = "idle"
    /\ pc \in ApplyPCs => Guarded
    /\ pc \in DeletePCs => \A i \in seen..rv : ~LiveMine(log[i])
    /\ pc \in {"deleted", "removeFinalizer"} => deployed = Nothing
    /\ pc = "applied" => deployed = copy.spec

\* A worker that applies without being queued again applies what is asked for.
Fresh == pc \in ApplyPCs /\ ~queued /\ NoPassAhead
            => LiveMine(res) /\ res.spec = copy.spec

IInv == /\ TypeOK
        /\ LogInv
        /\ SeenGuarded
        /\ CopyInv
        /\ WorkerInv
        /\ NoOrphans
        /\ Fresh
        /\ NoLostWork

-----------------------------------------------------------------------------
(* Writing and trimming the log *)

\* Committing a version keeps the log well formed and leaves its past alone.
LEMMA CommitFacts ==
    ASSUME TypeOK, NEW v \in Version, Commit(v), seen' = seen
    PROVE  /\ rv' \in Nat
           /\ rv' = rv \/ rv' = rv + 1
           /\ seen' \in 0..rv'
           /\ log' \in [seen'..rv' -> Version]
           /\ res' = v
           /\ \A i \in seen..rv : log'[i] = log[i]
           /\ rv' = rv => v = res /\ log' = log
  BY DEF TypeOK, Commit, res

\* A version that may follow the newest one.
Legal(v) ==
    /\ v.phase = "absent" => v.fin = {}
    /\ v.phase = "deleting" => v.fin # {}
    /\ res.phase = "deleting" => v.phase # "live"
    /\ LiveMine(v) => LiveMine(res) \/ (seen = rv /\ res.phase = "live")

\* Committing a legal version preserves the invariant of the log.
LEMMA LogCommit ==
    ASSUME TypeOK, LogInv, NEW v \in Version, Legal(v), Commit(v), seen' = seen
    PROVE  LogInv'
<1>1. CASE rv' = rv
  <2>1. log' = log
    BY <1>1, CommitFacts
  <2> QED
    BY <1>1, <2>1 DEF LogInv, LogSettled, LogNoRevival, LogLivePrefix, LogQuiet, NoPass
<1>2. CASE rv' = rv + 1
  <2>1. /\ rv \in Nat /\ seen \in 0..rv
        /\ log'[rv + 1] = v
        /\ \A i \in seen..rv : log'[i] = log[i]
        /\ \A i \in seen..rv' : i \in seen..rv \/ i = rv + 1
    BY <1>2, CommitFacts DEF TypeOK, res
  <2>2. LogSettled'
    BY <1>2, <2>1 DEF LogInv, LogSettled, Legal
  <2>3. LogNoRevival'
    BY <1>2, <2>1 DEF LogInv, LogNoRevival, Legal, res
  <2>4. LogLivePrefix'
    <3> SUFFICES ASSUME NEW i \in seen..(rv + 1), NEW j \in seen..(rv + 1),
                        i <= j, LiveMine(log'[j])
                 PROVE  log'[i].phase = "live"
      BY <1>2 DEF LogLivePrefix, LiveMine
    <3>1. CASE j <= rv
      BY <2>1, <3>1 DEF LogInv, LogLivePrefix
    <3>2. CASE j = rv + 1
      <4>1. CASE i = rv + 1
        BY <2>1, <4>1, <3>2 DEF LiveMine
      <4>2. CASE i <= rv /\ LiveMine(res)
        BY <2>1, <4>2 DEF LogInv, LogLivePrefix, res
      <4>3. CASE i <= rv /\ seen = rv /\ res.phase = "live"
        BY <2>1, <4>3 DEF res
      <4> QED
        BY <2>1, <3>2, <4>1, <4>2, <4>3 DEF Legal
    <3> QED
      BY <2>1, <3>1, <3>2
  <2>5. LogQuiet'
    <3> SUFFICES ASSUME NEW i \in seen..(rv + 1), NEW j \in seen..(rv + 1), i <= j,
                        \A k \in i..(j - 1) : ~Passes(log'[k], log'[k + 1])
                 PROVE  Quiet(log'[i], log'[j])
      BY <1>2 DEF LogQuiet, NoPass, Quiet, LiveMine, Passes, Update
    <3>1. CASE j <= rv
      <4>1. NoPass(i, j)
        BY <2>1, <3>1 DEF NoPass
      <4> QED
        BY <2>1, <3>1, <4>1 DEF LogInv, LogQuiet
    <3>2. CASE j = rv + 1 /\ i = rv + 1
      BY <3>2 DEF Quiet
    <3>3. CASE j = rv + 1 /\ i <= rv
      <4>1. NoPass(i, rv)
        BY <2>1, <3>3 DEF NoPass
      <4>2. Quiet(log[i], log[rv])
        BY <2>1, <3>3, <4>1 DEF LogInv, LogQuiet
      <4>3. ~Passes(log[rv], v)
        BY <2>1, <3>3
      <4>4. log[i].phase \in Phases /\ log[rv].phase \in Phases /\ v.phase \in Phases
        BY <2>1, <3>3 DEF TypeOK, Version
      <4>5. log'[i] = log[i] /\ log'[j] = v
        BY <2>1, <3>3
      <4> QED
        BY <4>2, <4>3, <4>4, <4>5 DEF Quiet, Passes, Update, LiveMine, Legal, Phases, res
    <3> QED
      BY <2>1, <3>1, <3>2, <3>3
  <2> QED
    BY <2>2, <2>3, <2>4, <2>5 DEF LogInv
<1> QED
  BY <1>1, <1>2, CommitFacts

\* The informer forgets the versions it has passed.
Trim(n) == /\ seen' = n
           /\ rv' = rv
           /\ log' = [i \in n..rv |-> log[i]]

\* Trimming preserves the invariant of the log and the newest version.
LEMMA LogTrim ==
    ASSUME TypeOK, LogInv, NEW n \in seen..rv, Trim(n)
    PROVE  /\ LogInv'
           /\ seen' \in 0..rv'
           /\ log' \in [seen'..rv' -> Version]
           /\ res' = res
           /\ \A i \in n..rv : log'[i] = log[i]
<1>1. /\ rv \in Nat /\ seen \in 0..rv /\ n \in Nat
      /\ seen' \in 0..rv'
      /\ log' \in [seen'..rv' -> Version]
      /\ res' = res
      /\ \A i \in n..rv : i \in seen..rv /\ log'[i] = log[i]
  BY DEF TypeOK, Trim, res
<1>2. LogSettled'
  BY <1>1 DEF LogInv, LogSettled, Trim
<1>3. LogNoRevival'
  BY <1>1 DEF LogInv, LogNoRevival, Trim
<1>4. LogLivePrefix'
  BY <1>1 DEF LogInv, LogLivePrefix, Trim
<1>5. LogQuiet'
  <2>0. seen' = n /\ rv' = rv
    BY DEF Trim
  <2> SUFFICES ASSUME NEW i \in n..rv, NEW j \in n..rv, i <= j,
                      \A k \in i..(j - 1) : ~Passes(log'[k], log'[k + 1])
               PROVE  Quiet(log'[i], log'[j])
    BY <2>0 DEF LogQuiet, NoPass, Quiet, LiveMine, Passes, Update
  <2>1. NoPass(i, j)
    BY <1>1 DEF NoPass
  <2> QED
    BY <1>1, <2>1 DEF LogInv, LogQuiet
<1> QED
  BY <1>1, <1>2, <1>3, <1>4, <1>5 DEF LogInv

-----------------------------------------------------------------------------
(* Writes that keep the controller's finalizer *)

\* Every write but AddFinalizer and RemoveFinalizer is of this kind.
Tame(v) ==
    /\ v \in Version
    /\ v.phase = "absent" => v.fin = {}
    /\ v.phase = "deleting" => v.fin # {}
    /\ res.phase = "deleting" => v.phase # "live"
    /\ res.phase = "absent" => Mine \notin v.fin
    /\ Mine \in v.fin <=> Mine \in res.fin
    /\ LiveMine(v) => LiveMine(res)

\* A tame write preserves what the invariant says of the log and the finalizer,
\* and if the filter drops it there is no more work to do than before.
LEMMA TameWrite ==
    ASSUME IInv, NEW v, Tame(v), Commit(v), seen' = seen, deployed' = deployed
    PROVE  /\ LogInv'
           /\ SeenGuarded'
           /\ Guarded' <=> Guarded
           /\ NoOrphans'
           /\ pc \in DeletePCs => (\A i \in seen..rv : ~LiveMine(log[i]))'
           /\ NoPassAhead' => NoPassAhead
           /\ NoPassAhead' /\ Converged => Converged'
           /\ NoPassAhead' /\ LiveMine(res) => LiveMine(res') /\ res'.spec = res.spec
<1>1. /\ rv \in Nat /\ seen \in 0..rv /\ res \in Version /\ v \in Version
      /\ LogSettled /\ LogLivePrefix
  BY DEF IInv, TypeOK, LogInv, Tame, res
<1>2. Legal(v)
  BY DEF Tame, Legal
<1>3. LogInv'
  BY <1>2, LogCommit DEF IInv, Tame
<1>4. /\ rv' \in Nat
      /\ rv' = rv \/ rv' = rv + 1
      /\ log' \in [seen..rv' -> Version]
      /\ res' = v
      /\ \A i \in seen..rv : log'[i] = log[i]
      /\ rv' = rv => v = res /\ log' = log
  BY CommitFacts DEF IInv, Tame
<1>5. Guarded' <=> Guarded
  <2>1. res.phase = "absent" => res.fin = {}
    BY <1>1 DEF LogSettled, res
  <2>2. Mine \in v.fin => v.phase # "absent"
    BY DEF Tame
  <2>3. Guarded <=> Mine \in res.fin
    BY <2>1 DEF Guarded
  <2>4. Guarded' <=> Mine \in v.fin
    BY <1>4, <2>2 DEF Guarded
  <2> QED
    BY <2>3, <2>4 DEF Tame
<1>6. NoOrphans'
  BY <1>5 DEF NoOrphans, IInv
<1>7. \A i \in seen..rv' : LiveMine(log'[i]) => \E j \in seen..rv : LiveMine(log[j])
  <2> SUFFICES ASSUME NEW i \in seen..rv', LiveMine(log'[i])
               PROVE  \E j \in seen..rv : LiveMine(log[j])
    OBVIOUS
  <2>1. CASE i \in seen..rv
    BY <1>4, <2>1
  <2>2. CASE i = rv + 1 /\ rv' = rv + 1
    BY <1>1, <1>4, <2>2 DEF Tame, res
  <2> QED
    BY <1>1, <1>4, <2>1, <2>2
<1>8. SeenGuarded'
  BY <1>5, <1>7 DEF SeenGuarded, IInv, LiveMine
<1>9. pc \in DeletePCs => (\A i \in seen..rv : ~LiveMine(log[i]))'
  BY <1>7 DEF IInv, WorkerInv, LiveMine
<1>10. NoPassAhead' => NoPassAhead /\ (rv' = rv \/ ~Passes(res, v))
  <2> SUFFICES ASSUME \A i \in seen..(rv' - 1) : ~Passes(log'[i], log'[i + 1])
               PROVE  NoPassAhead /\ (rv' = rv \/ ~Passes(res, v))
    BY DEF NoPassAhead, Passes, Update
  <2>1. CASE rv' = rv
    BY <1>1, <1>4, <2>1 DEF NoPassAhead
  <2>2. CASE rv' = rv + 1
    BY <1>1, <1>4, <2>2 DEF NoPassAhead, res
  <2> QED
    BY <1>4, <2>1, <2>2
<1>11. NoPassAhead' /\ LiveMine(res) => LiveMine(res') /\ res'.spec = res.spec
  <2> SUFFICES ASSUME NoPassAhead', LiveMine(res)
               PROVE  LiveMine(v) /\ v.spec = res.spec
    BY <1>4
  <2>1. Mine \in v.fin /\ v.phase \in Phases /\ v.phase # "absent"
    BY <1>1 DEF Tame, LiveMine, Version
  <2> QED
    BY <1>4, <1>10, <2>1 DEF Passes, Update, LiveMine, Phases
<1>12. NoPassAhead' /\ Converged => Converged'
  <2> SUFFICES ASSUME NoPassAhead', Converged
               PROVE  Converged'
    OBVIOUS
  <2>1. v.phase \in Phases /\ res.phase \in Phases
    BY <1>1 DEF Version
  <2>2. CASE rv' = rv
    BY <1>4, <2>2 DEF Converged
  <2>3. CASE v.phase = "absent"
    <3>1. ~Guarded'
      BY <1>4, <2>3 DEF Guarded
    <3> QED
      BY <1>4, <1>6, <2>3, <3>1 DEF Converged, NoOrphans
  <2>4. CASE v.phase # "absent" /\ rv' # rv
    <3>1. /\ res.phase # "absent" /\ res.spec = v.spec
          /\ Mine \in v.fin /\ v.phase = "live"
      BY <1>10, <2>1, <2>4 DEF Passes, Update, Phases
    <3>2. res.phase = "live" /\ Mine \in res.fin
      BY <2>1, <3>1 DEF Tame, Phases
    <3> QED
      BY <1>4, <3>1, <3>2 DEF Converged
  <2> QED
    BY <2>2, <2>3, <2>4
<1> QED
  BY <1>3, <1>5, <1>6, <1>8, <1>9, <1>10, <1>11, <1>12

\* A step that does not touch the log keeps everything said of it.
LEMMA LogSame ==
    ASSUME LogInv, SeenGuarded, rv' = rv, log' = log, seen' = seen
    PROVE  /\ LogInv'
           /\ SeenGuarded'
           /\ res' = res
           /\ Guarded' <=> Guarded
           /\ NoPassAhead' <=> NoPassAhead
  BY DEF LogInv, LogSettled, LogNoRevival, LogLivePrefix, LogQuiet, NoPass,
         SeenGuarded, Guarded, NoPassAhead, res

-----------------------------------------------------------------------------
(* One lemma per group of actions *)

\* A write by a user that keeps the controller's finalizer preserves the invariant.
LEMMA UserWriteInv ==
    ASSUME IInv, NEW v, UserWrite(v), Tame(Settled(v))
    PROVE  IInv'
<1>1. /\ Commit(Settled(v)) /\ seen' = seen /\ up' = up /\ queued' = queued
      /\ pc' = pc /\ copy' = copy /\ deployed' = deployed /\ faults' = faults
      /\ ops' = ops + 1
  BY DEF UserWrite
<1>2. /\ LogInv' /\ SeenGuarded' /\ NoOrphans'
      /\ Guarded' <=> Guarded
      /\ pc \in DeletePCs => (\A i \in seen..rv : ~LiveMine(log[i]))'
      /\ NoPassAhead' => NoPassAhead
      /\ NoPassAhead' /\ Converged => Converged'
      /\ NoPassAhead' /\ LiveMine(res) => LiveMine(res') /\ res'.spec = res.spec
  BY <1>1, TameWrite
<1>3. /\ rv' \in Nat /\ rv \in Nat
      /\ rv' = rv \/ rv' = rv + 1
      /\ rv' = rv => log' = log
      /\ seen' \in 0..rv'
      /\ log' \in [seen'..rv' -> Version]
  BY <1>1, CommitFacts DEF IInv, Tame, TypeOK
<1>4. TypeOK'
  BY <1>1, <1>3 DEF IInv, TypeOK
<1>5. CopyInv'
  <2>1. copy.rv \in Nat /\ copy.rv <= rv
    BY DEF IInv, TypeOK, CopyInv
  <2>2. rv' = rv => res' = res
    BY <1>3 DEF res
  <2> QED
    BY <1>1, <1>3, <2>1, <2>2 DEF IInv, CopyInv
<1>6. WorkerInv'
  BY <1>1, <1>2 DEF IInv, WorkerInv
<1>7. Fresh'
  BY <1>1, <1>2 DEF IInv, Fresh
<1>8. NoLostWork'
  BY <1>1, <1>2 DEF IInv, NoLostWork
<1> QED
  BY <1>2, <1>4, <1>5, <1>6, <1>7, <1>8 DEF IInv

\* Users and other controllers preserve the invariant.
LEMMA UsersInv ==
    ASSUME IInv, Users
    PROVE  IInv'
<1>1. /\ res \in Version /\ res.phase \in Phases
      /\ res.phase = "absent" => res.fin = {}
      /\ res.phase = "deleting" => res.fin # {}
  BY DEF IInv, TypeOK, LogInv, LogSettled, res, Version
<1>2. CASE UserCreate
  <2>1. PICK s \in Specs, f \in SUBSET {Other} :
            UserWrite([phase |-> "live", spec |-> s, fin |-> f, op |-> Op("none", 0)])
    BY <1>2 DEF UserCreate
  <2> DEFINE v == [phase |-> "live", spec |-> s, fin |-> f, op |-> Op("none", 0)]
  <2>2. v \in Version /\ Settled(v) = v
    BY DEF Version, Settled, Op, Operation, OpTypes, Phases, Mine, Other
  <2>3. Mine \notin v.fin
    BY DEF Mine, Other
  <2>4. Tame(v)
    BY <1>1, <1>2, <2>2, <2>3 DEF Tame, UserCreate, LiveMine
  <2> QED
    BY <2>1, <2>2, <2>4, UserWriteInv
<1>3. CASE UserUpdate
  <2>1. PICK s \in Specs : UserWrite([res EXCEPT !.spec = s]) /\ res.phase # "absent"
    BY <1>3 DEF UserUpdate
  <2> DEFINE v == [res EXCEPT !.spec = s]
  <2>2. /\ v \in Version /\ v.fin = res.fin /\ v.phase = res.phase
        /\ Settled(v) = v
    BY <1>1 DEF Version, Settled
  <2>3. Tame(v)
    BY <1>1, <2>1, <2>2 DEF Tame, LiveMine
  <2> QED
    BY <2>1, <2>2, <2>3, UserWriteInv
<1>4. CASE UserDelete
  <2> DEFINE v == [res EXCEPT !.phase = "deleting"]
  <2>1. v \in Version /\ v.fin = res.fin /\ v.phase = "deleting"
    BY <1>1 DEF Version, Phases
  <2>2. /\ Settled(v) \in Version /\ Settled(v).fin = res.fin
        /\ Settled(v).phase \in {"absent", "deleting"}
        /\ Settled(v).phase = "absent" <=> res.fin = {}
    BY <2>1 DEF Version, Settled, Phases
  <2>3. Tame(Settled(v))
    BY <1>1, <1>4, <2>2 DEF Tame, LiveMine, UserDelete
  <2> QED
    BY <1>4, <2>3, UserWriteInv DEF UserDelete
<1>5. CASE OtherGuards
  <2> DEFINE v == [res EXCEPT !.fin = @ \cup {Other}]
  <2>1. /\ v \in Version /\ v.fin = res.fin \cup {Other} /\ v.phase = res.phase
        /\ Settled(v) = v /\ res.phase = "live"
    BY <1>1, <1>5 DEF Version, Settled, OtherGuards
  <2>2. Tame(v)
    BY <1>1, <2>1 DEF Tame, LiveMine, Mine, Other
  <2> QED
    BY <1>5, <2>1, <2>2, UserWriteInv DEF OtherGuards
<1>6. CASE OtherReleases
  <2> DEFINE v == [res EXCEPT !.fin = @ \ {Other}]
  <2>1. /\ v \in Version /\ v.fin = res.fin \ {Other} /\ v.phase = "deleting"
        /\ res.phase = "deleting"
    BY <1>1, <1>6 DEF Version, OtherReleases
  <2>2. /\ Settled(v) \in Version /\ Settled(v).fin = v.fin
        /\ Settled(v).phase \in {"absent", "deleting"}
        /\ Settled(v).phase = "absent" <=> v.fin = {}
    BY <2>1 DEF Version, Settled, Phases
  <2>3. Mine \in v.fin <=> Mine \in res.fin
    BY <2>1 DEF Mine, Other
  <2>4. Tame(Settled(v))
    BY <1>1, <2>1, <2>2, <2>3 DEF Tame, LiveMine
  <2> QED
    BY <1>6, <2>4, UserWriteInv DEF OtherReleases
<1> QED
  BY <1>2, <1>3, <1>4, <1>5, <1>6 DEF Users

\* Delivering an event preserves the invariant: an event the filter lets through
\* queues the key, and dropping the others loses no work.
LEMMA DeliverInv ==
    ASSUME IInv, Deliver
    PROVE  IInv'
<1>1. /\ rv \in Nat /\ seen \in 0..rv /\ seen + 1 \in seen..rv /\ copy.rv \in Nat
      /\ Trim(seen + 1)
      /\ queued' = (queued \/ Passes(log[seen], log[seen + 1]))
      /\ up /\ up' = up /\ pc' = pc /\ copy' = copy /\ deployed' = deployed
      /\ ops' = ops /\ faults' = faults
  BY DEF Deliver, Trim, IInv, TypeOK
<1>2. /\ LogInv'
      /\ seen' \in 0..rv'
      /\ log' \in [seen'..rv' -> Version]
      /\ res' = res
      /\ \A i \in (seen + 1)..rv : log'[i] = log[i]
  BY <1>1, LogTrim DEF IInv
<1>3. rv' = rv /\ seen' = seen + 1
  BY <1>1 DEF Trim
<1>4. Guarded' <=> Guarded
  BY <1>2 DEF Guarded
<1>5. TypeOK'
  <2>1. queued' \in BOOLEAN
    BY <1>1
  <2> QED
    BY <1>1, <1>2, <1>3, <2>1 DEF IInv, TypeOK
<1>6. \A i \in seen'..rv' : i \in seen..rv /\ log'[i] = log[i]
  BY <1>1, <1>2, <1>3
<1>7. SeenGuarded'
  BY <1>4, <1>6 DEF IInv, SeenGuarded
<1>8. CopyInv'
  BY <1>1, <1>2, <1>3 DEF IInv, CopyInv
<1>9. WorkerInv'
  BY <1>1, <1>4, <1>6 DEF IInv, WorkerInv
<1>10. NoOrphans'
  BY <1>1, <1>4 DEF IInv, NoOrphans
<1>11. ~queued' /\ NoPassAhead' => ~queued /\ NoPassAhead
  <2> SUFFICES ASSUME ~queued',
                      \A i \in (seen + 1)..(rv - 1) : ~Passes(log'[i], log'[i + 1])
               PROVE  ~queued /\ NoPassAhead
    BY <1>3 DEF NoPassAhead, Passes, Update
  <2>1. ~queued /\ ~Passes(log[seen], log[seen + 1])
    BY <1>1
  <2>2. \A i \in (seen + 1)..(rv - 1) : log'[i] = log[i] /\ log'[i + 1] = log[i + 1]
    BY <1>1, <1>2
  <2> QED
    BY <1>1, <2>1, <2>2 DEF NoPassAhead
<1>12. Fresh'
  BY <1>1, <1>2, <1>11 DEF IInv, Fresh
<1>13. Converged => Converged'
  BY <1>1, <1>2 DEF Converged
<1>14. NoLostWork'
  BY <1>1, <1>11, <1>13 DEF IInv, NoLostWork
<1> QED
  BY <1>2, <1>5, <1>7, <1>8, <1>9, <1>10, <1>12, <1>14 DEF IInv

\* A crash preserves the invariant.
LEMMA DieInv ==
    ASSUME IInv, Die, faults' \in Nat
    PROVE  IInv'
<1>1. /\ rv' = rv /\ log' = log /\ seen' = seen /\ copy' = copy
      /\ deployed' = deployed /\ ops' = ops /\ up' = FALSE /\ queued' = FALSE
      /\ pc' = "idle"
  BY DEF Die
<1>2. /\ LogInv' /\ SeenGuarded' /\ res' = res
      /\ Guarded' <=> Guarded
  BY <1>1, LogSame DEF IInv
<1>3. TypeOK'
  BY <1>1 DEF IInv, TypeOK
<1>4. CopyInv' /\ WorkerInv' /\ Fresh'
  BY <1>1 DEF IInv, CopyInv, WorkerInv, Fresh, LivePCs, DeletePCs, ApplyPCs
<1>5. NoOrphans' /\ NoLostWork'
  BY <1>1, <1>2 DEF IInv, NoOrphans, NoLostWork
<1> QED
  BY <1>2, <1>3, <1>4, <1>5 DEF IInv

\* A restart preserves the invariant: the listed resource is queued.
LEMMA RestartInv ==
    ASSUME IInv, Restart
    PROVE  IInv'
<1>1. /\ rv \in Nat /\ rv \in seen..rv /\ Trim(rv) /\ pc = "idle"
      /\ up' = TRUE /\ queued' = (res.phase # "absent")
      /\ pc' = pc /\ copy' = copy /\ deployed' = deployed
      /\ ops' = ops /\ faults' = faults
  BY DEF Restart, Trim, IInv, TypeOK, WorkerInv
<1>2. /\ LogInv'
      /\ seen' \in 0..rv'
      /\ log' \in [seen'..rv' -> Version]
      /\ res' = res
      /\ \A i \in rv..rv : log'[i] = log[i]
  BY <1>1, LogTrim DEF IInv
<1>3. rv' = rv /\ seen' = rv
  BY <1>1 DEF Trim
<1>4. Guarded' <=> Guarded
  BY <1>2 DEF Guarded
<1>5. TypeOK'
  BY <1>1, <1>2, <1>3 DEF IInv, TypeOK
<1>6. SeenGuarded'
  BY <1>1, <1>2, <1>3, <1>4 DEF IInv, SeenGuarded
<1>7. CopyInv' /\ WorkerInv' /\ Fresh'
  BY <1>1, <1>3 DEF IInv, CopyInv, WorkerInv, Fresh, LivePCs, DeletePCs, ApplyPCs
<1>8. NoOrphans'
  BY <1>1, <1>4 DEF IInv, NoOrphans
<1>9. NoLostWork'
  BY <1>1, <1>2, <1>8 DEF NoLostWork, Converged, NoOrphans, Guarded
<1> QED
  BY <1>2, <1>5, <1>6, <1>7, <1>8, <1>9 DEF IInv

\* Reading the cache preserves the invariant: the version read is not newer than
\* the resource, and what it lacks is queued or on its way.
LEMMA GetInv ==
    ASSUME IInv, \/ ReconcileGone \/ ReconcileNew \/ ReconcileKnown
                 \/ ReconcileDeleting \/ ReconcileBlocked
    PROVE  IInv'
<1>1. /\ rv' = rv /\ log' = log /\ seen' = seen /\ up /\ up' = up
      /\ queued /\ queued' = FALSE
      /\ copy' = [rv |-> seen, spec |-> cache.spec, reports |-> 0]
      /\ deployed' = deployed /\ ops' = ops /\ faults' = faults
  BY DEF Get, Read, ReconcileGone, ReconcileNew, ReconcileKnown,
         ReconcileDeleting, ReconcileBlocked
<1>2. /\ rv \in Nat /\ seen \in 0..rv /\ seen \in seen..rv /\ rv \in seen..rv
      /\ cache \in Version /\ cache.phase \in Phases /\ cache.spec \in Specs
      /\ seen = rv => cache = res
  BY DEF IInv, TypeOK, Version, cache, res
<1>3. /\ copy'.rv = seen /\ copy'.spec = cache.spec
      /\ copy' \in [rv: Nat, spec: Specs, reports: Nat]
  BY <1>1, <1>2
<1>4. /\ LogInv' /\ SeenGuarded' /\ res' = res
      /\ Guarded' <=> Guarded
      /\ NoPassAhead' <=> NoPassAhead
  BY <1>1, LogSame DEF IInv
<1>5. NoOrphans'
  BY <1>1, <1>4 DEF IInv, NoOrphans
<1>6. NoPassAhead => Quiet(cache, res)
  BY <1>2 DEF IInv, LogInv, LogQuiet, NoPass, NoPassAhead, cache, res
<1>7. CASE ReconcileGone \/ ReconcileBlocked
  <2>1. pc' = "idle"
    BY <1>7 DEF ReconcileGone, ReconcileBlocked, Get
  <2>2. TypeOK'
    BY <1>1, <1>3, <2>1 DEF IInv, TypeOK
  <2>3. CopyInv' /\ WorkerInv' /\ Fresh'
    BY <1>1, <1>2, <1>3, <2>1
    DEF IInv, CopyInv, WorkerInv, Fresh, LivePCs, DeletePCs, ApplyPCs
  <2>4. NoPassAhead => res.phase = "absent" \/ (res.phase = "deleting" /\ res.fin # {Mine})
    BY <1>6, <1>7 DEF Quiet, ReconcileGone, ReconcileBlocked
  <2>5. res.phase = "absent" => deployed = Nothing
    BY DEF IInv, NoOrphans, Guarded
  <2>6. NoLostWork'
    BY <1>1, <1>4, <2>4, <2>5 DEF NoLostWork, Converged
  <2> QED
    BY <1>4, <1>5, <2>2, <2>3, <2>6 DEF IInv
<1>8. CASE ReconcileNew
  <2>1. pc' = "addFinalizer" /\ cache.phase = "live"
    BY <1>8 DEF ReconcileNew, Get
  <2>2. TypeOK'
    BY <1>1, <1>3, <2>1 DEF IInv, TypeOK, LivePCs
  <2>3. CopyInv' /\ WorkerInv' /\ Fresh' /\ NoLostWork'
    BY <1>1, <1>2, <1>3, <1>4, <2>1
    DEF IInv, CopyInv, WorkerInv, Fresh, NoLostWork, DeletePCs, ApplyPCs
  <2> QED
    BY <1>4, <1>5, <2>2, <2>3 DEF IInv
<1>9. CASE ReconcileKnown
  <2>1. pc' = "apply" /\ LiveMine(cache)
    BY <1>9 DEF ReconcileKnown, Get, LiveMine
  <2>2. TypeOK'
    BY <1>1, <1>3, <2>1 DEF IInv, TypeOK, LivePCs
  <2>3. Guarded
    BY <1>2, <2>1 DEF IInv, SeenGuarded, cache
  <2>4. NoPassAhead => LiveMine(res) /\ res.spec = cache.spec
    BY <1>6, <2>1, <2>3 DEF Quiet, Guarded
  <2>5. CopyInv'
    BY <1>1, <1>2, <1>3, <1>4, <2>1 DEF IInv, CopyInv, DeletePCs, LiveMine
  <2>6. WorkerInv' /\ NoLostWork'
    BY <1>1, <1>4, <2>1, <2>3 DEF WorkerInv, NoLostWork, DeletePCs
  <2>7. Fresh'
    BY <1>3, <1>4, <2>4 DEF Fresh
  <2> QED
    BY <1>4, <1>5, <2>2, <2>5, <2>6, <2>7 DEF IInv
<1>10. CASE ReconcileDeleting
  <2>1. pc' = "initDelete" /\ cache.phase = "deleting" /\ cache.fin = {Mine}
    BY <1>10 DEF ReconcileDeleting, Get
  <2>2. TypeOK'
    BY <1>1, <1>3, <2>1 DEF IInv, TypeOK, DeletePCs
  <2>3. \A i \in seen..rv : ~LiveMine(log[i])
    BY <1>2, <2>1 DEF IInv, LogInv, LogLivePrefix, cache
  <2>4. CopyInv'
    BY <1>1, <1>2, <1>3, <1>4, <2>1 DEF IInv, CopyInv, LivePCs
  <2>5. WorkerInv' /\ NoLostWork' /\ Fresh'
    BY <1>1, <1>4, <2>1, <2>3 DEF WorkerInv, NoLostWork, Fresh, ApplyPCs
  <2> QED
    BY <1>4, <1>5, <2>2, <2>4, <2>5 DEF IInv
<1> QED
  BY <1>7, <1>8, <1>9, <1>10

\* The steps of Apply and Delete that do not write the resource preserve it.
LEMMA WorkInv ==
    ASSUME IInv, ApplyTouch \/ DeleteTouch \/ ApplyOk \/ DeleteOk \/ Fails
    PROVE  IInv'
<1>1. /\ rv' = rv /\ log' = log /\ seen' = seen /\ up' = up
      /\ queued' = queued /\ copy' = copy /\ ops' = ops
      /\ faults' \in Nat
  BY DEF ApplyTouch, DeleteTouch, ApplyOk, DeleteOk, Fails, IInv, TypeOK
<1>2. /\ LogInv' /\ SeenGuarded' /\ res' = res
      /\ Guarded' <=> Guarded
      /\ NoPassAhead' <=> NoPassAhead
  BY <1>1, LogSame DEF IInv
<1>3. copy.spec \in Specs /\ deployed \in Specs \cup {Nothing, Partial}
  BY DEF IInv, TypeOK
<1>4. CASE ApplyTouch \/ ApplyOk
  <2>1. /\ pc = "apply" /\ pc' \in {"apply", "applied"}
        /\ deployed' \in {Partial, copy.spec}
        /\ pc' = "applied" => deployed' = copy.spec
    BY <1>4 DEF ApplyTouch, ApplyOk
  <2>2. TypeOK'
    BY <1>1, <1>3, <2>1 DEF IInv, TypeOK, LivePCs
  <2>3. Guarded
    BY <2>1 DEF IInv, WorkerInv, ApplyPCs
  <2>4. CopyInv' /\ WorkerInv' /\ NoOrphans'
    BY <1>1, <1>2, <2>1, <2>3
    DEF IInv, CopyInv, WorkerInv, NoOrphans, LivePCs, DeletePCs, ApplyPCs
  <2>5. Fresh' /\ NoLostWork'
    BY <1>1, <1>2, <2>1 DEF IInv, Fresh, NoLostWork, ApplyPCs
  <2> QED
    BY <1>2, <2>2, <2>4, <2>5 DEF IInv
<1>5. CASE DeleteTouch \/ DeleteOk
  <2>1. /\ pc = "delete" /\ pc' \in {"delete", "deleted"}
        /\ deployed' \in {Nothing, Partial}
        /\ pc' = "deleted" => deployed' = Nothing
        /\ deployed' # Nothing => deployed # Nothing
    BY <1>5 DEF DeleteTouch, DeleteOk
  <2>2. TypeOK'
    BY <1>1, <1>3, <2>1 DEF IInv, TypeOK, DeletePCs
  <2>3. CopyInv' /\ NoOrphans'
    BY <1>1, <1>2, <2>1 DEF IInv, CopyInv, NoOrphans, LivePCs, DeletePCs
  <2>4. \A i \in seen..rv : ~LiveMine(log[i])
    BY <2>1 DEF IInv, WorkerInv, DeletePCs
  <2>5. WorkerInv'
    BY <1>1, <2>1, <2>4 DEF IInv, WorkerInv, DeletePCs, ApplyPCs
  <2>6. Fresh' /\ NoLostWork'
    BY <2>1 DEF Fresh, NoLostWork, ApplyPCs
  <2> QED
    BY <1>2, <2>2, <2>3, <2>5, <2>6 DEF IInv
<1>6. CASE Fails
  <2>1. /\ deployed' = deployed
        /\ \/ pc = "apply" /\ pc' = "applyFailed"
           \/ pc = "delete" /\ pc' = "deleteFailed"
    BY <1>6 DEF Fails
  <2>2. TypeOK'
    BY <1>1, <2>1 DEF IInv, TypeOK, DeletePCs, LivePCs
  <2>3. CopyInv' /\ NoOrphans'
    BY <1>1, <1>2, <2>1 DEF IInv, CopyInv, NoOrphans, LivePCs, DeletePCs
  <2>4. WorkerInv'
    BY <1>1, <1>2, <2>1 DEF IInv, WorkerInv, DeletePCs, ApplyPCs
  <2>5. Fresh' /\ NoLostWork'
    BY <1>1, <1>2, <2>1 DEF IInv, Fresh, NoLostWork, ApplyPCs
  <2> QED
    BY <1>2, <2>2, <2>3, <2>4, <2>5 DEF IInv
<1> QED
  BY <1>4, <1>5, <1>6

\* A status write of the worker that stays within apply or delete, or ends there.
\* `to' is where the worker goes on.
LEMMA StatusWriteInv ==
    ASSUME IInv, NEW op \in Operation, NEW to,
           pc \in ApplyPCs \cup DeletePCs,
           Commit([res EXCEPT !.op = op]) \/ (rv' = rv /\ log' = log),
           rv' # rv => copy.rv = rv,
           copy' \in [rv: Nat, spec: Specs, reports: Nat],
           copy'.spec = copy.spec,
           copy'.rv = IF rv' = rv THEN copy.rv ELSE rv',
           seen' = seen, up' = up, deployed' = deployed, ops' = ops, faults' \in Nat,
           pc' = to, queued' \in BOOLEAN,
           \/ to \in ApplyPCs \ {"applied"} /\ pc \in ApplyPCs /\ queued' = queued
           \/ to = "removeFinalizer" /\ pc = "deleted"
           \/ to \in DeletePCs \ {"deleted", "removeFinalizer"} /\ pc \in DeletePCs
           \/ to = "idle" /\ queued'
           \/ to = "idle" /\ pc = "applied" /\ queued' = queued
    PROVE  IInv'
<1> DEFINE v == [res EXCEPT !.op = op]
<1>1. /\ rv \in Nat /\ seen \in 0..rv
      /\ res \in Version
      /\ res.phase = "absent" => res.fin = {}
      /\ res.phase = "deleting" => res.fin # {}
  BY DEF IInv, TypeOK, LogInv, LogSettled, res
<1>2. /\ v \in Version /\ v.phase = res.phase /\ v.fin = res.fin /\ v.spec = res.spec
  BY <1>1 DEF Version
<1>3. /\ rv' \in Nat
      /\ rv' = rv \/ rv' = rv + 1
      /\ rv' = rv => log' = log
      /\ seen' \in 0..rv'
      /\ log' \in [seen'..rv' -> Version]
      /\ res'.phase = res.phase /\ res'.fin = res.fin /\ res'.spec = res.spec
  <2>1. CASE Commit(v)
    BY <1>2, <2>1, CommitFacts DEF IInv, res
  <2>2. CASE rv' = rv /\ log' = log
    BY <1>1, <2>2 DEF IInv, TypeOK, res
  <2> QED
    BY <2>1, <2>2
<1>4. /\ LogInv' /\ SeenGuarded' /\ NoOrphans'
      /\ Guarded' <=> Guarded
      /\ pc \in DeletePCs => (\A i \in seen..rv : ~LiveMine(log[i]))'
      /\ NoPassAhead' => NoPassAhead
  <2>1. CASE Commit(v)
    <3>1. Tame(v)
      BY <1>1, <1>2 DEF Tame, LiveMine
    <3> QED
      BY <2>1, <3>1, TameWrite
  <2>2. CASE rv' = rv /\ log' = log
    <3>1. /\ LogInv' /\ SeenGuarded' /\ res' = res
          /\ Guarded' <=> Guarded
          /\ NoPassAhead' <=> NoPassAhead
      BY <2>2, LogSame DEF IInv
    <3>2. NoOrphans'
      BY <3>1 DEF IInv, NoOrphans
    <3>3. pc \in DeletePCs => (\A i \in seen..rv : ~LiveMine(log[i]))'
      BY <2>2 DEF IInv, WorkerInv
    <3> QED
      BY <3>1, <3>2, <3>3
  <2> QED
    BY <2>1, <2>2
<1>5. TypeOK'
  BY <1>3 DEF IInv, TypeOK, ApplyPCs, LivePCs, DeletePCs
<1>6. CopyInv'
  <2>1. copy.rv \in Nat /\ copy.rv <= rv
    BY DEF IInv, TypeOK, CopyInv
  <2>2. pc \in LivePCs /\ copy.rv = rv => res.phase = "live" /\ res.spec = copy.spec
    BY DEF IInv, CopyInv
  <2>3. pc \in DeletePCs /\ copy.rv = rv => res.phase = "deleting" /\ res.fin = {Mine}
    BY DEF IInv, CopyInv
  <2>4. copy'.rv <= rv' /\ (copy'.rv = rv' => copy.rv = rv)
    BY <1>1, <1>3, <2>1
  <2>5. pc' # "addFinalizer"
    BY DEF ApplyPCs, DeletePCs
  <2>6. pc' \in LivePCs => pc \in LivePCs
    BY DEF ApplyPCs, LivePCs, DeletePCs
  <2>7. pc' \in DeletePCs => pc \in DeletePCs
    BY DEF ApplyPCs, LivePCs, DeletePCs
  <2> QED
    BY <1>3, <2>2, <2>3, <2>4, <2>5, <2>6, <2>7 DEF CopyInv
<1>7. WorkerInv'
  <2>1. pc' \in ApplyPCs => pc \in ApplyPCs
    BY DEF ApplyPCs, DeletePCs
  <2>2. pc' \in DeletePCs => pc \in DeletePCs
    BY DEF ApplyPCs, DeletePCs
  <2>3. up' /\ pc' # "applied"
    BY DEF IInv, WorkerInv, ApplyPCs, DeletePCs
  <2>4. pc' \in {"deleted", "removeFinalizer"} => deployed' = Nothing
    BY DEF IInv, WorkerInv, ApplyPCs, DeletePCs
  <2> QED
    BY <1>4, <2>1, <2>2, <2>3, <2>4 DEF IInv, WorkerInv
<1>8. Fresh'
  <2>1. pc' \in ApplyPCs => pc \in ApplyPCs /\ queued' = queued
    BY DEF ApplyPCs, DeletePCs
  <2> QED
    BY <1>3, <1>4, <2>1 DEF IInv, Fresh, LiveMine
<1>9. NoLostWork'
  <2> SUFFICES ASSUME pc' = "idle", ~queued', NoPassAhead'
               PROVE  Converged'
    BY DEF NoLostWork
  <2>1. pc = "applied" /\ queued' = queued
    BY DEF ApplyPCs, DeletePCs
  <2>2. LiveMine(res) /\ res.spec = copy.spec /\ deployed = copy.spec
    BY <1>4, <2>1 DEF IInv, Fresh, WorkerInv, ApplyPCs
  <2> QED
    BY <1>3, <2>2 DEF Converged, LiveMine
<1> QED
  BY <1>4, <1>5, <1>6, <1>7, <1>8, <1>9 DEF IInv

\* The progress callback and the last report of a reconcile preserve it.
LEMMA ReportsInv ==
    ASSUME IInv, Progress \/ FinishApply \/ FinishDelete \/ ApplyError \/ DeleteError
    PROVE  IInv'
<1> USE DEF Operation, OpTypes, Op
<1>1. /\ rv \in Nat /\ faults \in Nat /\ queued \in BOOLEAN
      /\ copy \in [rv: Nat, spec: Specs, reports: Nat]
      /\ res \in Version
  BY DEF IInv, TypeOK, res
<1>2. CASE Progress
  <2>1. PICK op \in Operation : Commit([res EXCEPT !.op = op])
    BY <1>2 DEF Progress
  <2>2. /\ pc \in {"apply", "delete"} /\ pc' = pc /\ queued' = queued /\ copy.rv = rv
        /\ copy' = [copy EXCEPT !.rv = rv', !.reports = @ + 1]
        /\ seen' = seen /\ up' = up /\ deployed' = deployed /\ ops' = ops
        /\ faults' = faults
    BY <1>2 DEF Progress
  <2>3. rv' \in Nat
    BY <1>1, <2>1 DEF Commit
  <2>4. /\ copy' \in [rv: Nat, spec: Specs, reports: Nat]
        /\ copy'.spec = copy.spec
        /\ copy'.rv = IF rv' = rv THEN copy.rv ELSE rv'
    <3>1. copy.reports + 1 \in Nat /\ copy.spec \in Specs
      BY <1>1
    <3>2. copy'.rv = rv' /\ copy'.spec = copy.spec /\ copy'.reports = copy.reports + 1
      BY <1>1, <2>2
    <3>3. copy' \in [rv: Nat, spec: Specs, reports: Nat]
      BY <1>1, <2>2, <2>3, <3>1
    <3> QED
      BY <2>2, <3>2, <3>3
  <2> QED
    BY <1>1, <2>1, <2>2, <2>4, StatusWriteInv DEF ApplyPCs, DeletePCs
<1>3. ASSUME NEW from, NEW op \in Operation, NEW to, Report(from, op, to)
      PROVE  /\ Commit([res EXCEPT !.op = op]) \/ (rv' = rv /\ log' = log)
             /\ rv' # rv => copy.rv = rv
             /\ copy' \in [rv: Nat, spec: Specs, reports: Nat]
             /\ copy'.spec = copy.spec
             /\ copy'.rv = IF rv' = rv THEN copy.rv ELSE rv'
             /\ seen' = seen /\ up' = up /\ deployed' = deployed /\ ops' = ops
             /\ faults' \in Nat /\ pc = from /\ pc' = to
  <2>1. rv' \in Nat
    BY <1>1, <1>3 DEF Commit, Report
  <2> QED
    BY <1>1, <1>3, <2>1 DEF Report
<1>4. 100 \in Percents
  BY BoundsAssumption
<1>5. CASE FinishApply
  <2>1. Report("applied", Op("apply", 100), "idle") /\ queued' = queued
    BY <1>5 DEF FinishApply
  <2>2. Op("apply", 100) \in Operation
    BY <1>4
  <2> HIDE DEF Op, Operation
  <2> QED
    BY <1>1, <1>3, <2>1, <2>2, StatusWriteInv DEF ApplyPCs
<1>6. CASE FinishDelete
  <2>1. Report("deleted", Op("delete", 100), "removeFinalizer") /\ queued' = queued
    BY <1>6 DEF FinishDelete
  <2>2. Op("delete", 100) \in Operation
    BY <1>4
  <2> HIDE DEF Op, Operation
  <2> QED
    BY <1>1, <1>3, <2>1, <2>2, StatusWriteInv DEF DeletePCs
<1>7. CASE ApplyError
  <2>1. Report("applyFailed", Op("apply-error", 0), "idle") /\ queued' = TRUE
    BY <1>7 DEF ApplyError
  <2>2. Op("apply-error", 0) \in Operation
    OBVIOUS
  <2> HIDE DEF Op, Operation
  <2> QED
    BY <1>1, <1>3, <2>1, <2>2, StatusWriteInv DEF ApplyPCs
<1>8. CASE DeleteError
  <2>1. Report("deleteFailed", Op("delete-error", 0), "idle") /\ queued' = TRUE
    BY <1>8 DEF DeleteError
  <2>2. Op("delete-error", 0) \in Operation
    OBVIOUS
  <2> HIDE DEF Op, Operation
  <2> QED
    BY <1>1, <1>3, <2>1, <2>2, StatusWriteInv DEF DeletePCs
<1> QED
  BY <1>2, <1>5, <1>6, <1>7, <1>8

\* The four updates whose error ends Reconcile preserve it.
LEMMA UpdatesInv ==
    ASSUME IInv,
           AddFinalizer \/ InitStatus \/ InitDelete \/ RemoveFinalizer \/ Refused
    PROVE  IInv'
<1>1. /\ rv \in Nat /\ seen \in 0..rv /\ faults \in Nat /\ queued \in BOOLEAN
      /\ copy \in [rv: Nat, spec: Specs, reports: Nat]
      /\ res \in Version
      /\ res.phase = "absent" => res.fin = {}
      /\ res.phase = "deleting" => res.fin # {}
  BY DEF IInv, TypeOK, LogInv, LogSettled, res
<1>2. ASSUME NEW from, NEW v, NEW to, Accepted(from, v, to), Settled(v) \in Version
      PROVE  /\ copy' \in [rv: Nat, spec: Specs, reports: Nat]
             /\ copy'.spec = copy.spec /\ copy'.rv = rv' /\ copy.rv = rv
             /\ Commit(Settled(v))
             /\ seen' = seen /\ up /\ up' = up /\ queued' = queued /\ deployed' = deployed
             /\ ops' = ops /\ faults' = faults /\ pc = from /\ pc' = to
             /\ rv' \in Nat
             /\ rv' = rv \/ rv' = rv + 1
             /\ seen' \in 0..rv'
             /\ log' \in [seen'..rv' -> Version]
             /\ res' = Settled(v)
             /\ \A i \in seen..rv : log'[i] = log[i]
  <2>1. /\ Commit(Settled(v)) /\ seen' = seen /\ copy' = [copy EXCEPT !.rv = rv']
        /\ copy.rv = rv
    BY <1>2 DEF Accepted
  <2>2. /\ rv' \in Nat
        /\ rv' = rv \/ rv' = rv + 1
        /\ seen' \in 0..rv'
        /\ log' \in [seen'..rv' -> Version]
        /\ res' = Settled(v)
        /\ \A i \in seen..rv : log'[i] = log[i]
    BY <1>2, <2>1, CommitFacts DEF IInv
  <2>3. copy' \in [rv: Nat, spec: Specs, reports: Nat] /\ copy'.spec = copy.spec /\ copy'.rv = rv'
    BY <1>1, <2>1, <2>2
  <2> QED
    BY <1>2, <2>1, <2>2, <2>3 DEF Accepted
<1>3. CASE InitStatus
  <2> DEFINE v == [res EXCEPT !.op = Op("apply", 0)]
  <2>1. v \in Version /\ Settled(v) = v /\ Op("apply", 0) \in Operation
    BY <1>1 DEF Version, Settled, Op, Operation, OpTypes
  <2>2. Accepted("initStatus", v, "apply")
    BY <1>3 DEF InitStatus
  <2> QED
    BY <1>1, <1>2, <2>1, <2>2, StatusWriteInv DEF ApplyPCs
<1>4. CASE InitDelete
  <2> DEFINE v == [res EXCEPT !.op = Op("delete", 0)]
  <2>1. v \in Version /\ Settled(v) = v /\ Op("delete", 0) \in Operation
    BY <1>1 DEF Version, Settled, Op, Operation, OpTypes
  <2>2. Accepted("initDelete", v, "delete")
    BY <1>4 DEF InitDelete
  <2> QED
    BY <1>1, <1>2, <2>1, <2>2, StatusWriteInv DEF DeletePCs
<1>5. CASE AddFinalizer
  <2> DEFINE v == [res EXCEPT !.fin = @ \cup {Mine}]
  <2>1. pc = "addFinalizer" /\ copy.rv = rv
    BY <1>5 DEF AddFinalizer, Accepted
  <2>2. seen = rv /\ res.phase = "live" /\ res.spec = copy.spec
    BY <1>1, <2>1 DEF IInv, CopyInv, LivePCs
  <2>3. /\ v \in Version /\ Settled(v) = v /\ Mine \in v.fin
        /\ v.phase = "live" /\ v.spec = copy.spec
    BY <1>1, <2>2 DEF Version, Settled, Mine, Other
  <2>4. Accepted("addFinalizer", v, "initStatus")
    BY <1>5 DEF AddFinalizer
  <2>5. /\ copy' \in [rv: Nat, spec: Specs, reports: Nat]
        /\ copy'.spec = copy.spec /\ copy'.rv = rv'
        /\ Commit(v) /\ seen' = seen /\ up /\ up' = up /\ queued' = queued
        /\ deployed' = deployed /\ ops' = ops /\ faults' = faults
        /\ pc' = "initStatus" /\ rv' \in Nat /\ seen' \in 0..rv'
        /\ log' \in [seen'..rv' -> Version] /\ res' = v
    BY <1>2, <2>3, <2>4
  <2>6. LogInv'
    BY <2>2, <2>3, <2>5, LogCommit DEF IInv, Legal
  <2>7. Guarded'
    BY <2>3, <2>5 DEF Guarded
  <2>8. TypeOK'
    BY <2>5 DEF IInv, TypeOK, LivePCs
  <2>9. SeenGuarded' /\ NoOrphans'
    BY <2>7 DEF SeenGuarded, NoOrphans
  <2>10. CopyInv'
    BY <2>3, <2>5 DEF CopyInv, DeletePCs
  <2>11. WorkerInv' /\ NoLostWork'
    BY <2>5, <2>7 DEF WorkerInv, NoLostWork, DeletePCs
  <2>12. Fresh'
    BY <2>3, <2>5 DEF Fresh, LiveMine
  <2> QED
    BY <2>6, <2>8, <2>9, <2>10, <2>11, <2>12 DEF IInv
<1>6. CASE RemoveFinalizer
  <2> DEFINE v == [res EXCEPT !.fin = @ \ {Mine}]
             w == Settled(v)
  <2>1. pc = "removeFinalizer" /\ copy.rv = rv
    BY <1>6 DEF RemoveFinalizer, Accepted
  <2>2. /\ res.phase = "deleting" /\ res.fin = {Mine} /\ deployed = Nothing
        /\ \A i \in seen..rv : ~LiveMine(log[i])
    BY <1>1, <2>1 DEF IInv, CopyInv, WorkerInv, DeletePCs
  <2>3. v \in Version /\ v.fin = {} /\ v.phase = "deleting"
    BY <1>1, <2>2 DEF Version
  <2>4. w \in Version /\ w.fin = {} /\ w.phase = "absent"
    BY <2>3 DEF Version, Settled, Phases
  <2>5. Accepted("removeFinalizer", v, "idle")
    BY <1>6 DEF RemoveFinalizer
  <2>6. /\ copy' \in [rv: Nat, spec: Specs, reports: Nat]
        /\ copy'.rv = rv'
        /\ Commit(w) /\ seen' = seen /\ up /\ up' = up /\ queued' = queued
        /\ deployed' = deployed /\ ops' = ops /\ faults' = faults
        /\ pc' = "idle" /\ rv' \in Nat /\ seen' \in 0..rv'
        /\ log' \in [seen'..rv' -> Version] /\ res' = w
        /\ rv' = rv \/ rv' = rv + 1
        /\ \A i \in seen..rv : log'[i] = log[i]
    BY <1>2, <2>4, <2>5
  <2>7. LogInv'
    BY <2>4, <2>6, LogCommit DEF IInv, Legal, LiveMine
  <2>8. TypeOK'
    BY <2>6 DEF IInv, TypeOK
  <2>9. \A i \in seen'..rv' : ~LiveMine(log'[i])
    <3>1. ~LiveMine(w) /\ log'[rv'] = w
      BY <2>4, <2>6 DEF LiveMine, res
    <3>2. \A i \in seen'..rv' : i \in seen..rv \/ i = rv'
      BY <1>1, <2>6
    <3> QED
      BY <2>2, <2>6, <3>1, <3>2
  <2>10. SeenGuarded'
    BY <2>9 DEF SeenGuarded, LiveMine
  <2>11. NoOrphans' /\ NoLostWork'
    BY <2>2, <2>4, <2>6 DEF NoOrphans, NoLostWork, Converged
  <2>12. CopyInv' /\ WorkerInv' /\ Fresh'
    BY <2>6 DEF CopyInv, WorkerInv, Fresh, LivePCs, DeletePCs, ApplyPCs
  <2> QED
    BY <2>7, <2>8, <2>10, <2>11, <2>12 DEF IInv
<1>7. CASE Refused
  <2>1. /\ rv' = rv /\ log' = log /\ seen' = seen /\ up' = up /\ copy' = copy
        /\ deployed' = deployed /\ ops' = ops /\ queued' = TRUE /\ pc' = "idle"
        /\ faults' \in Nat
    BY <1>1, <1>7 DEF Refused, ReturnError
  <2>2. LogInv' /\ SeenGuarded'
    BY <2>1, LogSame DEF IInv
  <2>3. Guarded' <=> Guarded
    BY <2>1, LogSame DEF IInv
  <2>4. TypeOK'
    BY <2>1 DEF IInv, TypeOK
  <2>5. CopyInv' /\ WorkerInv' /\ Fresh'
    BY <2>1 DEF IInv, CopyInv, WorkerInv, Fresh, LivePCs, DeletePCs, ApplyPCs
  <2>6. NoOrphans' /\ NoLostWork'
    BY <2>1, <2>3 DEF IInv, NoOrphans, NoLostWork
  <2> QED
    BY <2>2, <2>4, <2>5, <2>6 DEF IInv
<1> QED
  BY <1>3, <1>4, <1>5, <1>6, <1>7

-----------------------------------------------------------------------------
(* The theorems *)

\* The invariant holds initially.
LEMMA InitInv == Init => IInv
<1> SUFFICES ASSUME Init PROVE IInv
  OBVIOUS
<1>1. PICK s \in Specs :
          /\ log = [i \in 0..0 |-> [phase |-> "absent", spec |-> s, fin |-> {},
                                    op |-> Op("none", 0)]]
          /\ copy = [rv |-> 0, spec |-> s, reports |-> 0]
  BY DEF Init
<1>2. /\ rv = 0 /\ seen = 0 /\ pc = "idle" /\ deployed = Nothing
      /\ queued = FALSE /\ up = TRUE /\ ops = 0 /\ faults = 0
  BY DEF Init
<1>3. /\ log[0] \in Version /\ log[0].phase = "absent" /\ log[0].fin = {}
      /\ res = log[0]
  BY <1>1, <1>2 DEF Version, Phases, Op, Operation, OpTypes, res
<1>4. \A i \in seen..rv : i = 0
  BY <1>2
<1>5. TypeOK
  <2>1. log \in [0..0 -> Version]
    BY <1>1, <1>3
  <2>2. copy \in [rv: Nat, spec: Specs, reports: Nat]
    BY <1>1
  <2>3. seen \in 0..rv /\ seen..rv = 0..0
    BY <1>2
  <2> QED
    BY <1>2, <2>1, <2>2, <2>3 DEF TypeOK
<1>6. LogInv /\ SeenGuarded
  BY <1>2, <1>3, <1>4
  DEF LogInv, LogSettled, LogNoRevival, LogLivePrefix, LogQuiet, Quiet, SeenGuarded, LiveMine
<1>7. CopyInv /\ WorkerInv /\ Fresh /\ NoOrphans
  BY <1>1, <1>2
  DEF CopyInv, WorkerInv, Fresh, NoOrphans, LivePCs, DeletePCs, ApplyPCs
<1>8. NoLostWork
  BY <1>2, <1>3 DEF NoLostWork, Converged
<1> QED
  BY <1>5, <1>6, <1>7, <1>8 DEF IInv

\* Every step preserves it.
LEMMA NextInv == IInv /\ [Next]_vars => IInv'
<1> SUFFICES ASSUME IInv, [Next]_vars PROVE IInv'
  OBVIOUS
<1>1. CASE Users
  BY <1>1, UsersInv
<1>2. CASE Deliver
  BY <1>2, DeliverInv
<1>3. CASE Crash \/ GetFromSpecPanics
  <2>1. Die /\ faults' \in Nat
    BY <1>3 DEF Crash, GetFromSpecPanics, IInv, TypeOK
  <2> QED
    BY <2>1, DieInv
<1>4. CASE Restart
  BY <1>4, RestartInv
<1>5. CASE Reconcile
  BY <1>3, <1>5, GetInv, WorkInv, UpdatesInv, ReportsInv DEF Reconcile, Begin
<1>6. CASE Progress \/ ApplyTouch \/ DeleteTouch \/ Fails
  BY <1>6, WorkInv, ReportsInv
<1>7. CASE UNCHANGED vars
  <2>1. /\ rv' = rv /\ log' = log /\ seen' = seen /\ up' = up /\ queued' = queued
        /\ pc' = pc /\ copy' = copy /\ deployed' = deployed /\ ops' = ops
        /\ faults' = faults
    BY <1>7 DEF vars
  <2>2. /\ LogInv' /\ SeenGuarded' /\ res' = res
        /\ Guarded' <=> Guarded
        /\ NoPassAhead' <=> NoPassAhead
    BY <2>1, LogSame DEF IInv
  <2>3. TypeOK'
    BY <2>1 DEF IInv, TypeOK
  <2>4. CopyInv' /\ WorkerInv' /\ Fresh' /\ NoOrphans' /\ NoLostWork'
    BY <2>1, <2>2 DEF IInv, CopyInv, WorkerInv, Fresh, NoOrphans, NoLostWork, Converged
  <2> QED
    BY <2>2, <2>3, <2>4 DEF IInv
<1> QED
  BY <1>1, <1>2, <1>3, <1>4, <1>5, <1>6, <1>7 DEF Next

\* The inductive invariant, and with it the type invariant, holds of the controller.
THEOREM Invariance == Spec => []IInv
  BY InitInv, NextInv, PTL DEF Spec

\* Every state is of the declared type.
THEOREM TypeCorrect == Spec => []TypeOK
<1>1. IInv => TypeOK
  BY DEF IInv
<1> QED
  BY <1>1, Invariance, PTL

\* The resource outlives the objects of its chart: whatever stale version of it
\* a reconcile has read, wherever it crashed or was refused, the finalizer is on
\* the resource while anything of the chart is in the cluster.
THEOREM FinalizerOutlivesChart == Spec => []NoOrphans
<1>1. IInv => NoOrphans
  BY DEF IInv
<1> QED
  BY <1>1, Invariance, PTL

\* kdoChartPredicate and the errors Reconcile drops lose no work: an idle
\* controller with no event under way has converged.
THEOREM IdleMeansConverged == Spec => []NoLostWork
<1>1. IInv => NoLostWork
  BY DEF IInv
<1> QED
  BY <1>1, Invariance, PTL

-----------------------------------------------------------------------------
(* Status writes, and the refinement of KdoChartLifecycle *)

\* What every step of the controller does to the resource, its finalizer and the
\* objects of the chart.  The cases are the actions of the life cycle.
LEMMA StepCases ==
    ASSUME IInv, Next
    PROVE  \/ UserCreate \/ UserUpdate \/ UserDelete \/ OtherGuards \/ OtherReleases
           \/ AddFinalizer \/ RemoveFinalizer
           \/ ApplyTouch \/ ApplyOk \/ DeleteTouch \/ DeleteOk
           \/ InitStatus \/ InitDelete \/ Progress
           \/ FinishApply \/ FinishDelete \/ ApplyError \/ DeleteError
           \/ rv' = rv /\ res' = res /\ deployed' = deployed
<1>1. CASE Deliver
  <2>1. rv' = rv /\ res' = res /\ deployed' = deployed
    BY <1>1 DEF Deliver, res, IInv, TypeOK
  <2> QED
    BY <2>1
<1>2. CASE Restart
  <2>1. rv' = rv /\ res' = res /\ deployed' = deployed
    BY <1>2 DEF Restart, res, IInv, TypeOK
  <2> QED
    BY <2>1
<1>3. CASE Crash \/ GetFromSpecPanics \/ Fails \/ Refused
  <2>1. rv' = rv /\ res' = res /\ deployed' = deployed
    BY <1>3 DEF Crash, GetFromSpecPanics, Die, Fails, Refused, ReturnError, res
  <2> QED
    BY <2>1
<1>4. CASE ReconcileGone \/ ReconcileNew \/ ReconcileKnown
           \/ ReconcileDeleting \/ ReconcileBlocked
  <2>1. rv' = rv /\ res' = res /\ deployed' = deployed
    BY <1>4 DEF Get, ReconcileGone, ReconcileNew, ReconcileKnown,
                ReconcileDeleting, ReconcileBlocked, res
  <2> QED
    BY <2>1
<1> QED
  BY <1>1, <1>2, <1>3, <1>4 DEF Next, Users, Reconcile, Begin

\* Committing a version makes it the resource, also when it was that before.
LEMMA CommitRes ==
    ASSUME IInv, NEW v \in Version, Commit(v), seen' = seen
    PROVE  res' = v
  BY CommitFacts DEF IInv

\* A status write changes nothing but the status, and writes one of its own phase.
LEMMA StatusWrites ==
    ASSUME IInv,
           \/ InitStatus \/ InitDelete \/ Progress
           \/ FinishApply \/ FinishDelete \/ ApplyError \/ DeleteError
    PROVE  /\ res'.phase = res.phase /\ res'.fin = res.fin /\ res'.spec = res.spec
           /\ deployed' = deployed
           /\ res'.op # res.op =>
                \/ res.phase = "live" /\ res'.op.type \in {"apply", "apply-error"}
                \/ res.phase = "deleting" /\ res'.op.type \in {"delete", "delete-error"}
<1>1. /\ res \in Version
      /\ res.phase = "deleting" => res.fin # {}
      /\ 100 \in Percents
  BY BoundsAssumption DEF IInv, TypeOK, LogInv, LogSettled, res
<1>2. /\ pc \in LivePCs /\ copy.rv = rv => res.phase = "live"
      /\ pc \in DeletePCs /\ copy.rv = rv => res.phase = "deleting"
  BY DEF IInv, CopyInv
<1>3. ASSUME NEW op \in Operation, Commit([res EXCEPT !.op = op]), seen' = seen
      PROVE  /\ res'.phase = res.phase /\ res'.fin = res.fin /\ res'.spec = res.spec
             /\ res'.op = op
  <2>1. [res EXCEPT !.op = op] \in Version
    BY <1>1 DEF Version
  <2> QED
    BY <1>1, <1>3, <2>1, CommitRes DEF Version
<1>4. CASE InitStatus \/ InitDelete
  <2>1. PICK t \in {"apply", "delete"} :
            /\ Commit(Settled([res EXCEPT !.op = Op(t, 0)]))
            /\ seen' = seen /\ deployed' = deployed /\ copy.rv = rv
            /\ t = "apply" => pc \in LivePCs
            /\ t = "delete" => pc \in DeletePCs
    BY <1>4 DEF InitStatus, InitDelete, Accepted, LivePCs, DeletePCs
  <2>2. Settled([res EXCEPT !.op = Op(t, 0)]) = [res EXCEPT !.op = Op(t, 0)]
    BY <1>1 DEF Settled, Version
  <2>3. Op(t, 0) \in Operation /\ Op(t, 0).type = t
    BY DEF Op, Operation, OpTypes
  <2>4. /\ res'.phase = res.phase /\ res'.fin = res.fin /\ res'.spec = res.spec
        /\ res'.op = Op(t, 0)
    BY <1>3, <2>1, <2>2, <2>3
  <2> QED
    BY <1>2, <2>1, <2>3, <2>4
<1>5. CASE Progress
  <2>1. PICK t \in {"apply", "delete"}, p \in Percents :
            /\ Commit([res EXCEPT !.op = Op(t, p)])
            /\ seen' = seen /\ deployed' = deployed /\ copy.rv = rv
            /\ t = "apply" => pc \in LivePCs
            /\ t = "delete" => pc \in DeletePCs
    BY <1>5 DEF Progress, LivePCs, DeletePCs
  <2>2. Op(t, p) \in Operation /\ Op(t, p).type = t
    BY DEF Op, Operation, OpTypes
  <2>3. /\ res'.phase = res.phase /\ res'.fin = res.fin /\ res'.spec = res.spec
        /\ res'.op = Op(t, p)
    BY <1>3, <2>1, <2>2
  <2> QED
    BY <1>2, <2>1, <2>2, <2>3
<1>6. ASSUME NEW from \in LivePCs \cup DeletePCs, NEW op \in Operation, NEW to,
             Report(from, op, to),
             from \in LivePCs => op.type \in {"apply", "apply-error"},
             from \in DeletePCs => op.type \in {"delete", "delete-error"}
      PROVE  /\ res'.phase = res.phase /\ res'.fin = res.fin /\ res'.spec = res.spec
             /\ deployed' = deployed
             /\ res'.op # res.op =>
                  \/ res.phase = "live" /\ res'.op.type \in {"apply", "apply-error"}
                  \/ res.phase = "deleting" /\ res'.op.type \in {"delete", "delete-error"}
  <2>1. pc = from /\ seen' = seen /\ deployed' = deployed
    BY <1>6 DEF Report
  <2>2. CASE copy.rv = rv /\ Commit([res EXCEPT !.op = op])
    <3>1. /\ res'.phase = res.phase /\ res'.fin = res.fin /\ res'.spec = res.spec
          /\ res'.op = op
      BY <1>3, <2>1, <2>2
    <3> QED
      BY <1>2, <1>6, <2>1, <2>2, <3>1
  <2>3. CASE rv' = rv /\ log' = log
    BY <2>1, <2>3 DEF res
  <2> QED
    BY <1>6, <2>2, <2>3 DEF Report
<1>7. CASE FinishApply
  <2>1. Report("applied", Op("apply", 100), "idle")
    BY <1>7 DEF FinishApply
  <2>2. Op("apply", 100) \in Operation /\ Op("apply", 100).type = "apply"
    BY <1>1 DEF Op, Operation, OpTypes
  <2> QED
    BY <1>6, <2>1, <2>2 DEF LivePCs, DeletePCs
<1>8. CASE FinishDelete
  <2>1. Report("deleted", Op("delete", 100), "removeFinalizer")
    BY <1>8 DEF FinishDelete
  <2>2. Op("delete", 100) \in Operation /\ Op("delete", 100).type = "delete"
    BY <1>1 DEF Op, Operation, OpTypes
  <2> QED
    BY <1>6, <2>1, <2>2 DEF LivePCs, DeletePCs
<1>9. CASE ApplyError
  <2>1. Report("applyFailed", Op("apply-error", 0), "idle")
    BY <1>9 DEF ApplyError
  <2>2. Op("apply-error", 0) \in Operation /\ Op("apply-error", 0).type = "apply-error"
    BY DEF Op, Operation, OpTypes
  <2> QED
    BY <1>6, <2>1, <2>2 DEF LivePCs, DeletePCs
<1>10. CASE DeleteError
  <2>1. Report("deleteFailed", Op("delete-error", 0), "idle")
    BY <1>10 DEF DeleteError
  <2>2. Op("delete-error", 0) \in Operation /\ Op("delete-error", 0).type = "delete-error"
    BY DEF Op, Operation, OpTypes
  <2> QED
    BY <1>6, <2>1, <2>2 DEF LivePCs, DeletePCs
<1> QED
  BY <1>4, <1>5, <1>7, <1>8, <1>9, <1>10

\* What a user's write and the two finalizer updates make of the resource.
LEMMA ResourceWrites ==
    ASSUME IInv
    PROVE  /\ UserCreate => /\ res.phase = "absent" /\ res'.phase = "live"
                            /\ res'.spec \in Specs /\ Mine \notin res'.fin
                            /\ deployed' = deployed
           /\ UserUpdate => /\ res.phase # "absent" /\ res'.phase = res.phase
                            /\ res'.spec \in Specs /\ res'.fin = res.fin
                            /\ res'.op = res.op /\ deployed' = deployed
           /\ UserDelete => /\ res.phase = "live"
                            /\ res'.phase = IF res.fin = {} THEN "absent" ELSE "deleting"
                            /\ res'.spec = res.spec /\ res'.fin = res.fin
                            /\ deployed' = deployed
           /\ OtherGuards => /\ res'.phase = res.phase /\ res'.spec = res.spec
                             /\ res'.fin = res.fin \cup {Other}
                             /\ res'.op = res.op /\ deployed' = deployed
           /\ OtherReleases => /\ res.phase = "deleting" /\ res'.spec = res.spec
                               /\ res'.fin = res.fin \ {Other}
                               /\ res'.phase = IF res.fin \ {Other} = {}
                                               THEN "absent" ELSE "deleting"
                               /\ res'.op = res.op /\ deployed' = deployed
           /\ AddFinalizer => /\ res.phase = "live" /\ res'.phase = "live"
                              /\ res'.spec = res.spec /\ Mine \in res'.fin
                              /\ res'.op = res.op /\ deployed' = deployed
           /\ RemoveFinalizer => /\ res.phase = "deleting" /\ res.fin = {Mine}
                                 /\ res'.phase = "absent" /\ res'.fin = {}
                                 /\ res'.spec = res.spec
                                 /\ deployed = Nothing /\ deployed' = deployed
<1>1. /\ res \in Version
      /\ res.phase = "deleting" => res.fin # {}
  BY DEF IInv, TypeOK, LogInv, LogSettled, res
<1>2. ASSUME NEW v, UserWrite(v), Settled(v) \in Version
      PROVE  res' = Settled(v) /\ deployed' = deployed
  BY <1>2, CommitRes DEF UserWrite
<1>3. ASSUME NEW from, NEW v, NEW to, Accepted(from, v, to), Settled(v) \in Version
      PROVE  res' = Settled(v) /\ deployed' = deployed /\ pc = from /\ copy.rv = rv
  BY <1>3, CommitRes DEF Accepted
<1>4. ASSUME UserCreate
      PROVE  /\ res.phase = "absent" /\ res'.phase = "live"
             /\ res'.spec \in Specs /\ Mine \notin res'.fin /\ deployed' = deployed
  <2>1. PICK s \in Specs, f \in SUBSET {Other} :
            UserWrite([phase |-> "live", spec |-> s, fin |-> f, op |-> Op("none", 0)])
    BY <1>4 DEF UserCreate
  <2> DEFINE v == [phase |-> "live", spec |-> s, fin |-> f, op |-> Op("none", 0)]
  <2>2. Settled(v) = v /\ v \in Version /\ Mine \notin f
    BY DEF Settled, Version, Phases, Op, Operation, OpTypes, Mine, Other
  <2> QED
    BY <1>2, <1>4, <2>1, <2>2 DEF UserCreate
<1>5. ASSUME UserUpdate
      PROVE  /\ res.phase # "absent" /\ res'.phase = res.phase
             /\ res'.spec \in Specs /\ res'.fin = res.fin
             /\ res'.op = res.op /\ deployed' = deployed
  <2>1. PICK s \in Specs : UserWrite([res EXCEPT !.spec = s]) /\ res.phase # "absent"
    BY <1>5 DEF UserUpdate
  <2> DEFINE v == [res EXCEPT !.spec = s]
  <2>2. /\ Settled(v) = v /\ v \in Version /\ v.spec = s /\ v.phase = res.phase
        /\ v.fin = res.fin /\ v.op = res.op
    BY <1>1 DEF Settled, Version
  <2> QED
    BY <1>2, <2>1, <2>2
<1>6. ASSUME UserDelete
      PROVE  /\ res.phase = "live"
             /\ res'.phase = IF res.fin = {} THEN "absent" ELSE "deleting"
             /\ res'.spec = res.spec /\ res'.fin = res.fin /\ deployed' = deployed
  <2> DEFINE v == [res EXCEPT !.phase = "deleting"]
  <2>1. /\ v \in Version /\ v.spec = res.spec /\ v.fin = res.fin /\ v.phase = "deleting"
    BY <1>1 DEF Version, Phases
  <2>2. /\ Settled(v) \in Version /\ Settled(v).spec = res.spec /\ Settled(v).fin = res.fin
        /\ Settled(v).phase = IF res.fin = {} THEN "absent" ELSE "deleting"
    BY <2>1 DEF Version, Phases, Settled
  <2> QED
    BY <1>2, <1>6, <2>2 DEF UserDelete
<1>7. ASSUME OtherGuards
      PROVE  /\ res'.phase = res.phase /\ res'.spec = res.spec
             /\ res'.fin = res.fin \cup {Other}
             /\ res'.op = res.op /\ deployed' = deployed
  <2> DEFINE v == [res EXCEPT !.fin = @ \cup {Other}]
  <2>1. /\ v \in Version /\ Settled(v) = v /\ v.fin = res.fin \cup {Other}
        /\ v.spec = res.spec /\ v.phase = res.phase /\ v.op = res.op
    BY <1>1 DEF Version, Settled
  <2> QED
    BY <1>2, <1>7, <2>1 DEF OtherGuards
<1>8. ASSUME OtherReleases
      PROVE  /\ res.phase = "deleting" /\ res'.spec = res.spec
             /\ res'.fin = res.fin \ {Other}
             /\ res'.phase = IF res.fin \ {Other} = {} THEN "absent" ELSE "deleting"
             /\ res'.op = res.op /\ deployed' = deployed
  <2> DEFINE v == [res EXCEPT !.fin = @ \ {Other}]
  <2>1. /\ v \in Version /\ v.fin = res.fin \ {Other} /\ v.op = res.op
        /\ v.spec = res.spec /\ v.phase = "deleting" /\ res.phase = "deleting"
    BY <1>1, <1>8 DEF Version, OtherReleases
  <2>2. /\ Settled(v) \in Version /\ Settled(v).spec = res.spec
        /\ Settled(v).fin = v.fin /\ Settled(v).op = res.op
        /\ Settled(v).phase = IF v.fin = {} THEN "absent" ELSE "deleting"
    BY <2>1 DEF Version, Phases, Settled
  <2> QED
    BY <1>2, <1>8, <2>1, <2>2 DEF OtherReleases
<1>9. ASSUME AddFinalizer
      PROVE  /\ res.phase = "live" /\ res'.phase = "live"
             /\ res'.spec = res.spec /\ Mine \in res'.fin
             /\ res'.op = res.op /\ deployed' = deployed
  <2> DEFINE v == [res EXCEPT !.fin = @ \cup {Mine}]
  <2>1. Accepted("addFinalizer", v, "initStatus")
    BY <1>9 DEF AddFinalizer
  <2>2. res.phase = "live"
    BY <2>1 DEF Accepted, IInv, CopyInv, LivePCs
  <2>3. /\ v \in Version /\ Settled(v) = v /\ Mine \in v.fin
        /\ v.spec = res.spec /\ v.phase = "live" /\ v.op = res.op
    BY <1>1, <2>2 DEF Version, Settled
  <2> QED
    BY <1>3, <2>1, <2>2, <2>3
<1>10. ASSUME RemoveFinalizer
       PROVE  /\ res.phase = "deleting" /\ res.fin = {Mine}
              /\ res'.phase = "absent" /\ res'.fin = {} /\ res'.spec = res.spec
              /\ deployed = Nothing /\ deployed' = deployed
  <2> DEFINE v == [res EXCEPT !.fin = @ \ {Mine}]
  <2>1. Accepted("removeFinalizer", v, "idle")
    BY <1>10 DEF RemoveFinalizer
  <2>2. res.phase = "deleting" /\ res.fin = {Mine} /\ deployed = Nothing
    BY <2>1 DEF Accepted, IInv, CopyInv, WorkerInv, DeletePCs
  <2>3. v \in Version /\ v.fin = {} /\ v.phase = "deleting" /\ v.spec = res.spec
    BY <1>1, <2>2 DEF Version
  <2>4. /\ Settled(v) \in Version /\ Settled(v).fin = {}
        /\ Settled(v).phase = "absent" /\ Settled(v).spec = res.spec
    BY <2>3 DEF Version, Phases, Settled
  <2> QED
    BY <1>3, <2>1, <2>2, <2>4
<1> QED
  BY <1>4, <1>5, <1>6, <1>7, <1>8, <1>9, <1>10

-----------------------------------------------------------------------------

\* No step writes a status of the wrong phase.
LEMMA StatusStep ==
    ASSUME IInv, Next, res'.op # res.op, res'.phase = res.phase
    PROVE  IF res.phase = "deleting"
           THEN res'.op.type \in {"delete", "delete-error"}
           ELSE res'.op.type \in {"apply", "apply-error"}
<1>1. ApplyTouch \/ ApplyOk \/ DeleteTouch \/ DeleteOk => res' = res
  BY DEF ApplyTouch, ApplyOk, DeleteTouch, DeleteOk, res
<1>2. UserCreate \/ UserDelete \/ RemoveFinalizer => res'.phase # res.phase
  BY ResourceWrites
<1>3. UserUpdate \/ OtherGuards \/ OtherReleases \/ AddFinalizer => res'.op = res.op
  BY ResourceWrites
<1> QED
  BY StepCases, StatusWrites, <1>1, <1>2, <1>3

\* The status of the resource belongs to its phase: late progress callbacks of an
\* apply that goes on while the resource is being deleted never reach it.
THEOREM StatusFollowsPhaseHolds == Spec => StatusFollowsPhase
<1>1. IInv /\ [Next]_vars =>
        [res'.op # res.op /\ res'.phase = res.phase =>
           IF res.phase = "deleting"
           THEN res'.op.type \in {"delete", "delete-error"}
           ELSE res'.op.type \in {"apply", "apply-error"}]_vars
  BY StatusStep
<1> QED
  BY <1>1, Invariance, PTL DEF Spec, StatusFollowsPhase

\* Every step of the controller is a step of the life cycle or a stutter.
LEMMA LifecycleStep == IInv /\ [Next]_vars => [Lifecycle!Next]_(Lifecycle!vars)
<1> SUFFICES ASSUME IInv, [Next]_vars
             PROVE  \/ Lifecycle!Next
                    \/ /\ res'.phase = res.phase
                       /\ Guarded' <=> Guarded
                       /\ res'.spec = res.spec
                       /\ deployed' = deployed
  BY DEF Lifecycle!vars, Guarded
<1>1. /\ copy.spec \in Specs
      /\ res.phase \in Phases
      /\ res.phase = "absent" => res.fin = {}
      /\ deployed \in Specs \cup {Nothing, Partial}
  BY DEF IInv, TypeOK, LogInv, LogSettled, res, Version
<1>2. CASE UserCreate
  <2>1. /\ res.phase = "absent" /\ res'.phase = "live"
        /\ res'.spec \in Specs /\ Mine \notin res'.fin /\ deployed' = deployed
    BY <1>2, ResourceWrites
  <2>2. ~Guarded /\ ~Guarded'
    BY <2>1 DEF Guarded
  <2> QED
    BY <2>1, <2>2 DEF Lifecycle!Next, Lifecycle!Create, Guarded
<1>3. CASE UserUpdate
  <2>1. /\ res.phase # "absent" /\ res'.phase = res.phase
        /\ res'.spec \in Specs /\ res'.fin = res.fin /\ deployed' = deployed
    BY <1>3, ResourceWrites
  <2>2. Guarded' <=> Guarded
    BY <2>1 DEF Guarded
  <2> QED
    BY <2>1, <2>2 DEF Lifecycle!Next, Lifecycle!ChangeSpec
<1>4. CASE UserDelete
  <2>1. /\ res.phase = "live"
        /\ res'.phase = IF res.fin = {} THEN "absent" ELSE "deleting"
        /\ res'.spec = res.spec /\ res'.fin = res.fin /\ deployed' = deployed
    BY <1>4, ResourceWrites
  <2>2. CASE res.fin = {}
    <3>1. ~Guarded /\ ~Guarded' /\ res'.phase = "absent"
      BY <2>1, <2>2 DEF Guarded
    <3> QED
      BY <2>1, <3>1 DEF Lifecycle!Next, Lifecycle!Vanish, Guarded
  <2>3. CASE res.fin # {}
    <3>1. (Guarded' <=> Guarded) /\ res'.phase = "deleting"
      BY <2>1, <2>3 DEF Guarded
    <3> QED
      BY <2>1, <3>1 DEF Lifecycle!Next, Lifecycle!RequestDeletion
  <2> QED
    BY <2>2, <2>3
<1>5. CASE OtherGuards
  <2>1. /\ res'.phase = res.phase /\ res'.spec = res.spec
        /\ res'.fin = res.fin \cup {Other} /\ deployed' = deployed
    BY <1>5, ResourceWrites
  <2>2. Guarded' <=> Guarded
    BY <2>1 DEF Guarded, Mine, Other
  <2> QED
    BY <2>1, <2>2
<1>6. CASE OtherReleases
  <2>1. /\ res.phase = "deleting" /\ res'.spec = res.spec
        /\ res'.fin = res.fin \ {Other}
        /\ res'.phase = IF res.fin \ {Other} = {} THEN "absent" ELSE "deleting"
        /\ deployed' = deployed
    BY <1>6, ResourceWrites
  <2>2. CASE res.fin \ {Other} = {}
    <3>1. ~Guarded /\ ~Guarded' /\ res'.phase = "absent"
      BY <2>1, <2>2 DEF Guarded, Mine, Other
    <3> QED
      BY <2>1, <3>1 DEF Lifecycle!Next, Lifecycle!Vanish, Guarded
  <2>3. CASE res.fin \ {Other} # {}
    <3>1. (Guarded' <=> Guarded) /\ res'.phase = res.phase
      BY <2>1, <2>3 DEF Guarded, Mine, Other
    <3> QED
      BY <2>1, <3>1
  <2> QED
    BY <2>2, <2>3
<1>7. CASE AddFinalizer
  <2>1. /\ res.phase = "live" /\ res'.phase = "live" /\ res'.spec = res.spec
        /\ Mine \in res'.fin /\ deployed' = deployed
    BY <1>7, ResourceWrites
  <2>2. Guarded'
    BY <2>1 DEF Guarded
  <2> QED
    BY <2>1, <2>2 DEF Lifecycle!Next, Lifecycle!Guard
<1>8. CASE RemoveFinalizer
  <2>1. /\ res.phase = "deleting" /\ res.fin = {Mine}
        /\ res'.phase = "absent" /\ res'.fin = {} /\ res'.spec = res.spec
        /\ deployed = Nothing /\ deployed' = deployed
    BY <1>8, ResourceWrites
  <2>2. Guarded /\ ~Guarded'
    BY <2>1 DEF Guarded
  <2> QED
    BY <2>1, <2>2 DEF Lifecycle!Next, Lifecycle!Release
<1>9. CASE ApplyTouch \/ ApplyOk
  <2>1. /\ res' = res /\ pc = "apply" /\ deployed' \in {Partial, copy.spec}
    BY <1>9 DEF ApplyTouch, ApplyOk, res
  <2>2. Guarded
    BY <2>1 DEF IInv, WorkerInv, ApplyPCs
  <2>3. Guarded'
    BY <2>1, <2>2 DEF Guarded
  <2> QED
    BY <1>1, <2>1, <2>2, <2>3 DEF Lifecycle!Next, Lifecycle!Deploy
<1>10. CASE DeleteTouch \/ DeleteOk
  <2>1. /\ res' = res /\ pc = "delete" /\ deployed' \in {Partial, Nothing}
        /\ deployed = Nothing => deployed' = Nothing
    BY <1>10 DEF DeleteTouch, DeleteOk, res
  <2>2. Guarded' <=> Guarded
    BY <2>1 DEF Guarded
  <2>3. CASE deployed = Nothing
    BY <2>1, <2>2, <2>3
  <2>4. CASE deployed # Nothing
    <3>1. Guarded
      BY <2>4 DEF IInv, NoOrphans
    <3>2. ~LiveMine(res)
      BY <2>1 DEF IInv, TypeOK, WorkerInv, DeletePCs, res
    <3>3. res.phase = "deleting"
      BY <1>1, <3>1, <3>2 DEF Guarded, LiveMine, Phases
    <3> QED
      BY <2>1, <2>2, <3>1, <3>3 DEF Lifecycle!Next, Lifecycle!Undeploy
  <2> QED
    BY <2>3, <2>4
<1>11. CASE InitStatus \/ InitDelete \/ Progress
           \/ FinishApply \/ FinishDelete \/ ApplyError \/ DeleteError
  <2>1. /\ res'.phase = res.phase /\ res'.fin = res.fin /\ res'.spec = res.spec
        /\ deployed' = deployed
    BY <1>11, StatusWrites
  <2> QED
    BY <2>1 DEF Guarded
<1>12. CASE (rv' = rv /\ res' = res /\ deployed' = deployed) \/ UNCHANGED vars
  BY <1>12 DEF Guarded, vars, res
<1> QED
  BY StepCases, <1>2, <1>3, <1>4, <1>5, <1>6, <1>7, <1>8, <1>9, <1>10, <1>11, <1>12

\* The controller implements the life cycle it promises, for every interleaving
\* with users, for every crash and for every refused write.
THEOREM Refinement == Spec => ImplementsLifecycle
<1>1. Init => Lifecycle!Init
  <2> SUFFICES ASSUME Init PROVE Lifecycle!Init
    OBVIOUS
  <2>1. PICK s \in Specs :
            log = [i \in 0..0 |-> [phase |-> "absent", spec |-> s, fin |-> {},
                                   op |-> Op("none", 0)]]
    BY DEF Init
  <2>2. rv = 0 /\ deployed = Nothing
    BY DEF Init
  <2>3. res.phase = "absent" /\ res.spec = s
    BY <2>1, <2>2 DEF res
  <2>4. Guarded = FALSE
    BY <2>3 DEF Guarded
  <2> QED
    BY <2>2, <2>3, <2>4 DEF Lifecycle!Init
<1> QED
  BY <1>1, LifecycleStep, Invariance, PTL DEF Spec, ImplementsLifecycle, Lifecycle!Spec
=============================================================================
