----------------------------- MODULE JewelsProofs -----------------------------
(***************************************************************************)
(* Proofs about Jewels, for any jewels that sign each other and any number *)
(* of commands and failures: a content is made up once, what the templates *)
(* have used is stored, and certificates are signed by their signers.      *)
(* All but type correctness is proved of commands that run one at a time;  *)
(* two at once break it, see README.                                       *)
(* And about OsbBinding, for every catalog and any number of calls and     *)
(* refusals: no instance is taken down under a binding, and what a chart's *)
(* secret names agrees with what is at the broker.                         *)
(***************************************************************************)
EXTENDS Jewels, OsbBinding, FiniteSetTheorems, WellFoundedInduction, TLAPS

\* kdo is run by one command after the other.
OneAtATime == \E p : Procs = {p}

\* Templates see what is in memory; a delete does not read.
Memory(r) ==
    /\ \A j \in Jewels :
          /\ r.state[j] = "init" => r.data[j] = NoData
          /\ r.rendered[j] # NoData => r.rendered[j] = r.data[j]
          /\ r.op = "delete" => r.state[j] # "loaded"
    /\ r.step \in {"read", "put"} => r.op = "apply"
    /\ r.step \in {"remove", "release"} => r.op = "delete"

\* What an apply has in memory is what the secrets hold, as far as they hold anything.
Current(r, contents) ==
    /\ r.step = "read" => \A j \in Jewels :
          /\ r.data[j] # NoData => r.data[j] = contents[j]
          /\ j \notin r.todo => r.state[j] = "loaded" /\ r.data[j] = contents[j]
    /\ r.op = "apply" /\ r.step \in {"render", "write", "put"} => \A j \in Jewels :
          /\ r.state[j] # "init"
          /\ contents[j] # NoData => r.data[j] = contents[j]
    /\ r.step = "put" => \A j \in Jewels \ r.todo : contents[j] = r.data[j]
    /\ r.step = "remove" => \A j \in Jewels \ r.todo : contents[j] = NoData
    /\ r.step = "release" => \A j \in Jewels : contents[j] = NoData

\* Every certificate there is signed by its signer.
Signed(contents) ==
    \A j \in Jewels : SignerOf[j] # NoJewel /\ contents[j] # NoData =>
        /\ contents[SignerOf[j]] # NoData
        /\ contents[j].signer = contents[SignerOf[j]].id

\* As long as nothing has failed, the certificates of the cluster fit together between two
\* rounds of changes, and so do the ones an apply is about to store.
Signatures(r, contents) ==
    /\ r.step # "failed"
    /\ r.step \notin {"put", "remove"} => Signed(contents)
    /\ r.op = "apply" /\ r.step \in {"render", "write", "put"} => Signed(r.data)

\* Nothing is shown only of what a user or a broker has failed to give.
Shown(r, failed) ==
    /\ r.blank # {} => failed > 0
    /\ \A j \in r.blank : KindOf[j] \in {"config", "binding"}

Sound(r, contents, failed) ==
    /\ Memory(r)
    /\ Current(r, contents)
    /\ Shown(r, failed)
    /\ failed = 0 => Signatures(r, contents)

IInv == TypeOK /\ \A p \in Procs : Sound(proc[p], secret, faults)

-----------------------------------------------------------------------------
(* Type correctness *)

\* What TypeOK says of one command.
CommandOK(r) ==
    /\ r \in Commands
    /\ \A j \in Jewels : r.state[j] = "ready" => r.data[j] # NoData
    /\ r.step \in {"put", "remove"} => \A j \in Jewels : r.state[j] = "ready"

LEMMA TypeParts ==
    TypeOK <=> /\ secret \in [Jewels -> Data \cup {NoData}]
               /\ instances \subseteq Nat \ {0}
               /\ proc \in [Procs -> Commands]
               /\ \A p \in Procs : CommandOK(proc[p])
               /\ fresh \in Nat \ {0}
               /\ commands \in 0..MaxCommands
               /\ faults \in 0..MaxFaults
BY DEF TypeOK, CommandOK

\* A step of one command changes only its own record.
LEMMA GotoProperties ==
    ASSUME proc \in [Procs -> Commands], NEW p \in Procs, NEW r, Goto(p, r)
    PROVE  /\ proc'[p] = r /\ \A q \in Procs : q # p => proc'[q] = proc[q]
           /\ DOMAIN proc' = Procs
           /\ r \in Commands => proc' \in [Procs -> Commands]
BY DEF Goto

LEMMA GotoTypes ==
    ASSUME TypeOK, NEW p \in Procs, NEW r, CommandOK(r), Goto(p, r)
    PROVE  /\ proc' \in [Procs -> Commands] /\ \A q \in Procs : CommandOK(proc'[q])
BY GotoProperties, TypeParts DEF CommandOK

LEMMA KnownType ==
    ASSUME TypeOK, NEW p \in Procs, NEW j \in Jewels
    PROVE  Known(p, j) \in Data \cup {NoData}
BY DEF TypeOK, Commands, Known, Kept, Placeholder, Data

\* The jewel that is ensured, and the content it gets.
LEMMA EnsureProperties ==
    ASSUME TypeOK, NEW p \in Procs, NEW j \in Jewels, proc[p].state[j] # "ready", Ensure(p, j)
    PROVE  \E t \in Jewels, content \in Data :
              /\ Goto(p, SetReady(p, t, content)) /\ proc[p].state[t] # "ready"
              /\ \/ content = Known(p, t) /\ Known(p, t) # NoData /\ UNCHANGED <<instances, fresh>>
                 \/ /\ Known(p, t) = NoData /\ fresh' = fresh + 1
                    /\ instances' \in {instances, instances \cup {fresh}}
                    /\ instances' # instances => KindOf[t] = "binding"
                    /\ SignerOf[t] # NoJewel =>
                          /\ proc[p].state[SignerOf[t]] = "ready"
                          /\ content.signer = proc[p].data[SignerOf[t]].id
<1> PICK t : t = Target(p, j)
  OBVIOUS
<1>1. /\ t \in Jewels /\ proc[p].state[t] # "ready"
      /\ SignerOf[t] # NoJewel /\ Known(p, t) = NoData => proc[p].state[SignerOf[t]] = "ready"
  <2>1. CASE Waits(p, j)
    BY <2>1, ShapeAssumption DEF Target, Waits
  <2>2. CASE ~Waits(p, j)
    BY <2>2 DEF Target, Waits
  <2> QED
    BY <2>1, <2>2
<1>2. CASE Known(p, t) # NoData
  <2>1. Goto(p, SetReady(p, t, Known(p, t))) /\ UNCHANGED <<instances, fresh>>
    BY <1>2 DEF Ensure
  <2>2. Known(p, t) \in Data
    BY <1>1, <1>2, KnownType
  <2> QED
    BY <1>1, <1>2, <2>1, <2>2
<1>3. CASE Known(p, t) = NoData
  <2>1. /\ Goto(p, SetReady(p, t, MakeUp(p, t))) /\ fresh' = fresh + 1
        /\ instances' = IF KindOf[t] = "binding" THEN instances \cup {fresh} ELSE instances
    BY <1>3 DEF Ensure
  <2>2. /\ MakeUp(p, t) \in Data
        /\ SignerOf[t] # NoJewel => MakeUp(p, t).signer = proc[p].data[SignerOf[t]].id
    <3>1. CASE SignerOf[t] = NoJewel
      BY <3>1 DEF MakeUp, Data, TypeOK
    <3>2. CASE SignerOf[t] # NoJewel
      <4>1. proc[p].data[SignerOf[t]] \in Data
        BY <1>1, <1>3, <3>2, ShapeAssumption DEF TypeOK, Commands
      <4> QED
        BY <3>2, <4>1 DEF MakeUp, Data, TypeOK
    <3> QED
      BY <3>1, <3>2
  <2> QED
    BY <1>1, <1>3, <2>1, <2>2
<1> QED
  BY <1>2, <1>3

\* The record of a command that has ensured a jewel.
LEMMA SetReadyProperties ==
    ASSUME TypeOK, NEW p \in Procs, NEW t \in Jewels, NEW content \in Data,
           proc[p].step \in {"render", "write"},
           NEW r, r = SetReady(p, t, content)
    PROVE  /\ CommandOK(r)
           /\ r.step = proc[p].step /\ r.op = proc[p].op /\ r.todo = proc[p].todo
           /\ r.rendered = proc[p].rendered /\ r.blank = proc[p].blank
           /\ r.data[t] = content /\ r.state[t] = "ready"
           /\ \A j \in Jewels \ {t} : r.data[j] = proc[p].data[j] /\ r.state[j] = proc[p].state[j]
<1> PICK c : c = proc[p]
  OBVIOUS
<1>1. c \in Commands /\ CommandOK(c)
  BY TypeParts
<1>2. r = [c EXCEPT !.data = [c.data EXCEPT ![t] = content],
                    !.state = [c.state EXCEPT ![t] = "ready"]]
  BY DEF SetReady
<1>3. /\ r.step = c.step /\ r.op = c.op /\ r.todo = c.todo
      /\ r.rendered = c.rendered /\ r.blank = c.blank
      /\ r.data = [c.data EXCEPT ![t] = content] /\ r.state = [c.state EXCEPT ![t] = "ready"]
      /\ r \in Commands
  <2> DEFINE data == [c.data EXCEPT ![t] = content]
             state == [c.state EXCEPT ![t] = "ready"]
  <2>1. data \in [Jewels -> Data \cup {NoData}] /\ state \in [Jewels -> {"init", "loaded", "ready"}]
    BY <1>1 DEF Commands
  <2> HIDE DEF data, state
  <2>2. r = [c EXCEPT !.data = data, !.state = state]
    BY <1>2 DEF data, state
  <2>3. /\ r.step = c.step /\ r.op = c.op /\ r.todo = c.todo
      /\ r.rendered = c.rendered /\ r.blank = c.blank
        /\ r.data = data /\ r.state = state /\ r \in Commands
    BY <1>1, <2>1, <2>2 DEF Commands
  <2> QED
    BY <2>3 DEF data, state
<1>4. /\ r.data[t] = content /\ r.state[t] = "ready"
      /\ \A j \in Jewels \ {t} : r.data[j] = c.data[j] /\ r.state[j] = c.state[j]
  BY <1>1, <1>3 DEF Commands
<1>5. CommandOK(r)
  BY <1>1, <1>3, <1>4, NothingAssumption DEF CommandOK
<1> QED
  BY <1>3, <1>4, <1>5

\* Records that an action gives a command.
LEMMA FailedOK ==
    ASSUME TypeOK, NEW p \in Procs
    PROVE  CommandOK([proc[p] EXCEPT !.step = "failed", !.todo = {}])
<1> PICK c, r : c = proc[p] /\ r = [c EXCEPT !.step = "failed", !.todo = {}]
  OBVIOUS
<1>1. c \in Commands /\ \A j \in Jewels : c.state[j] = "ready" => c.data[j] # NoData
  BY TypeParts DEF CommandOK
<1>2. r \in Commands /\ r.step = "failed" /\ r.state = c.state /\ r.data = c.data
  BY <1>1 DEF Commands, Steps
<1> QED
  BY <1>1, <1>2 DEF CommandOK

LEMMA StartOK ==
    ASSUME NEW op \in {"apply", "delete"}
    PROVE  CommandOK([Command0 EXCEPT !.op = op, !.todo = Jewels,
                         !.step = IF op = "apply" THEN "read" ELSE "render"])
BY DEF CommandOK, Commands, Command0, Steps

LEMMA StepTypes ==
    ASSUME TypeOK, NEW p \in Procs, Step(p)
    PROVE  TypeOK'
<1> DEFINE Rest == /\ secret' \in [Jewels -> Data \cup {NoData}]
                   /\ instances' \subseteq Nat \ {0}
                   /\ fresh' \in Nat \ {0}
                   /\ commands' \in 0..MaxCommands
                   /\ faults' \in 0..MaxFaults
<1>1. ASSUME NEW r, CommandOK(r), Goto(p, r), Rest
      PROVE  TypeOK'
  <2>1. proc' \in [Procs -> Commands] /\ \A q \in Procs : CommandOK(proc'[q])
    BY <1>1, GotoTypes
  <2> QED
    BY <1>1, <2>1 DEF TypeOK, CommandOK
<1>2. /\ secret \in [Jewels -> Data \cup {NoData}] /\ instances \subseteq Nat \ {0}
      /\ fresh \in Nat \ {0} /\ commands \in 0..MaxCommands /\ faults \in 0..MaxFaults
      /\ proc[p] \in Commands /\ CommandOK(proc[p])
  BY TypeParts
<1>3. \A r : Goto(p, r) => proc'[p] = r
  BY GotoProperties, TypeParts
<1>4. CASE Start(p)
  <2>1. PICK op \in {"apply", "delete"} :
           Goto(p, [Command0 EXCEPT !.op = op, !.todo = Jewels,
                      !.step = IF op = "apply" THEN "read" ELSE "render"])
    BY <1>4, ShapeAssumption DEF Start
  <2>2. CommandOK([Command0 EXCEPT !.op = op, !.todo = Jewels,
                      !.step = IF op = "apply" THEN "read" ELSE "render"])
    BY StartOK
  <2>3. Rest
    BY <1>2, <1>4, BoundsAssumption DEF Start
  <2> QED
    BY <1>1, <2>1, <2>2, <2>3
<1>5. CASE Read(p)
  <2>1. PICK j, r :
           /\ j \in Jewels
           /\ Goto(p, r)
           /\ r = [proc[p] EXCEPT !.todo = @ \ {j}, !.state[j] = "loaded",
                      !.data[j] = IF secret[j] = NoData THEN @ ELSE secret[j]]
    BY <1>2, <1>5 DEF Read, Commands
  <2>2. CommandOK(r)
    BY <1>2, <1>5, <2>1 DEF CommandOK, Commands, Read, At
  <2>3. Rest
    BY <1>2, <1>5 DEF Read
  <2> QED
    BY <1>1, <2>1, <2>2, <2>3
<1>6. CASE ReadFails(p) \/ ClusterFails(p)
  <2>1. CommandOK([proc[p] EXCEPT !.step = "failed", !.todo = {}])
    BY FailedOK
  <2>2. Rest /\ Goto(p, [proc[p] EXCEPT !.step = "failed", !.todo = {}])
    BY <1>2, <1>6, BoundsAssumption DEF ReadFails, ClusterFails, Failing
  <2> QED
    BY <1>1, <2>1, <2>2
<1>7. CASE AllRead(p)
  <2>1. CommandOK([proc[p] EXCEPT !.step = "render"])
    BY <1>2 DEF CommandOK, Commands, Steps
  <2> QED
    BY <1>1, <1>2, <1>7, <2>1 DEF AllRead
<1>8. CASE EnsureForTemplate(p) \/ EnsureForSecret(p)
  <2>1. PICK j \in Jewels : proc[p].state[j] # "ready" /\ Ensure(p, j)
    BY <1>8 DEF EnsureForTemplate, EnsureForSecret
  <2>2. PICK t \in Jewels, content \in Data :
           /\ Goto(p, SetReady(p, t, content))
           /\ instances' = instances \/ instances' = instances \cup {fresh}
           /\ fresh' = fresh \/ fresh' = fresh + 1
    BY <2>1, EnsureProperties
  <2>3. CommandOK(SetReady(p, t, content))
    BY <1>8, SetReadyProperties DEF EnsureForTemplate, EnsureForSecret, At
  <2>4. UNCHANGED <<secret, commands, faults>>
    BY <1>8 DEF EnsureForTemplate, EnsureForSecret
  <2>5. instances' \subseteq Nat \ {0} /\ fresh' \in Nat \ {0}
    <3>1. fresh' \in Nat \ {0}
      BY <1>2, <2>2
    <3>2. instances' \subseteq Nat \ {0}
      BY <1>2, <2>2
    <3> QED
      BY <3>1, <3>2
  <2>6. Rest
    BY <1>2, <2>4, <2>5
  <2> QED
    BY <1>1, <2>2, <2>3, <2>6
<1>9. CASE Render(p)
  <2>1. PICK j, r :
           /\ j \in Jewels
           /\ proc[p].state[j] = "ready" /\ Goto(p, r)
           /\ r = [proc[p] EXCEPT !.rendered[j] = proc[p].data[j]]
    BY <1>9 DEF Render
  <2>2. CommandOK(r)
    BY <1>2, <2>1 DEF CommandOK, Commands
  <2>3. Rest
    BY <1>2, <1>9 DEF Render
  <2> QED
    BY <1>1, <2>1, <2>2, <2>3
<1>10. CASE Rendered(p)
  <2>1. CommandOK([proc[p] EXCEPT !.step = "write"])
    BY <1>2 DEF CommandOK, Commands, Steps
  <2> QED
    BY <1>1, <1>2, <1>10, <2>1 DEF Rendered
<1>11. CASE EnsureFails(p)
  <2>1. Rest
    BY <1>2, <1>11, BoundsAssumption DEF EnsureFails, Failing, ShowNothing
  <2>2. ASSUME NEW j \in Jewels, ShowNothing(p, j)
        PROVE  TypeOK'
    <3>1. PICK r : Goto(p, r) /\ r = [proc[p] EXCEPT !.blank = @ \cup {j}]
      BY <2>2 DEF ShowNothing
    <3>2. CommandOK(r)
      BY <1>2, <3>1 DEF CommandOK, Commands
    <3> QED
      BY <1>1, <2>1, <3>1, <3>2
  <2>3. CASE Failing(p)
    BY <1>1, <2>1, <2>3, FailedOK DEF Failing
  <2> QED
    BY <1>11, <2>2, <2>3 DEF EnsureFails
<1>12. CASE Written(p)
  <2>1. PICK r : /\ Goto(p, r)
                 /\ r = [proc[p] EXCEPT !.todo = Jewels,
                            !.step = IF proc[p].op = "apply" THEN "put" ELSE "remove"]
    BY <1>12 DEF Written
  <2>2. CommandOK(r)
    BY <1>2, <1>12, <2>1 DEF CommandOK, Commands, Steps, Written
  <2> QED
    BY <1>1, <1>2, <1>12, <2>1, <2>2 DEF Written
<1>13. CASE Put(p) \/ Remove(p) \/ Release(p)
  <2>1. PICK j, r : /\ j \in Jewels /\ Goto(p, r) /\ r = [proc[p] EXCEPT !.todo = @ \ {j}]
    BY <1>2, <1>13 DEF Put, Remove, Release, Commands
  <2>2. CommandOK(r)
    BY <1>2, <2>1 DEF CommandOK, Commands
  <2>3. Rest
    BY <1>2, <1>13 DEF Put, Remove, Release, Commands
  <2> QED
    BY <1>1, <2>1, <2>2, <2>3
<1>14. CASE Applied(p) \/ Deleted(p)
  <2>1. CommandOK([proc[p] EXCEPT !.step = "idle", !.todo = {}])
    BY <1>2 DEF CommandOK, Commands, Steps
  <2> QED
    BY <1>1, <1>2, <1>14, <2>1 DEF Applied, Deleted, Finish
<1>15. CASE ApplyAgain(p)
  <2>1. CommandOK([proc[p] EXCEPT !.step = "read", !.todo = Jewels])
    BY <1>2 DEF CommandOK, Commands, Steps
  <2> QED
    BY <1>1, <1>2, <1>15, <2>1, BoundsAssumption DEF ApplyAgain
<1>16. CASE Removed(p)
  <2>1. CommandOK([proc[p] EXCEPT !.step = "release", !.todo = Jewels])
    BY <1>2 DEF CommandOK, Commands, Steps
  <2> QED
    BY <1>1, <1>2, <1>16, <2>1 DEF Removed
<1> QED
  BY <1>4, <1>5, <1>6, <1>7, <1>8, <1>9, <1>10, <1>11, <1>12, <1>13, <1>14, <1>15, <1>16
     DEF Step

LEMMA InitTypes == Init => TypeOK
BY BoundsAssumption DEF Init, TypeOK, Commands, Command0, Steps

LEMMA TypesKept == TypeOK /\ [Next]_vars => TypeOK'
<1>1. CASE UNCHANGED vars
  BY <1>1 DEF vars, TypeOK
<1> QED
  BY <1>1, StepTypes DEF Next

\* Types hold however many commands run at once.
THEOREM TypeCorrect == Spec => []TypeOK
BY InitTypes, TypesKept, PTL DEF Spec

-----------------------------------------------------------------------------
(* One command at a time *)

\* The types of the variables, for the lemmas below.
LEMMA Types ==
    ASSUME TypeOK, NEW p \in Procs
    PROVE  /\ secret \in [Jewels -> Data \cup {NoData}]
           /\ proc[p].state \in [Jewels -> {"init", "loaded", "ready"}]
           /\ proc[p].data \in [Jewels -> Data \cup {NoData}]
           /\ proc[p].rendered \in [Jewels -> Data \cup {NoData}]
           /\ proc[p].op \in {"apply", "delete"} /\ proc[p].todo \subseteq Jewels
           /\ proc[p].step \in Steps
           /\ proc[p] \in Commands /\ CommandOK(proc[p])
           /\ faults \in Nat
BY TypeParts, BoundsAssumption DEF Commands

\* Nothing is made up for a jewel that has a secret.
LEMMA MadeUpOnce ==
    ASSUME TypeOK, NEW p \in Procs, NEW t \in Jewels, Sound(proc[p], secret, faults),
           proc[p].step \in {"render", "write"}, proc[p].state[t] # "ready"
    PROVE  /\ Known(p, t) # NoData /\ proc[p].op = "apply" => Known(p, t) = proc[p].data[t]
           /\ Known(p, t) = NoData => proc[p].data[t] = NoData
           /\ Known(p, t) = NoData /\ (proc[p].op = "apply" \/ KindOf[t] = "binding") =>
                 secret[t] = NoData
<1>1. Placeholder # NoData
  BY NothingAssumption DEF Placeholder, Data
<1>2. CASE proc[p].op = "apply"
  <2>1. proc[p].state[t] = "loaded" /\ (secret[t] # NoData => proc[p].data[t] = secret[t])
    BY <1>2, Types DEF Sound, Current
  <2> QED
    BY <1>2, <2>1 DEF Known, Kept
<1>3. CASE proc[p].op = "delete"
  <2>1. proc[p].state[t] = "init" /\ proc[p].data[t] = NoData
    BY <1>3, Types DEF Sound, Memory
  <2> QED
    BY <1>1, <1>3, <2>1 DEF Known, Kept
<1> QED
  BY <1>2, <1>3, Types

\* Ensuring a jewel.
LEMMA EnsureSound ==
    ASSUME TypeOK, NEW p \in Procs, NEW j \in Jewels, Sound(proc[p], secret, faults),
           proc[p].step \in {"render", "write"}, proc[p].state[j] # "ready", Ensure(p, j)
    PROVE  /\ Sound(proc'[p], secret, faults)
           /\ \A i \in instances' \ instances :
                 \E k \in Jewels : KindOf[k] = "binding" /\ secret[k] = NoData
<1> PICK c : c = proc[p]
  OBVIOUS
<1>1. PICK t \in Jewels, content \in Data :
         /\ Goto(p, SetReady(p, t, content)) /\ c.state[t] # "ready"
         /\ \/ content = Known(p, t) /\ Known(p, t) # NoData /\ UNCHANGED <<instances, fresh>>
            \/ /\ Known(p, t) = NoData /\ fresh' = fresh + 1
               /\ instances' \in {instances, instances \cup {fresh}}
               /\ instances' # instances => KindOf[t] = "binding"
               /\ SignerOf[t] # NoJewel =>
                     /\ c.state[SignerOf[t]] = "ready"
                     /\ content.signer = c.data[SignerOf[t]].id
  BY EnsureProperties
<1>2. PICK r : r = SetReady(p, t, content) /\ r = proc'[p]
  BY <1>1, GotoProperties, TypeParts
<1>3. /\ r.step = c.step /\ r.op = c.op /\ r.todo = c.todo
      /\ r.rendered = c.rendered /\ r.blank = c.blank
      /\ r.data[t] = content /\ r.state[t] = "ready"
      /\ \A k \in Jewels \ {t} : r.data[k] = c.data[k] /\ r.state[k] = c.state[k]
  <2> DEFINE d == SetReady(p, t, content)
  <2>1. /\ d.step = proc[p].step /\ d.op = proc[p].op /\ d.todo = proc[p].todo
        /\ d.rendered = proc[p].rendered /\ d.blank = proc[p].blank
        /\ d.data[t] = content /\ d.state[t] = "ready"
        /\ \A k \in Jewels \ {t} : d.data[k] = proc[p].data[k] /\ d.state[k] = proc[p].state[k]
    BY SetReadyProperties
  <2> QED
    BY <1>2, <2>1
<1>4. /\ c.data[t] # NoData /\ c.op = "apply" => content = c.data[t]
      /\ c.op = "delete" => c.data[t] = NoData
      /\ c.op = "apply" /\ secret[t] # NoData => content = secret[t]
  <2>1. /\ c.data[t] # NoData /\ c.op = "apply" => content = c.data[t]
    BY <1>1, MadeUpOnce
  <2>2. c.op = "delete" => c.data[t] = NoData
    BY <1>1, Types DEF Sound, Memory
  <2>3. c.op = "apply" /\ secret[t] # NoData => c.data[t] = secret[t]
    BY DEF Sound, Current
  <2> QED
    BY <2>1, <2>2, <2>3
<1>5. Memory(r)
  BY <1>1, <1>3, <1>4, Types DEF Sound, Memory
<1>6. Current(r, secret)
  BY <1>3, <1>4, Types DEF Sound, Current
<1>7. ASSUME faults = 0
      PROVE  Signatures(r, secret)
  <2>1. c.op = "apply" => Signed(r.data)
    <3> SUFFICES ASSUME c.op = "apply", NEW k \in Jewels,
                        SignerOf[k] # NoJewel, r.data[k] # NoData
                 PROVE  /\ r.data[SignerOf[k]] # NoData
                        /\ r.data[k].signer = r.data[SignerOf[k]].id
      BY <1>3 DEF Signed
    <3>1. Signed(c.data)
      BY <1>7 DEF Sound, Signatures
    <3>2. SignerOf[k] \in Jewels /\ SignerOf[SignerOf[k]] = NoJewel /\ content # NoData
      BY ShapeAssumption, NothingAssumption
    <3>3. CASE c.data[t] # NoData
      <4>1. \A i \in Jewels : r.data[i] = c.data[i]
        BY <1>3, <1>4, <3>3
      <4> QED
        BY <3>1, <3>2, <4>1 DEF Signed
    <3>4. CASE c.data[t] = NoData /\ k = t
      <4>1. Known(p, t) = NoData
        BY <3>4, <1>1, MadeUpOnce
      <4>2. SignerOf[t] # t /\ c.data[SignerOf[t]] # NoData
        BY <1>1, <3>2, <3>4, <4>1, Types DEF CommandOK
      <4>3. content.signer = c.data[SignerOf[t]].id
        BY <1>1, <3>4, <4>1
      <4> QED
        BY <1>3, <3>2, <3>4, <4>2, <4>3
    <3>5. CASE c.data[t] = NoData /\ k # t
      <4>1. SignerOf[k] # t
        BY <1>3, <3>1, <3>5 DEF Signed
      <4> QED
        BY <1>3, <3>1, <3>2, <3>5, <4>1 DEF Signed
    <3> QED
      BY <3>3, <3>4, <3>5
  <2> QED
    BY <1>3, <1>7, <2>1 DEF Sound, Signatures
<1>8. \A i \in instances' \ instances :
         \E k \in Jewels : KindOf[k] = "binding" /\ secret[k] = NoData
  <2> SUFFICES ASSUME instances' # instances
               PROVE  KindOf[t] = "binding" /\ secret[t] = NoData
    OBVIOUS
  <2>1. KindOf[t] = "binding" /\ Known(p, t) = NoData
    BY <1>1
  <2> QED
    BY <1>1, <2>1, MadeUpOnce
<1>9. Shown(r, faults)
  BY <1>3 DEF Sound, Shown
<1> QED
  BY <1>2, <1>5, <1>6, <1>7, <1>8, <1>9 DEF Sound

\* A call of the cluster or the broker that fails ends the command.
LEMMA FailedSound ==
    ASSUME TypeOK, NEW p \in Procs, Sound(proc[p], secret, faults), Failing(p), secret' = secret
    PROVE  Sound(proc'[p], secret', faults')
<1> PICK c, r : c = proc[p] /\ r = proc'[p]
  OBVIOUS
<1>1. faults' > 0 /\ faults' # 0
  BY Types DEF Failing
<1>2. r = [c EXCEPT !.step = "failed", !.todo = {}]
  BY GotoProperties, TypeParts DEF Failing
<1>3. /\ r.step = "failed" /\ r.op = c.op /\ r.state = c.state /\ r.data = c.data
      /\ r.rendered = c.rendered /\ r.blank = c.blank
  BY <1>2, Types DEF Commands
<1> QED
  BY <1>1, <1>3 DEF Sound, Memory, Current, Shown

LEMMA StartSound ==
    ASSUME TypeOK, NEW p \in Procs, Sound(proc[p], secret, faults), Start(p)
    PROVE  Sound(proc'[p], secret', faults')
<1> PICK c, r : c = proc[p] /\ r = proc'[p]
  OBVIOUS
<1>1. PICK op \in {"apply", "delete"} :
         r = [Command0 EXCEPT !.op = op, !.todo = Jewels,
                 !.step = IF op = "apply" THEN "read" ELSE "render"]
  BY ShapeAssumption, GotoProperties, TypeParts DEF Start
<1>2. /\ r.step = (IF op = "apply" THEN "read" ELSE "render") /\ r.op = op /\ r.todo = Jewels
      /\ r.blank = {}
      /\ \A j \in Jewels : r.state[j] = "init" /\ r.data[j] = NoData /\ r.rendered[j] = NoData
  BY <1>1 DEF Command0
<1>3. c.step \notin {"put", "remove"}
  BY DEF Start, At
<1>4. Memory(r) /\ Current(r, secret) /\ Shown(r, faults)
  BY <1>2 DEF Memory, Current, Shown
<1>5. faults = 0 => Signatures(r, secret)
  BY <1>2, <1>3 DEF Sound, Signatures
<1> QED
  BY <1>4, <1>5 DEF Sound, Start

LEMMA ReadSound ==
    ASSUME TypeOK, NEW p \in Procs, Sound(proc[p], secret, faults), Read(p)
    PROVE  Sound(proc'[p], secret', faults')
<1> PICK c, r : c = proc[p] /\ r = proc'[p]
  OBVIOUS
<1>1. PICK j \in Jewels :
         r = [c EXCEPT !.todo = @ \ {j}, !.state[j] = "loaded",
                 !.data[j] = IF secret[j] = NoData THEN @ ELSE secret[j]]
  BY Types, GotoProperties, TypeParts DEF Read
<1>2. /\ r.step = c.step /\ r.op = c.op /\ r.todo = c.todo \ {j}
      /\ r.rendered = c.rendered /\ r.blank = c.blank
      /\ r.state[j] = "loaded"
      /\ r.data[j] = IF secret[j] = NoData THEN c.data[j] ELSE secret[j]
      /\ \A k \in Jewels \ {j} : r.data[k] = c.data[k] /\ r.state[k] = c.state[k]
  BY <1>1, Types DEF Commands
<1>3. c.step = "read" /\ c.op = "apply"
  BY DEF Read, At, Sound, Memory
<1>4. r.data[j] = secret[j] /\ (c.data[j] # NoData => r.data[j] = c.data[j])
  BY <1>2, <1>3 DEF Sound, Current
<1>5. Memory(r)
  BY <1>2, <1>3, <1>4, Types DEF Sound, Memory
<1>6. Current(r, secret)
  BY <1>2, <1>3, <1>4, Types DEF Sound, Current
<1>7. faults = 0 => Signatures(r, secret)
  BY <1>2, <1>3 DEF Sound, Signatures
<1> QED
  BY <1>2, <1>5, <1>6, <1>7 DEF Sound, Shown, Read

\* The steps that leave what is in memory alone: r goes on where c was, with the same
\* jewels in memory.
Moves(c, r) ==
    /\ r.op = c.op /\ r.state = c.state /\ r.data = c.data
    /\ r.rendered = c.rendered /\ r.blank = c.blank

LEMMA MovesSound ==
    ASSUME TypeOK, NEW p \in Procs, Sound(proc[p], secret, faults),
           \/ AllRead(p) \/ Rendered(p) \/ Written(p) \/ Applied(p) \/ ApplyAgain(p)
           \/ Removed(p) \/ Release(p) \/ Deleted(p)
    PROVE  Sound(proc'[p], secret', faults')
<1> PICK c, r : c = proc[p] /\ r = proc'[p]
  OBVIOUS
<1>1. secret' = secret /\ faults' = faults
  BY DEF AllRead, Rendered, Written, Applied, ApplyAgain, Removed, Release, Deleted
<1> SUFFICES Sound(r, secret, faults)
  BY <1>1
<1>2. \A record : Goto(p, record) => r = record
  BY GotoProperties, TypeParts
<1>3. CASE AllRead(p)
  <2>1. r = [c EXCEPT !.step = "render"] /\ c.step = "read" /\ c.todo = {}
    BY <1>2, <1>3 DEF AllRead, At
  <2>2. Moves(c, r) /\ r.step = "render"
    BY <2>1, Types DEF Commands, Moves
  <2>3. c.op = "apply" /\ \A j \in Jewels : c.state[j] = "loaded" /\ c.data[j] = secret[j]
    BY <2>1 DEF Sound, Memory, Current
  <2>4. Memory(r) /\ Current(r, secret) /\ Shown(r, faults)
    BY <2>1, <2>2, <2>3 DEF Sound, Memory, Current, Shown, Moves
  <2>5. ASSUME faults = 0
        PROVE  Signatures(r, secret)
    <3>1. Signed(secret)
      BY <2>1, <2>5 DEF Sound, Signatures
    <3>2. Signed(c.data)
      BY <2>3, <3>1, ShapeAssumption DEF Signed
    <3> QED
      BY <2>2, <3>1, <3>2 DEF Signatures, Moves
  <2> QED
    BY <2>4, <2>5 DEF Sound
<1>4. CASE Rendered(p)
  <2>1. r = [c EXCEPT !.step = "write"] /\ c.step = "render"
    BY <1>2, <1>4 DEF Rendered, At
  <2>2. Moves(c, r) /\ r.step = "write"
    BY <2>1, Types DEF Commands, Moves
  <2> QED
    BY <2>1, <2>2 DEF Sound, Memory, Current, Shown, Signatures, Moves
<1>5. CASE Written(p)
  <2>1. /\ r = [c EXCEPT !.todo = Jewels,
                   !.step = IF c.op = "apply" THEN "put" ELSE "remove"]
        /\ c.step = "write"
    BY <1>2, <1>5 DEF Written, At
  <2>2. /\ Moves(c, r) /\ r.step = (IF c.op = "apply" THEN "put" ELSE "remove")
        /\ r.todo = Jewels
    BY <2>1, Types DEF Commands, Moves
  <2>3. c.op = "apply" \/ c.op = "delete"
    BY Types
  <2> QED
    BY <2>1, <2>2, <2>3 DEF Sound, Memory, Current, Shown, Signatures, Moves
<1>6. CASE Applied(p) \/ ApplyAgain(p)
  <2>1. c.step = "put" /\ c.todo = {}
    BY <1>6 DEF Applied, ApplyAgain, At
  <2>2. \/ r = [c EXCEPT !.step = "idle", !.todo = {}]
        \/ r = [c EXCEPT !.step = "read", !.todo = Jewels]
    BY <1>2, <1>6 DEF Applied, ApplyAgain, Finish
  <2>3. Moves(c, r) /\ (r.step = "idle" \/ (r.step = "read" /\ r.todo = Jewels))
    BY <2>2, Types DEF Commands, Moves
  <2>4. c.op = "apply" /\ \A j \in Jewels : secret[j] = c.data[j]
    BY <2>1 DEF Sound, Memory, Current
  <2>5. Memory(r) /\ Current(r, secret) /\ Shown(r, faults)
    BY <2>3, <2>4 DEF Sound, Memory, Current, Shown, Moves
  <2>6. ASSUME faults = 0
        PROVE  Signatures(r, secret)
    <3>1. Signed(c.data)
      BY <2>1, <2>4, <2>6 DEF Sound, Signatures
    <3>2. Signed(secret)
      BY <2>4, <3>1, ShapeAssumption DEF Signed
    <3> QED
      BY <2>3, <3>2 DEF Signatures
  <2> QED
    BY <2>5, <2>6 DEF Sound
<1>7. CASE Removed(p)
  <2>1. r = [c EXCEPT !.step = "release", !.todo = Jewels] /\ c.step = "remove" /\ c.todo = {}
    BY <1>2, <1>7 DEF Removed, At
  <2>2. Moves(c, r) /\ r.step = "release"
    BY <2>1, Types DEF Commands, Moves
  <2>3. c.op = "delete" /\ \A j \in Jewels : secret[j] = NoData
    BY <2>1 DEF Sound, Memory, Current
  <2> QED
    BY <2>2, <2>3 DEF Sound, Memory, Current, Shown, Signatures, Signed, Moves
<1>8. CASE Release(p) \/ Deleted(p)
  <2>1. /\ c.step = "release"
        /\ \/ r = [c EXCEPT !.step = "idle", !.todo = {}]
           \/ \E j \in c.todo : r = [c EXCEPT !.todo = @ \ {j}]
    BY <1>2, <1>8 DEF Release, Deleted, Finish, At
  <2>2. Moves(c, r) /\ (r.step = "idle" \/ r.step = "release")
    BY <2>1, Types DEF Commands, Moves
  <2> QED
    BY <2>1, <2>2 DEF Sound, Memory, Current, Shown, Signatures, Moves
<1> QED
  BY <1>3, <1>4, <1>5, <1>6, <1>7, <1>8

LEMMA RenderSound ==
    ASSUME TypeOK, NEW p \in Procs, Sound(proc[p], secret, faults), Render(p)
    PROVE  Sound(proc'[p], secret', faults')
<1> PICK c, r : c = proc[p] /\ r = proc'[p]
  OBVIOUS
<1>1. PICK j \in Jewels : r = [c EXCEPT !.rendered[j] = c.data[j]]
  BY GotoProperties, TypeParts DEF Render
<1>2. /\ r.step = c.step /\ r.op = c.op /\ r.todo = c.todo /\ r.state = c.state
      /\ r.data = c.data /\ r.rendered[j] = c.data[j] /\ r.blank = c.blank
      /\ \A k \in Jewels \ {j} : r.rendered[k] = c.rendered[k]
  BY <1>1, Types DEF Commands
<1> QED
  BY <1>2 DEF Sound, Memory, Current, Shown, Signatures, Render

LEMMA ShowNothingSound ==
    ASSUME TypeOK, NEW p \in Procs, Sound(proc[p], secret, faults), NEW j \in Jewels,
           MayFail(p, j), ShowNothing(p, j), secret' = secret
    PROVE  Sound(proc'[p], secret', faults')
<1> PICK c, r : c = proc[p] /\ r = proc'[p]
  OBVIOUS
<1>1. r = [c EXCEPT !.blank = c.blank \cup {j}]
  BY GotoProperties, TypeParts DEF ShowNothing
<1>2. /\ r.step = c.step /\ r.op = c.op /\ r.todo = c.todo /\ r.state = c.state
      /\ r.data = c.data /\ r.rendered = c.rendered /\ r.blank = c.blank \cup {j}
  BY <1>1, Types DEF Commands
<1>3. faults' > 0 /\ faults' # 0 /\ KindOf[j] \in {"config", "binding"}
  BY Types DEF ShowNothing, MayFail
<1> QED
  BY <1>2, <1>3 DEF Sound, Memory, Current, Shown

\* kubectl applies or deletes one secret after the other.
LEMMA PutSound ==
    ASSUME TypeOK, NEW p \in Procs, Sound(proc[p], secret, faults), Put(p)
    PROVE  /\ Sound(proc'[p], secret', faults')
           /\ \A j \in Jewels : secret[j] # NoData => secret'[j] = secret[j]
<1> PICK c, r : c = proc[p] /\ r = proc'[p]
  OBVIOUS
<1>1. PICK j \in Jewels : /\ secret' = [secret EXCEPT ![j] = c.data[j]]
                          /\ r = [c EXCEPT !.todo = @ \ {j}]
  BY Types, GotoProperties, TypeParts DEF Put
<1>2. Moves(c, r) /\ r.step = c.step /\ r.todo = c.todo \ {j}
  BY <1>1, Types DEF Commands, Moves
<1>3. c.step = "put" /\ c.op = "apply"
  BY DEF Put, At, Sound, Memory
<1>4. \A k \in Jewels : secret[k] # NoData => c.data[k] = secret[k]
  BY <1>3 DEF Sound, Current
<1>5. \A k \in Jewels : secret'[k] = IF k = j THEN c.data[j] ELSE secret[k]
  BY <1>1, Types
<1>6. Memory(r) /\ Current(r, secret')
  BY <1>2, <1>3, <1>4, <1>5 DEF Sound, Memory, Current, Moves
<1>7. faults = 0 => Signatures(r, secret')
  BY <1>2, <1>3 DEF Sound, Signatures, Moves
<1> QED
  BY <1>2, <1>4, <1>5, <1>6, <1>7 DEF Sound, Shown, Moves, Put

LEMMA RemoveSound ==
    ASSUME TypeOK, NEW p \in Procs, Sound(proc[p], secret, faults), Remove(p)
    PROVE  /\ Sound(proc'[p], secret', faults')
           /\ \A j \in Jewels : secret'[j] # NoData => secret'[j] = secret[j]
<1> PICK c, r : c = proc[p] /\ r = proc'[p]
  OBVIOUS
<1>1. PICK j \in Jewels : /\ secret' = [secret EXCEPT ![j] = NoData]
                          /\ r = [c EXCEPT !.todo = @ \ {j}]
  BY Types, GotoProperties, TypeParts DEF Remove
<1>2. Moves(c, r) /\ r.step = c.step /\ r.todo = c.todo \ {j}
  BY <1>1, Types DEF Commands, Moves
<1>3. c.step = "remove" /\ c.op = "delete"
  BY DEF Remove, At, Sound, Memory
<1>4. \A k \in Jewels : secret'[k] = IF k = j THEN NoData ELSE secret[k]
  BY <1>1, Types
<1>5. Memory(r) /\ Current(r, secret')
  BY <1>2, <1>3, <1>4 DEF Sound, Memory, Current, Moves
<1>6. faults = 0 => Signatures(r, secret')
  BY <1>2, <1>3 DEF Sound, Signatures, Moves
<1> QED
  BY <1>2, <1>4, <1>5, <1>6 DEF Sound, Shown, Moves, Remove

\* What a step may do to the secrets and to the instances at the broker.
SecretsKept == \A j \in Jewels : secret[j] # NoData /\ secret'[j] # NoData => secret'[j] = secret[j]

InstancesJustified ==
    \A i \in instances' \ instances :
        \E j \in Jewels : KindOf[j] = "binding" /\ secret[j] = NoData

LEMMA StepSound ==
    ASSUME TypeOK, NEW p \in Procs, Sound(proc[p], secret, faults), Step(p)
    PROVE  Sound(proc'[p], secret', faults') /\ SecretsKept /\ InstancesJustified
<1> USE DEF SecretsKept, InstancesJustified
<1>1. CASE Start(p)
  BY <1>1, StartSound DEF Start
<1>2. CASE Read(p)
  BY <1>2, ReadSound DEF Read
<1>3. CASE ReadFails(p) \/ ClusterFails(p)
  BY <1>3, FailedSound DEF ReadFails, ClusterFails
<1>4. CASE \/ AllRead(p) \/ Rendered(p) \/ Written(p) \/ Applied(p) \/ ApplyAgain(p)
           \/ Removed(p) \/ Release(p) \/ Deleted(p)
  <2>1. secret' = secret /\ instances' \subseteq instances
    BY <1>4 DEF AllRead, Rendered, Written, Applied, ApplyAgain, Removed, Release, Deleted
  <2> QED
    BY <1>4, <2>1, MovesSound
<1>5. CASE EnsureForTemplate(p) \/ EnsureForSecret(p)
  <2>1. PICK j \in Jewels : proc[p].state[j] # "ready" /\ Ensure(p, j)
    BY <1>5 DEF EnsureForTemplate, EnsureForSecret
  <2>2. proc[p].step \in {"render", "write"} /\ secret' = secret /\ faults' = faults
    BY <1>5 DEF EnsureForTemplate, EnsureForSecret, At
  <2> QED
    BY <2>1, <2>2, EnsureSound
<1>6. CASE Render(p)
  BY <1>6, RenderSound DEF Render
<1>7. CASE EnsureFails(p)
  <2>1. proc[p].step \in {"render", "write"} /\ secret' = secret
    BY <1>7 DEF EnsureFails, At
  <2>2. InstancesJustified
    <3>1. PICK j \in Jewels :
             /\ proc[p].state[j] # "ready" /\ Known(p, j) = NoData
             /\ instances' # instances => KindOf[j] = "binding"
      BY <1>7 DEF EnsureFails, MayFail
    <3> QED
      BY <2>1, <3>1, MadeUpOnce
  <2>3. CASE Failing(p)
    BY <2>1, <2>2, <2>3, FailedSound
  <2>4. ASSUME NEW j \in Jewels, MayFail(p, j), ShowNothing(p, j)
        PROVE  Sound(proc'[p], secret', faults')
    BY <2>1, <2>4, ShowNothingSound
  <2> QED
    BY <1>7, <2>2, <2>3, <2>4 DEF EnsureFails
<1>8. CASE Put(p)
  BY <1>8, PutSound DEF Put
<1>9. CASE Remove(p)
  BY <1>9, RemoveSound DEF Remove
<1> QED
  BY <1>1, <1>2, <1>3, <1>4, <1>5, <1>6, <1>7, <1>8, <1>9 DEF Step

-----------------------------------------------------------------------------
(* Theorems *)

LEMMA InitSound == Init => IInv
<1> SUFFICES ASSUME Init
             PROVE  \A p \in Procs : Sound(proc[p], secret, faults)
  BY InitTypes DEF IInv
<1>1. \A p \in Procs : proc[p] = Command0
  BY DEF Init
<1>2. Sound(Command0, secret, 0)
  BY DEF Init, Sound, Memory, Current, Shown, Signatures, Signed, Command0
<1> QED
  BY <1>1, <1>2 DEF Init

LEMMA Inductive ==
    ASSUME OneAtATime
    PROVE  IInv /\ [Next]_vars => IInv' /\ (UNCHANGED vars \/ (SecretsKept /\ InstancesJustified))
<1> SUFFICES ASSUME IInv, [Next]_vars
             PROVE  IInv' /\ (UNCHANGED vars \/ (SecretsKept /\ InstancesJustified))
  OBVIOUS
<1>1. TypeOK'
  BY TypesKept DEF IInv
<1>2. CASE UNCHANGED vars
  <2>1. \A p \in Procs : Sound(proc'[p], secret', faults')
    BY <1>2 DEF vars, IInv
  <2> QED
    BY <1>1, <1>2, <2>1 DEF IInv
<1>3. CASE Next
  <2>1. PICK p \in Procs : Step(p)
    BY <1>3 DEF Next
  <2>2. Sound(proc'[p], secret', faults') /\ SecretsKept /\ InstancesJustified
    BY <2>1, StepSound DEF IInv
  <2>3. \A q \in Procs : q = p
    BY OneAtATime DEF OneAtATime
  <2>4. \A q \in Procs : Sound(proc'[q], secret', faults')
    BY <2>2, <2>3
  <2> QED
    BY <1>1, <2>2, <2>4 DEF IInv
<1> QED
  BY <1>2, <1>3

THEOREM Invariance ==
    ASSUME OneAtATime
    PROVE  Spec => []IInv
<1>1. IInv /\ [Next]_vars => IInv'
  BY Inductive
<1> QED
  BY <1>1, InitSound, PTL DEF Spec

\* Commands that run one at a time store what their templates have used.
THEOREM RenderedIsWhatIsStored ==
    ASSUME OneAtATime
    PROVE  Spec => []RenderedIsStored
<1>1. IInv => RenderedIsStored
  BY DEF IInv, Sound, Memory, Current, Shown, RenderedIsStored, At
<1> QED
  BY <1>1, Invariance, PTL

\* Certificates fit together as long as no call has failed.
THEOREM CertificatesFitTogether ==
    ASSUME OneAtATime
    PROVE  Spec => []SignedByTheSigner
<1>1. IInv => SignedByTheSigner
  BY OneAtATime DEF OneAtATime, IInv, Sound, Signatures, Signed, SignedByTheSigner, At
<1> QED
  BY <1>1, Invariance, PTL

\* No apply replaces the content of a secret, whichever calls fail.
THEOREM ContentsAreKept ==
    ASSUME OneAtATime
    PROVE  Spec => ContentsKept
<1>1. IInv /\ [Next]_vars => [SecretsKept]_secret
  BY Inductive DEF vars
<1> QED
  BY <1>1, Invariance, PTL DEF Spec, ContentsKept, SecretsKept

\* A service instance is only provisioned for a binding that has no secret.
THEOREM InstancesAreProvisionedOnce ==
    ASSUME OneAtATime
    PROVE  Spec => ProvisionedOnce
<1>1. IInv /\ [Next]_vars => [InstancesJustified]_instances
  BY Inductive DEF vars
<1> QED
  BY <1>1, Invariance, PTL DEF Spec, ProvisionedOnce, InstancesJustified

-----------------------------------------------------------------------------
(* Service bindings: what is at the broker, and what the secret names *)

\* Each Apply that starts has an id of its own; the secret is about the last one, and all
\* are for the same service and plan.
IdsInOrder ==
    /\ stored # 0 => stored = id /\ offer[id] # Nothing
    /\ \A i \in Ids : i > id => instance[i] = "none"
    /\ \A i \in Ids : offer[i] # Nothing => offer[i] = Selected(catalog)
    /\ \A i \in forgotten : i <= id
    /\ pc = "provision" => instance[id] = "none"
    /\ pc \in {"provision", "pollCreate", "bind"} => id # 0 /\ id \notin forgotten

\* Only what is offered is provisioned, and only what is ready is bound.
CallsInOrder ==
    /\ pc \in {"provision", "pollCreate", "bind"} \/ stored # 0 => Offered(catalog)
    /\ pc = "bind" => instance[id] = "ready"

\* A binding is one that a secret names or has named, and its instance is not being taken
\* down.
BindingsStored ==
    \A i \in binding :
        /\ instance[i] = "ready" /\ (i = stored \/ i \in forgotten)
        /\ pc \in {"deprovision", "pollDelete"} => i # id

\* What the secret names can be used, or is released as a whole, but for the delete that
\* is releasing it.
Whole ==
    refusals = 0 /\ stored # 0 =>
        /\ pc # "panic"
        /\ pc \in {"idle", "error", "release", "unbind"} =>
              \/ stored \in binding
              \/ stored \notin binding /\ instance[stored] \in {"none", "failed"}

\* An instance that is there is named by a secret, or was, or an Apply is about it.
Accounted ==
    refusals = 0 => \A i \in Ids : instance[i] \notin {"none", "failed"} =>
        i = stored \/ i \in forgotten \/ (i = id /\ pc \in {"pollCreate", "bind"})

BindingInv ==
    /\ BindingTypeOK /\ IdsInOrder /\ CallsInOrder
    /\ BindingsStored /\ Whole /\ Accounted

-----------------------------------------------------------------------------
(* What is asked for is in the catalog *)

LEMMA LargestExists ==
    ASSUME NEW S, S \subseteq Nat, IsFiniteSet(S), S # {}
    PROVE  \E n \in S : \A m \in S : m <= n
<1> DEFINE Above(n) == {m \in S : m >= n}
           T == {Above(n) : n \in S}
<1>1. IsWellFoundedOn(StrictSubsetOrdering(S), SUBSET S)
  BY FS_StrictSubsetOrderingWellFounded, FS_FiniteSubsetsOfFinite
<1>2. T \subseteq SUBSET S /\ T # {}
  OBVIOUS
<1>3. PICK U \in T : \A V \in T : <<V, U>> \notin StrictSubsetOrdering(S)
  <2> HIDE DEF T
  <2> QED
    BY <1>1, <1>2, WFMin
<1>4. PICK n \in S : U = Above(n)
  BY <1>3
<1>5. ASSUME NEW m \in S, ~(m <= n)
      PROVE  FALSE
  <2>1. m \in Nat /\ n \in Nat /\ m > n
    BY <1>5
  <2>2. n \in Above(n) /\ n \notin Above(m)
    BY <2>1
  <2>3. Above(m) \subseteq Above(n)
    <3> SUFFICES ASSUME NEW x \in Above(m)
                 PROVE  x \in Above(n)
      OBVIOUS
    <3>1. x \in S /\ x \in Nat /\ x >= m
      OBVIOUS
    <3>2. x >= n
      BY <2>1, <3>1
    <3> QED
      BY <3>1, <3>2
  <2>4. Above(m) \in T /\ Above(m) \subseteq S /\ Above(n) \subseteq S
    OBVIOUS
  <2> HIDE DEF Above, T
  <2>5. <<Above(m), Above(n)>> \in StrictSubsetOrdering(S)
    BY <2>2, <2>3, <2>4 DEF StrictSubsetOrdering
  <2> QED
    BY <1>3, <1>4, <2>4, <2>5
<1> QED
  BY <1>5

LEMMA SelectedIsOffered ==
    ASSUME NEW c \in Catalogs, Offered(c)
    PROVE  Selected(c) \in Offers
<1> DEFINE having == {n \in Named(c) : \E m \in DOMAIN c[n].plans : c[n].plans[m] = Plan}
           last == CHOOSE n \in having : \A m \in having : m <= n
<1>1. c \in Seq([name: Services, plans: Seq(Plans)])
  BY CatalogAssumption
<1>2. PICK l \in Nat : l = Len(c) /\ DOMAIN c = 1..l
  BY <1>1
<1>3. \A n \in 1..l : c[n] \in [name: Services, plans: Seq(Plans)]
  <2>1. \A Entries : c \in Seq(Entries) => \A n \in 1..l : c[n] \in Entries
    BY <1>2
  <2> QED
    BY <1>1, <2>1
<1>4. having # {} /\ having \subseteq 1..l
  BY <1>2 DEF Offered, Named
<1>5. IsFiniteSet(having) /\ having \subseteq Nat
  <2>1. IsFiniteSet(1..l)
    BY FS_Interval
  <2> QED
    BY <1>4, <2>1, FS_Subset
<1>6. last \in having
  <2>1. \E n \in having : \A m \in having : m <= n
    <3> HIDE DEF having
    <3> QED
      BY <1>4, <1>5, LargestExists
  <2> HIDE DEF having
  <2> QED
    BY <2>1
<1>7. Last(c).name \in Services
  <2>1. l \in 1..l
    BY <1>4
  <2> QED
    BY <1>2, <1>3, <2>1 DEF Last
<1>8. Last(c[last].plans) \in Plans
  <2>1. last \in 1..l /\ c[last].plans \in Seq(Plans)
    BY <1>3, <1>4, <1>6
  <2>2. DOMAIN c[last].plans # {}
    BY <1>6
  <2>3. PICK plans : plans = c[last].plans
    OBVIOUS
  <2> HIDE DEF last
  <2>4. PICK k \in Nat : k = Len(plans) /\ DOMAIN plans = 1..k
    BY <2>1, <2>3
  <2>5. k \in 1..k
    BY <2>2, <2>3, <2>4
  <2>6. plans[k] \in Plans
    BY <2>1, <2>3, <2>4, <2>5
  <2> QED
    BY <2>3, <2>4, <2>6 DEF Last
<1> QED
  BY <1>7, <1>8 DEF Selected, Offers

\* What is listed last is selected.
LEMMA LastIsSelected ==
    ASSUME NEW c \in Catalogs, Offered(c), ListedLast(c)
    PROVE  Selected(c) = [service |-> Service, plan |-> Plan]
<1> DEFINE having == {n \in Named(c) : \E m \in DOMAIN c[n].plans : c[n].plans[m] = Plan}
           last == CHOOSE n \in having : \A m \in having : m <= n
<1>1. c \in Seq([name: Services, plans: Seq(Plans)])
  BY CatalogAssumption
<1>2. PICK l \in Nat : l = Len(c) /\ DOMAIN c = 1..l
  BY <1>1
<1>3. having \subseteq 1..l /\ l \in 1..l
  BY <1>2 DEF Offered, Named
<1>4. l \in having
  <2>1. c[l] \in [name: Services, plans: Seq(Plans)]
    <3>1. \A Entries : c \in Seq(Entries) => \A n \in 1..l : c[n] \in Entries
      BY <1>2
    <3> QED
      BY <1>1, <1>3, <3>1
  <2>2. PICK plans : plans = c[l].plans /\ plans \in Seq(Plans) /\ plans # <<>>
    BY <1>2, <2>1 DEF ListedLast, Last
  <2>3. Len(plans) \in DOMAIN plans /\ plans[Len(plans)] = Plan
    BY <1>2, <2>2 DEF ListedLast, Last
  <2>4. l \in Named(c)
    BY <1>2, <1>3 DEF ListedLast, Last, Named
  <2> QED
    BY <2>2, <2>3, <2>4
<1>5. last \in having /\ l <= last
  <2>1. \A m \in having : m <= l
    BY <1>3
  <2> HIDE DEF having
  <2> QED
    BY <1>4, <2>1
<1>6. last = l
  <2> HIDE DEF last, having
  <2> QED
    BY <1>3, <1>5
<1> QED
  BY <1>2, <1>6 DEF Selected, ListedLast, Last

-----------------------------------------------------------------------------
(* The invariant *)

LEMMA InitInvariant == BindingInit => BindingInv
BY BindingBounds DEF BindingInit, BindingInv, BindingTypeOK, Ids, BindingSteps, IdsInOrder,
                     CallsInOrder, BindingsStored, Whole, Accounted

\* What the steps below rely on.
LEMMA BindingTypes ==
    ASSUME BindingInv
    PROVE  /\ catalog \in Catalogs
           /\ instance \in [Ids -> {"none", "creating", "ready", "failed", "deleting"}]
           /\ binding \subseteq Ids /\ forgotten \subseteq Ids \ {stored}
           /\ offer \in [Ids -> Offers \cup {Nothing}]
           /\ \A i \in Ids : instance[i] # "none" => offer[i] # Nothing
           /\ pc \in BindingSteps /\ id \in 0..MaxApplies /\ stored \in 0..MaxApplies
           /\ pc \in {"unbind", "deprovision", "pollDelete"} => stored = id /\ id # 0
           /\ pc \in {"provision", "pollCreate", "bind"} => stored = 0 /\ id # 0
           /\ refusals \in 0..MaxRefusals
           /\ \A n \in 0..MaxApplies : n # 0 => n \in Ids
           /\ Ids \subseteq Nat \ {0}
BY BindingBounds DEF BindingInv, BindingTypeOK, Ids, IdsInOrder

\* A call that the broker refuses changes nothing but where the command is.
LEMMA RefusedInvariant ==
    ASSUME BindingInv, Refused
    PROVE  BindingInv'
<1>1. refusals' # 0 /\ refusals' \in 0..MaxRefusals
  BY BindingBounds, BindingTypes DEF Refused
<1> QED
  BY <1>1 DEF Refused, BindingInv, BindingTypeOK, Ids, BindingSteps, IdsInOrder,
              CallsInOrder, BindingsStored, Whole, Accounted

LEMMA KeepInvariant ==
    ASSUME BindingInv, Keep
    PROVE  BindingInv'
BY DEF Keep, BindingInv, BindingTypeOK, Ids, BindingSteps, IdsInOrder, CallsInOrder,
       BindingsStored, Whole, Accounted

LEMMA ApplyInvariant ==
    ASSUME BindingInv, Apply
    PROVE  BindingInv'
<1>1. /\ id' = id + 1 /\ id' \in Ids /\ instance[id'] = "none" /\ stored = 0
      /\ id' \in 0..MaxApplies
  BY BindingBounds, BindingTypes DEF Apply, BindingInv, Ids, IdsInOrder
<1>2. pc' \in {"provision", "error"} /\ (pc' = "provision" => Offered(catalog))
  BY DEF Apply
<1>3. UNCHANGED <<catalog, instance, binding, offer, stored, forgotten, refusals>>
  BY DEF Apply
<1>4. BindingTypeOK'
  BY <1>1, <1>2, <1>3 DEF BindingInv, BindingTypeOK, Ids, BindingSteps
<1>5. IdsInOrder'
  <2>1. \A i \in Ids : i > id' => instance[i] = "none"
    BY <1>1, BindingTypes DEF BindingInv, IdsInOrder
  <2>2. \A i \in forgotten : i <= id' /\ i # id'
    <3>1. \A i \in forgotten : i \in Ids /\ i <= id
      BY DEF BindingInv, BindingTypeOK, IdsInOrder
    <3>2. Ids \subseteq Nat /\ id \in Nat
      BY BindingTypes
    <3>3. ASSUME NEW i \in forgotten  PROVE i <= id' /\ i # id'
      <4>1. i \in Nat /\ i <= id
        BY <3>1, <3>2
      <4>2. id' = id + 1
        BY <1>1
      <4> QED
        BY <3>2, <4>1, <4>2
    <3> QED
      BY <3>3
  <2>3. \A i \in Ids : offer[i] # Nothing => offer[i] = Selected(catalog)
    BY DEF BindingInv, IdsInOrder
  <2>4. id' # 0
    BY <1>1, BindingTypes
  <2> QED
    BY <1>1, <1>3, <2>1, <2>2, <2>3, <2>4 DEF IdsInOrder
<1>6. CallsInOrder'
  BY <1>1, <1>2, <1>3 DEF CallsInOrder
<1>7. BindingsStored' /\ Whole' /\ Accounted'
  BY <1>1, <1>2, <1>3 DEF Apply, BindingInv, BindingsStored, Whole, Accounted
<1> QED
  BY <1>4, <1>5, <1>6, <1>7 DEF BindingInv

LEMMA ProvisionInvariant ==
    ASSUME BindingInv, Provision
    PROVE  BindingInv'
<1>1. CASE Refused
  BY <1>1, RefusedInvariant
<1>2. CASE ~Refused
  <2>1. PICK async \in Async :
           /\ offer' = [offer EXCEPT ![id] = Selected(catalog)]
           /\ instance' = [instance EXCEPT ![id] = IF async THEN "creating" ELSE "ready"]
           /\ pc' = IF async THEN "pollCreate" ELSE "bind"
           /\ UNCHANGED <<catalog, binding, id, stored, forgotten, refusals>>
    BY <1>2 DEF Provision
  <2>2. /\ id \in Ids /\ instance[id] = "none" /\ Selected(catalog) \in Offers /\ stored = 0
        /\ id \notin forgotten /\ Offered(catalog) /\ id # 0
    BY SelectedIsOffered, BindingTypes DEF Provision, BindingInv, IdsInOrder, CallsInOrder
  <2>3. /\ instance'[id] \in {"creating", "ready"} /\ (pc' = "bind" => instance'[id] = "ready")
        /\ \A i \in Ids \ {id} : instance'[i] = instance[i] /\ offer'[i] = offer[i]
        /\ offer'[id] = Selected(catalog) /\ offer'[id] # Nothing
        /\ instance' \in [Ids -> {"none", "creating", "ready", "failed", "deleting"}]
        /\ offer' \in [Ids -> Offers \cup {Nothing}]
        /\ pc' \in {"pollCreate", "bind"}
    BY <2>1, <2>2, NotOffered, BindingTypes
  <2>4. BindingTypeOK'
    <3>1. \A i \in Ids : instance'[i] # "none" => offer'[i] # Nothing
      BY <2>3, BindingTypes
    <3> QED
      BY <2>1, <2>2, <2>3, <3>1, BindingTypes DEF BindingTypeOK, BindingSteps
  <2>5. IdsInOrder'
    <3>1. \A i \in Ids : i > id' => instance'[i] = "none"
      BY <2>1, <2>2, <2>3, BindingTypes DEF BindingInv, IdsInOrder
    <3>2. \A i \in Ids : offer'[i] # Nothing => offer'[i] = Selected(catalog')
      BY <2>1, <2>3 DEF BindingInv, IdsInOrder
    <3> QED
      BY <2>1, <2>2, <2>3, <3>1, <3>2 DEF BindingInv, IdsInOrder
  <2>6. CallsInOrder' /\ Whole'
    BY <2>1, <2>2, <2>3 DEF CallsInOrder, Whole
  <2>7. BindingsStored'
    BY <2>1, <2>2, <2>3, BindingTypes DEF BindingInv, BindingsStored
  <2>8. Accounted'
    BY <2>1, <2>2, <2>3 DEF Provision, BindingInv, Accounted
  <2> QED
    BY <2>4, <2>5, <2>6, <2>7, <2>8 DEF BindingInv
<1> QED
  BY <1>1, <1>2

\* A poll that is answered leaves everything at the broker as it is.
LEMMA PollInvariant ==
    ASSUME BindingInv, PollCreate \/ PollDelete
    PROVE  BindingInv'
<1>1. CASE Refused
  BY <1>1, RefusedInvariant
<1>2. CASE ~Refused
  <2>1. /\ pc \in {"pollCreate", "pollDelete"}
        /\ pc' = IF instance[id] = "failed" THEN "error" ELSE pc
        /\ UNCHANGED <<catalog, instance, binding, offer, id, stored, forgotten, refusals>>
    BY <1>2 DEF PollCreate, PollDelete
  <2>2. CASE pc' = pc
    BY <2>1, <2>2 DEF BindingInv, BindingTypeOK, IdsInOrder, CallsInOrder, BindingsStored,
                      Whole, Accounted
  <2>3. CASE pc' = "error" /\ instance[id] = "failed"
    <3>1. BindingTypeOK' /\ IdsInOrder' /\ CallsInOrder'
      BY <2>1, <2>3 DEF BindingInv, BindingTypeOK, BindingSteps, IdsInOrder, CallsInOrder
    <3>2. BindingsStored' /\ Accounted'
      BY <2>1, <2>3 DEF BindingInv, BindingsStored, Accounted
    <3>3. Whole'
      BY <2>1, <2>3, BindingTypes DEF BindingInv, BindingsStored, Whole
    <3> QED
      BY <3>1, <3>2, <3>3 DEF BindingInv
  <2> QED
    BY <2>1, <2>2, <2>3
<1> QED
  BY <1>1, <1>2

LEMMA BindInvariant ==
    ASSUME BindingInv, Bind
    PROVE  BindingInv'
<1>1. CASE Refused
  BY <1>1, RefusedInvariant
<1>2. CASE ~Refused
  <2>1. /\ pc = "bind" /\ binding' = binding \cup {id} /\ stored' = id /\ pc' = "idle"
        /\ UNCHANGED <<catalog, instance, offer, id, forgotten, refusals>>
    BY <1>2 DEF Bind
  <2>2. /\ id \in Ids /\ id # 0 /\ instance[id] = "ready" /\ stored = 0 /\ offer[id] # Nothing
        /\ id \notin forgotten /\ Offered(catalog)
    BY <2>1, BindingTypes DEF BindingInv, IdsInOrder, CallsInOrder
  <2>3. BindingTypeOK'
    BY <2>1, <2>2, BindingTypes DEF BindingTypeOK, BindingSteps
  <2>4. IdsInOrder' /\ CallsInOrder'
    BY <2>1, <2>2 DEF BindingInv, IdsInOrder, CallsInOrder
  <2>5. BindingsStored' /\ Whole'
    BY <2>1, <2>2, BindingTypes DEF BindingInv, BindingsStored, Whole
  <2>6. Accounted'
    BY <2>1, <2>2, BindingTypes DEF BindingInv, Accounted
  <2> QED
    BY <2>3, <2>4, <2>5, <2>6 DEF BindingInv
<1> QED
  BY <1>1, <1>2

LEMMA DeleteSecretInvariant ==
    ASSUME BindingInv, DeleteSecret
    PROVE  BindingInv'
<1>1. /\ pc \in {"idle", "error"} /\ stored # 0 /\ pc' \in {"release", "error"}
      /\ UNCHANGED <<catalog, instance, binding, offer, id, refusals>>
  BY DEF DeleteSecret
<1>2. CASE stored' = stored /\ forgotten' = forgotten
  BY <1>1, <1>2 DEF BindingInv, BindingTypeOK, Ids, BindingSteps, IdsInOrder, CallsInOrder,
                    BindingsStored, Whole, Accounted
<1>3. CASE stored' = 0 /\ forgotten' = forgotten \cup {stored}
  <2>1. stored \in Ids /\ stored = id /\ 0 \in 0..MaxApplies /\ 0 \notin Ids
    BY <1>1, BindingTypes, BindingBounds DEF BindingInv, IdsInOrder
  <2>2. BindingTypeOK'
    BY <1>1, <1>3, <2>1, BindingTypes DEF BindingTypeOK, BindingSteps
  <2>3. IdsInOrder'
    <3>1. \A i \in forgotten' : i <= id
      BY <1>3, <2>1, BindingTypes DEF BindingInv, IdsInOrder
    <3> QED
      BY <1>1, <1>3, <3>1 DEF BindingInv, IdsInOrder
  <2>4. CallsInOrder' /\ Whole'
    BY <1>1, <1>3 DEF CallsInOrder, Whole
  <2>5. BindingsStored' /\ Accounted'
    BY <1>1, <1>3 DEF BindingInv, BindingsStored, Accounted
  <2> QED
    BY <2>2, <2>3, <2>4, <2>5 DEF BindingInv
<1> QED
  BY <1>2, <1>3 DEF DeleteSecret

LEMMA DeleteInvariant ==
    ASSUME BindingInv, Delete
    PROVE  BindingInv'
<1>1. /\ pc = "release" /\ id' = id /\ (stored # 0 => stored = id)
      /\ pc' = IF stored = 0 THEN "idle" ELSE "unbind"
      /\ UNCHANGED <<catalog, instance, binding, offer, stored, forgotten, refusals>>
  BY DEF Delete, BindingInv, IdsInOrder
<1>2. pc' \in {"idle", "unbind"} /\ (pc' = "unbind" => stored = id /\ id # 0)
  BY <1>1
<1>3. BindingTypeOK'
  BY <1>1, <1>2, BindingTypes DEF BindingTypeOK, BindingSteps
<1> QED
  BY <1>1, <1>2, <1>3 DEF BindingInv, IdsInOrder, CallsInOrder, BindingsStored, Whole,
                          Accounted

LEMMA UnbindInvariant ==
    ASSUME BindingInv, Unbind
    PROVE  BindingInv'
<1>1. CASE Refused
  BY <1>1, RefusedInvariant
<1>2. CASE ~Refused
  <2>1. /\ pc = "unbind" /\ binding' = binding \ {id} /\ pc' = "deprovision"
        /\ UNCHANGED <<catalog, instance, offer, id, stored, forgotten, refusals>>
    BY <1>2 DEF Unbind
  <2>2. BindingTypeOK'
    BY <2>1, BindingTypes DEF BindingTypeOK, BindingSteps
  <2> QED
    BY <2>1, <2>2 DEF BindingInv, IdsInOrder, CallsInOrder, BindingsStored, Whole, Accounted
<1> QED
  BY <1>1, <1>2

LEMMA DeprovisionInvariant ==
    ASSUME BindingInv, Deprovision
    PROVE  BindingInv'
<1>1. /\ pc = "deprovision" /\ id \in Ids /\ id # 0 /\ stored = id
      /\ id \notin binding /\ offer[id] # Nothing /\ id \notin forgotten
      /\ UNCHANGED <<catalog, binding, offer, id, stored, forgotten>>
  BY BindingTypes DEF Deprovision, BindingInv, BindingsStored, IdsInOrder
<1>2. CASE /\ refusals' = refusals + 1 /\ refusals < MaxRefusals
           /\ pc' = "panic" /\ UNCHANGED instance
  <2>1. refusals' # 0 /\ refusals' \in 0..MaxRefusals
    BY <1>2, BindingBounds, BindingTypes
  <2>2. BindingTypeOK'
    BY <1>1, <1>2, <2>1, BindingTypes DEF BindingTypeOK, BindingSteps
  <2> QED
    BY <1>1, <1>2, <2>1, <2>2 DEF BindingInv, IdsInOrder, CallsInOrder, BindingsStored,
                                  Whole, Accounted
<1>3. CASE \E async \in BOOLEAN :
              /\ instance' = [instance EXCEPT ![id] = IF async THEN "deleting" ELSE "none"]
              /\ pc' = IF async THEN "pollDelete" ELSE "idle"
              /\ UNCHANGED refusals
  <2>1. /\ refusals' = refusals /\ pc' \in {"pollDelete", "idle"}
        /\ instance' \in [Ids -> {"none", "creating", "ready", "failed", "deleting"}]
        /\ \A i \in Ids \ {id} : instance'[i] = instance[i]
        /\ pc' = "idle" => instance'[id] = "none"
    BY <1>1, <1>3, BindingTypes
  <2>2. BindingTypeOK'
    <3>1. \A i \in Ids : instance'[i] # "none" => offer[i] # Nothing
      BY <1>1, <2>1, BindingTypes
    <3> QED
      BY <1>1, <2>1, <3>1, BindingTypes DEF BindingTypeOK, BindingSteps
  <2>3. IdsInOrder' /\ CallsInOrder'
    <3>1. \A i \in Ids : i > id => i # id
      BY <1>1, BindingTypes
    <3> QED
      BY <1>1, <2>1, <3>1 DEF BindingInv, IdsInOrder, CallsInOrder
  <2>4. BindingsStored' /\ Whole' /\ Accounted'
    BY <1>1, <2>1, BindingTypes DEF BindingInv, BindingsStored, Whole, Accounted
  <2> QED
    BY <2>2, <2>3, <2>4 DEF BindingInv
<1>4. Async \subseteq BOOLEAN
  BY BindingBounds
<1> QED
  BY <1>2, <1>3, <1>4 DEF Deprovision

LEMMA RestartInvariant ==
    ASSUME BindingInv, Restart
    PROVE  BindingInv'
BY DEF Restart, BindingInv, BindingTypeOK, Ids, BindingSteps, IdsInOrder, CallsInOrder,
       BindingsStored, Whole, Accounted

LEMMA BrokerInvariant ==
    ASSUME BindingInv, BrokerFinishes
    PROVE  BindingInv'
<1>1. PICK i \in Ids, s \in {"ready", "failed", "none"} :
         /\ instance[i] \in {"creating", "deleting"}
         /\ instance' = [instance EXCEPT ![i] = s]
         /\ instance[i] = "deleting" => s # "ready"
         /\ UNCHANGED <<catalog, binding, offer, pc, id, stored, forgotten, refusals>>
  BY DEF BrokerFinishes
<1>2. /\ instance'[i] = s
      /\ instance' \in [Ids -> {"none", "creating", "ready", "failed", "deleting"}]
      /\ \A k \in Ids \ {i} : instance'[k] = instance[k]
      /\ \A k \in Ids : instance'[k] # instance[k] => instance[k] \in {"creating", "deleting"}
  BY <1>1, BindingTypes
<1>3. BindingTypeOK'
  <2>1. \A k \in Ids : instance'[k] # "none" => offer[k] # Nothing
    BY <1>1, <1>2, BindingTypes
  <2> QED
    BY <1>1, <1>2, <2>1 DEF BindingInv, BindingTypeOK
<1>4. IdsInOrder' /\ CallsInOrder'
  BY <1>1, <1>2, BindingTypes DEF BindingInv, IdsInOrder, CallsInOrder
<1>5. BindingsStored' /\ Whole'
  BY <1>1, <1>2, BindingTypes DEF BindingInv, BindingsStored, Whole
<1>6. Accounted'
  BY <1>1, <1>2 DEF BindingInv, Accounted
<1> QED
  BY <1>3, <1>4, <1>5, <1>6 DEF BindingInv

LEMMA BindingInductive == BindingInv /\ [BindingNext]_bindingVars => BindingInv'
<1> SUFFICES ASSUME BindingInv, [BindingNext]_bindingVars
             PROVE  BindingInv'
  OBVIOUS
<1>1. CASE UNCHANGED bindingVars
  BY <1>1 DEF bindingVars, BindingInv, BindingTypeOK, IdsInOrder, CallsInOrder,
              BindingsStored, Whole, Accounted
<1> QED
  BY <1>1, KeepInvariant, ApplyInvariant, ProvisionInvariant, PollInvariant,
     BindInvariant, DeleteSecretInvariant, DeleteInvariant, UnbindInvariant, DeprovisionInvariant, RestartInvariant,
     BrokerInvariant DEF BindingNext, Kdo

THEOREM BindingInvariance == BindingSpec => []BindingInv
BY InitInvariant, BindingInductive, PTL DEF BindingSpec

-----------------------------------------------------------------------------
(* Theorems *)

\* Types hold for every catalog.
THEOREM BindingTypeCorrect == BindingSpec => []BindingTypeOK
<1>1. BindingInv => BindingTypeOK
  BY DEF BindingInv
<1> QED
  BY <1>1, BindingInvariance, PTL

\* No instance is taken down under a binding.
THEOREM BindingsHaveInstances == BindingSpec => []BoundInstancesExist
<1>1. BindingInv => BoundInstancesExist
  BY DEF BindingInv, BindingsStored, BoundInstancesExist
<1> QED
  BY <1>1, BindingInvariance, PTL

\* Between two commands, as long as the broker refuses nothing, the secret names what can
\* be used or is released, what the chart has asked for if it is listed last, and nothing
\* else is left but what a delete of the secret has made forgotten.
THEOREM SecretAndBrokerDoAgree == BindingSpec => []SecretAndBrokerAgree
<1>1. BindingInv => SecretAndBrokerAgree
  <2> SUFFICES ASSUME BindingInv, pc = "idle", refusals = 0
               PROVE  SecretAndBrokerAgree
    BY DEF SecretAndBrokerAgree
  <2>1. stored # 0 => \/ stored \in binding /\ instance[stored] = "ready"
                      \/ stored \notin binding /\ instance[stored] \in {"none", "failed"}
    BY DEF BindingInv, BindingsStored, Whole
  <2>2. ASSUME stored # 0, ListedLast(catalog)
        PROVE  offer[stored] = [service |-> Service, plan |-> Plan]
    <3>1. stored \in Ids /\ catalog \in Catalogs /\ Offered(catalog)
      BY <2>2, BindingTypes DEF BindingInv, CallsInOrder
    <3>2. offer[stored] = Selected(catalog)
      BY <2>2, <3>1 DEF BindingInv, IdsInOrder
    <3> QED
      BY <2>2, <3>1, <3>2, LastIsSelected
  <2>3. \A i \in Ids : instance[i] \notin {"none", "failed"} => i = stored \/ i \in forgotten
    BY DEF BindingInv, Accounted
  <2> QED
    BY <2>1, <2>2, <2>3 DEF SecretAndBrokerAgree
<1> QED
  BY <1>1, BindingInvariance, PTL
=============================================================================
