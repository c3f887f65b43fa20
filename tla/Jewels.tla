------------------------------- MODULE Jewels -------------------------------
(***************************************************************************)
(* Jewels (pkg/kdo/jewel.go): contents a chart makes up once and keeps in  *)
(* a secret of the cluster: credentials, certificates, service bindings    *)
(* and values a user is asked for (user_credential.go, certificate.go,     *)
(* config_value.go, pkg/extensions/osb_binding.go).                        *)
(* An apply reads the secrets, makes up what is missing while it renders   *)
(* the chart, and applies the secrets together with the other objects.     *)
(***************************************************************************)
EXTENDS Naturals

CONSTANTS Procs,       \* concurrent runs of kdo on one chart
          Jewels,
          KindOf,      \* Jewels -> a member of Kinds
          SignerOf,    \* Jewels -> the certificate that signs it, or NoJewel
          NoJewel, NoData,
          Operations,  \* subset of {"apply", "delete"}
          MaxCommands, \* bound: commands run
          MaxFaults    \* bound: calls that fail

Kinds == {"credential", "config", "certificate", "binding"}

ASSUME ShapeAssumption ==
    /\ KindOf \in [Jewels -> Kinds]
    /\ SignerOf \in [Jewels -> Jewels \cup {NoJewel}]
    /\ \A j \in Jewels : SignerOf[j] # NoJewel =>
          /\ KindOf[j] = "certificate" /\ KindOf[SignerOf[j]] = "certificate"
          /\ SignerOf[SignerOf[j]] = NoJewel
    /\ Operations \subseteq {"apply", "delete"}

ASSUME BoundsAssumption == MaxCommands \in Nat /\ MaxFaults \in Nat

VARIABLES secret,     \* Jewels -> its content in the cluster, or NoData
          instances,  \* service instances at the broker, by the id of their binding
          proc,       \* Procs -> the command that runs, with the jewels in memory
          fresh,      \* the next content that nobody has seen
          commands, faults

vars == <<secret, instances, proc, fresh, commands, faults>>

\* Every content made up is told apart by an id; 0 is the placeholder a binding has
\* in a template (Template).
Placeholder == [id |-> 0, signer |-> 0]
Data == [id: Nat, signer: Nat]

ASSUME NothingAssumption == NoData \notin Data /\ NoJewel \notin Jewels

Steps == {"idle", "read", "render", "write", "put", "remove", "release", "failed"}

\* rendered: what the templates have used of each jewel, or NoData; blank: jewels of
\* which they were shown nothing.
Command0 == [step |-> "idle", op |-> "apply", todo |-> {},
             state |-> [j \in Jewels |-> "init"], data |-> [j \in Jewels |-> NoData],
             rendered |-> [j \in Jewels |-> NoData], blank |-> {}]

Commands == [step: Steps, op: {"apply", "delete"}, todo: SUBSET Jewels,
             state: [Jewels -> {"init", "loaded", "ready"}],
             data: [Jewels -> Data \cup {NoData}],
             rendered: [Jewels -> Data \cup {NoData}], blank: SUBSET Jewels]

TypeOK ==
    /\ secret \in [Jewels -> Data \cup {NoData}]
    /\ instances \subseteq Nat \ {0}
    /\ proc \in [Procs -> Commands]
    /\ \A p \in Procs :
          /\ \A j \in Jewels : proc[p].state[j] = "ready" => proc[p].data[j] # NoData
          /\ proc[p].step \in {"put", "remove"} =>
                \A j \in Jewels : proc[p].state[j] = "ready"
    /\ fresh \in Nat \ {0}
    /\ commands \in 0..MaxCommands
    /\ faults \in 0..MaxFaults

Init == /\ secret = [j \in Jewels |-> NoData]
        /\ instances = {}
        /\ proc = [p \in Procs |-> Command0]
        /\ fresh = 1
        /\ commands = 0
        /\ faults = 0

At(p, step) == proc[p].step = step
Goto(p, record) == proc' = [proc EXCEPT ![p] = record]
Finish(p, record) == Goto(p, [record EXCEPT !.step = "idle", !.todo = {}])

\* A failing call ends the command.
Failing(p) ==
    /\ faults < MaxFaults
    /\ faults' = faults + 1
    /\ Goto(p, [proc[p] EXCEPT !.step = "failed", !.todo = {}])

Start(p) ==
    /\ At(p, "idle") \/ At(p, "failed")
    /\ commands < MaxCommands
    /\ commands' = commands + 1
    /\ \E op \in Operations :
          Goto(p, [Command0 EXCEPT !.op = op, !.todo = Jewels,
                      !.step = IF op = "apply" THEN "read" ELSE "render"])
    /\ UNCHANGED <<secret, instances, fresh, faults>>

-----------------------------------------------------------------------------
(* Reading *)

\* (variant: a secret that exists is not taken over)
ReadNothing(p) ==
    /\ At(p, "read")
    /\ \E j \in proc[p].todo :
          Goto(p, [proc[p] EXCEPT !.todo = @ \ {j}, !.state[j] = "loaded"])
    /\ UNCHANGED <<secret, instances, fresh, commands, faults>>

\* read: a missing secret leaves the content that is in memory.
Read(p) ==
    /\ At(p, "read")
    /\ \E j \in proc[p].todo :
          Goto(p, [proc[p] EXCEPT !.todo = @ \ {j}, !.state[j] = "loaded",
                      !.data[j] = IF secret[j] = NoData THEN @ ELSE secret[j]])
    /\ UNCHANGED <<secret, instances, fresh, commands, faults>>

ReadFails(p) ==
    /\ At(p, "read") /\ proc[p].todo # {}
    /\ Failing(p)
    /\ UNCHANGED <<secret, instances, fresh, commands>>

\* All are read; the template method is called before the secrets are written.
AllRead(p) ==
    /\ At(p, "read") /\ proc[p].todo = {}
    /\ Goto(p, [proc[p] EXCEPT !.step = "render"])
    /\ UNCHANGED <<secret, instances, fresh, commands, faults>>

-----------------------------------------------------------------------------
(* Making up *)

SetReady(p, j, content) ==
    [proc[p] EXCEPT !.data[j] = content, !.state[j] = "ready"]

\* (variant: a binding is provisioned again with every apply)
KnownUnlessBinding(p, j) ==
    IF KindOf[j] = "binding" THEN IF proc[p].state[j] = "init" THEN Placeholder ELSE NoData
    ELSE IF proc[p].state[j] = "loaded" THEN proc[p].data[j] ELSE NoData

\* Apply of a backend keeps the content it is given.
Kept(p, j) == IF proc[p].state[j] = "loaded" THEN proc[p].data[j] ELSE NoData

\* There is nothing to make up: a content is kept, or the template of a binding that was
\* not read has its placeholder.
Known(p, j) ==
    IF KindOf[j] = "binding" /\ proc[p].state[j] = "init" THEN Placeholder ELSE Kept(p, j)

\* The signer's content is needed, and not there yet (its Attr ensures it first).
Waits(p, j) ==
    /\ SignerOf[j] # NoJewel
    /\ Known(p, j) = NoData
    /\ proc[p].state[SignerOf[j]] # "ready"

\* (variant: a certificate is signed with its own key)
MakeUpSelfSigned(p, j) == [id |-> fresh, signer |-> IF SignerOf[j] = NoJewel THEN 0 ELSE fresh]

MakeUp(p, j) ==
    [id |-> fresh, signer |-> IF SignerOf[j] = NoJewel THEN 0
                              ELSE proc[p].data[SignerOf[j]].id]

\* The jewel that is ensured for j: j itself, or the certificate that signs it.
Target(p, j) == IF Waits(p, j) THEN SignerOf[j] ELSE j

\* ensure, for j that is not ready.  A binding that is made up is a new instance.
Ensure(p, j) ==
    LET t == Target(p, j) IN
    IF Known(p, t) # NoData
    THEN Goto(p, SetReady(p, t, Known(p, t))) /\ UNCHANGED <<instances, fresh>>
    ELSE /\ Goto(p, SetReady(p, t, MakeUp(p, t)))
         /\ fresh' = fresh + 1
         /\ instances' = IF KindOf[t] = "binding" THEN instances \cup {fresh} ELSE instances

\* Attr or templateValues, in a template
EnsureForTemplate(p) ==
    /\ At(p, "render")
    /\ \E j \in Jewels : proc[p].state[j] # "ready" /\ Ensure(p, j)
    /\ UNCHANGED <<secret, commands, faults>>

Render(p) ==
    /\ At(p, "render")
    /\ \E j \in Jewels :
          /\ proc[p].state[j] = "ready" /\ proc[p].rendered[j] = NoData
          /\ Goto(p, [proc[p] EXCEPT !.rendered[j] = proc[p].data[j]])
    /\ UNCHANGED <<secret, instances, fresh, commands, faults>>

\* (variant: the jewels are read once more before they are written)
RenderedReread(p) ==
    /\ At(p, "render")
    /\ Goto(p, [proc[p] EXCEPT !.step = "write", !.data = secret,
                   !.state = [j \in Jewels |-> "loaded"]])
    /\ UNCHANGED <<secret, instances, fresh, commands, faults>>

Rendered(p) ==
    /\ At(p, "render")
    /\ Goto(p, [proc[p] EXCEPT !.step = "write"])
    /\ UNCHANGED <<secret, instances, fresh, commands, faults>>

\* write: what no template has asked for is ensured as well.
EnsureForSecret(p) ==
    /\ At(p, "write")
    /\ \E j \in Jewels : proc[p].state[j] # "ready" /\ Ensure(p, j)
    /\ UNCHANGED <<secret, commands, faults>>

\* The user is asked for a config value that is not known, and may break off; the broker
\* may fail, with or without an instance left there.
MayFail(p, j) == KindOf[j] \in {"config", "binding"} /\ Known(p, j) = NoData

\* templateValues drops the error: None takes the place of the content, and the jewel is
\* as it was, so that it may be made up later.
ShowNothing(p, j) ==
    /\ At(p, "render")
    /\ faults < MaxFaults
    /\ faults' = faults + 1
    /\ Goto(p, [proc[p] EXCEPT !.blank = @ \cup {j}])

\* Nothing has been sent to the cluster.  Attr and write report the error.
EnsureFails(p) ==
    /\ At(p, "render") \/ At(p, "write")
    /\ \E j \in Jewels :
          /\ proc[p].state[j] # "ready" /\ MayFail(p, j)
          /\ \/ UNCHANGED <<instances, fresh>>
             \/ /\ KindOf[j] = "binding"
                /\ instances' = instances \cup {fresh} /\ fresh' = fresh + 1
          /\ Failing(p) \/ ShowNothing(p, j)
    /\ UNCHANGED <<secret, commands>>

\* (variant: only what the templates asked for is made up)
WrittenUnensured(p) ==
    /\ At(p, "write")
    /\ Goto(p, [proc[p] EXCEPT !.todo = Jewels,
                   !.step = IF proc[p].op = "apply" THEN "put" ELSE "remove"])
    /\ UNCHANGED <<secret, instances, fresh, commands, faults>>

Written(p) ==
    /\ At(p, "write")
    /\ \A j \in Jewels : proc[p].state[j] = "ready"
    /\ Goto(p, [proc[p] EXCEPT !.todo = Jewels,
                   !.step = IF proc[p].op = "apply" THEN "put" ELSE "remove"])
    /\ UNCHANGED <<secret, instances, fresh, commands, faults>>

-----------------------------------------------------------------------------
(* The cluster *)

\* kubectl applies one secret after the other.
Put(p) ==
    /\ At(p, "put")
    /\ \E j \in proc[p].todo :
          /\ secret' = [secret EXCEPT ![j] = proc[p].data[j]]
          /\ Goto(p, [proc[p] EXCEPT !.todo = @ \ {j}])
    /\ UNCHANGED <<instances, fresh, commands, faults>>

Applied(p) ==
    /\ At(p, "put") /\ proc[p].todo = {}
    /\ Finish(p, proc[p])
    /\ UNCHANGED <<secret, instances, fresh, commands, faults>>

\* An apply method calls __apply a second time, with the jewels still in memory.
ApplyAgain(p) ==
    /\ At(p, "put") /\ proc[p].todo = {}
    /\ commands < MaxCommands
    /\ commands' = commands + 1
    /\ Goto(p, [proc[p] EXCEPT !.step = "read", !.todo = Jewels])
    /\ UNCHANGED <<secret, instances, fresh, faults>>

\* deleteLocal: kubectl deletes everything the template renders, the secrets too ...
Remove(p) ==
    /\ At(p, "remove")
    /\ \E j \in proc[p].todo :
          /\ secret' = [secret EXCEPT ![j] = NoData]
          /\ Goto(p, [proc[p] EXCEPT !.todo = @ \ {j}])
    /\ UNCHANGED <<instances, fresh, commands, faults>>

Removed(p) ==
    /\ At(p, "remove") /\ proc[p].todo = {}
    /\ Goto(p, [proc[p] EXCEPT !.step = "release", !.todo = Jewels])
    /\ UNCHANGED <<secret, instances, fresh, commands, faults>>

\* ... and then every binding is looked up in its secret to be released.
Release(p) ==
    /\ At(p, "release")
    /\ \E j \in proc[p].todo :
          /\ instances' = IF KindOf[j] = "binding" /\ secret[j] # NoData
                          THEN instances \ {secret[j].id} ELSE instances
          /\ Goto(p, [proc[p] EXCEPT !.todo = @ \ {j}])
    /\ UNCHANGED <<secret, fresh, commands, faults>>

Deleted(p) ==
    /\ At(p, "release") /\ proc[p].todo = {}
    /\ Finish(p, proc[p])
    /\ UNCHANGED <<secret, instances, fresh, commands, faults>>

ClusterFails(p) ==
    /\ At(p, "put") \/ At(p, "remove") \/ At(p, "release")
    /\ proc[p].todo # {}
    /\ Failing(p)
    /\ UNCHANGED <<secret, instances, fresh, commands>>

-----------------------------------------------------------------------------

Step(p) == \/ Start(p) \/ Read(p) \/ ReadFails(p) \/ AllRead(p)
           \/ EnsureForTemplate(p) \/ Render(p) \/ Rendered(p)
           \/ EnsureForSecret(p) \/ EnsureFails(p) \/ Written(p)
           \/ Put(p) \/ Applied(p) \/ ApplyAgain(p)
           \/ Remove(p) \/ Removed(p) \/ Release(p) \/ Deleted(p) \/ ClusterFails(p)

Next == \E p \in Procs : Step(p)

Spec == Init /\ [][Next]_vars

-----------------------------------------------------------------------------
(* Properties *)

\* "If you deploy your application again, the certificates will not be changed":
\* nothing but a delete replaces the content of a secret, wherever applies fail.
ContentsKept ==
    [][\A j \in Jewels : secret[j] # NoData /\ secret'[j] # NoData => secret'[j] = secret[j]]_secret

\* What templates have used is what the secrets hold once the apply is done.  Nothing is
\* shown only of what a user or a broker has failed to give; it may be stored even so.
RenderedIsStored ==
    \A p \in Procs : At(p, "put") /\ proc[p].todo = {} =>
        \A j \in Jewels :
            /\ proc[p].rendered[j] # NoData => secret[j] = proc[p].rendered[j]
            /\ j \in proc[p].blank => faults > 0 /\ KindOf[j] \in {"config", "binding"}

\* A certificate is signed by the certificate that the secret of its signer holds, as
\* long as no apply was cut short.
SignedByTheSigner ==
    faults = 0 /\ (\A p \in Procs : At(p, "idle")) =>
        \A j \in Jewels : SignerOf[j] # NoJewel /\ secret[j] # NoData =>
            secret[SignerOf[j]] # NoData /\ secret[j].signer = secret[SignerOf[j]].id

\* However often a chart is applied, an instance is only provisioned for a binding
\* that has no secret: a stored binding is never made up again.
ProvisionedOnce ==
    [][\A i \in instances' \ instances :
         \E j \in Jewels : KindOf[j] = "binding" /\ secret[j] = NoData]_instances

\* Releasing a binding gives its instance back: a chart whose secrets are deleted
\* leaves nothing at the broker.
InstancesReleased ==
    (\A p \in Procs : At(p, "idle")) /\ faults = 0 /\ (\A j \in Jewels : secret[j] = NoData) =>
        instances = {}
=============================================================================
