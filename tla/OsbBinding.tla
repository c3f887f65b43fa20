----------------------------- MODULE OsbBinding -----------------------------
(***************************************************************************)
(* A service binding and its broker (pkg/extensions/osb_binding.go): Apply *)
(* looks service and plan up in the catalog, provisions an instance, waits *)
(* for it if the broker works asynchronously, and binds it; Delete unbinds *)
(* and deprovisions.  It is called after the chart's objects were deleted, *)
(* the secret with the ids of the binding among them (pkg/kdo/chart.go).   *)
(* The broker is an Open Service Broker: external, and modelled from the   *)
(* calls made to it.                                                       *)
(***************************************************************************)
EXTENDS Naturals, Sequences, FiniteSets

CONSTANTS Service, Plan,  \* what the chart asks for
          Catalogs,       \* what the broker may offer: sequences of [name, plans]
          Nothing,
          Async,          \* whether a broker may answer that it is not done yet
          MaxApplies,     \* bound: calls of Apply, each with an instance id of its own
          MaxRefusals     \* bound: calls the broker refuses

ASSUME BindingBounds ==
    MaxApplies \in Nat /\ MaxRefusals \in Nat /\ Async \subseteq BOOLEAN

VARIABLES catalog,
          instance,  \* id -> "none", "creating", "ready", "failed" or "deleting"
          binding,   \* ids that are bound
          offer,     \* id -> the service and plan it was provisioned with
          pc, id,    \* where Apply or Delete is, and the instance it is about
          stored,    \* the id in the content the chart keeps in its secret, or 0
          forgotten, \* the ids in secrets that were deleted
          refusals

bindingVars == <<catalog, instance, binding, offer, pc, id, stored, forgotten, refusals>>

Ids == 1..MaxApplies
Services == UNION {{c[n].name : n \in DOMAIN c} : c \in Catalogs}
Plans == UNION {UNION {{c[n].plans[m] : m \in DOMAIN c[n].plans} : n \in DOMAIN c} : c \in Catalogs}

Offers == [service: Services, plan: Plans]

ASSUME CatalogAssumption == \A c \in Catalogs : c \in Seq([name: Services, plans: Seq(Plans)])
ASSUME NotOffered == Nothing \notin Offers

BindingSteps ==
    {"idle", "provision", "pollCreate", "bind", "release", "unbind", "deprovision",
     "pollDelete", "error", "panic"}

BindingTypeOK ==
    /\ catalog \in Catalogs
    /\ instance \in [Ids -> {"none", "creating", "ready", "failed", "deleting"}]
    /\ binding \subseteq Ids
    /\ offer \in [Ids -> Offers \cup {Nothing}]
    /\ \A i \in Ids : instance[i] # "none" => offer[i] # Nothing
    /\ pc \in BindingSteps
    /\ id \in 0..MaxApplies /\ stored \in 0..MaxApplies /\ forgotten \subseteq Ids \ {stored}
    /\ pc \in {"unbind", "deprovision", "pollDelete"} => stored = id /\ id # 0
    /\ pc \in {"provision", "pollCreate", "bind"} => stored = 0
    /\ refusals \in 0..MaxRefusals

BindingInit ==
    /\ catalog \in Catalogs
    /\ instance = [i \in Ids |-> "none"]
    /\ binding = {}
    /\ offer = [i \in Ids |-> Nothing]
    /\ pc = "idle" /\ id = 0 /\ stored = 0 /\ forgotten = {}
    /\ refusals = 0

-----------------------------------------------------------------------------
(* Looking up *)

Last(s) == s[Len(s)]

Named(c) == {n \in DOMAIN c : c[n].name = Service}

Offered(c) == \E n \in Named(c) : \E m \in DOMAIN c[n].plans : c[n].plans[m] = Plan

\* What the pointers to the variables of the two loops hold after them: the last
\* service of the catalog, and the last plan of the last service that has both names.
Selected(c) ==
    LET having == {n \in Named(c) : \E m \in DOMAIN c[n].plans : c[n].plans[m] = Plan}
        last == CHOOSE n \in having : \A m \in having : m <= n
    IN  [service |-> Last(c).name, plan |-> Last(c[last].plans)]

-----------------------------------------------------------------------------
(* Apply *)

Refused ==
    /\ refusals < MaxRefusals
    /\ refusals' = refusals + 1
    /\ pc' = "error"
    /\ UNCHANGED <<catalog, instance, binding, offer, id, stored, forgotten>>

\* (variant: content that is there is not looked at)
ApplyAnew ==
    /\ pc \in {"idle", "error"}
    /\ id < MaxApplies
    /\ id' = id + 1
    /\ pc' = IF Offered(catalog) THEN "provision" ELSE "error"
    /\ UNCHANGED <<catalog, instance, binding, offer, stored, forgotten, refusals>>

\* Content that is there already is returned as it is ...
Keep ==
    /\ pc \in {"idle", "error"} /\ stored # 0
    /\ pc' = "idle"
    /\ UNCHANGED <<catalog, instance, binding, offer, id, stored, forgotten, refusals>>

\* ... so that a service is only looked for without any.
Apply ==
    /\ pc \in {"idle", "error"} /\ stored = 0
    /\ id < MaxApplies
    /\ id' = id + 1
    /\ pc' = IF Offered(catalog) THEN "provision" ELSE "error"
    /\ UNCHANGED <<catalog, instance, binding, offer, stored, forgotten, refusals>>

Provision ==
    /\ pc = "provision"
    /\ \/ /\ offer' = [offer EXCEPT ![id] = Selected(catalog)]
          /\ \E async \in Async :
                /\ instance' = [instance EXCEPT ![id] = IF async THEN "creating" ELSE "ready"]
                /\ pc' = IF async THEN "pollCreate" ELSE "bind"
          /\ UNCHANGED <<catalog, binding, id, stored, forgotten, refusals>>
       \/ Refused

\* Every answer but a failure leads to the next poll: the break of the case for
\* success leaves the switch and not the loop.
PollCreate ==
    /\ pc = "pollCreate"
    /\ \/ /\ pc' = IF instance[id] = "failed" THEN "error" ELSE pc
          /\ UNCHANGED <<catalog, instance, binding, offer, id, stored, forgotten, refusals>>
       \/ Refused

\* The chart's secret is applied afterwards; it holds the ids.
Bind ==
    /\ pc = "bind"
    /\ \/ /\ binding' = binding \cup {id}
          /\ stored' = id
          /\ pc' = "idle"
          /\ UNCHANGED <<catalog, instance, offer, id, forgotten, refusals>>
       \/ Refused

-----------------------------------------------------------------------------
(* Delete *)

\* deleteLocal: the tool deletes the secret with everything else the chart renders.  An
\* error of it ends the delete; one of kapp is taken for a success, and leaves the secret.
DeleteSecret ==
    /\ pc \in {"idle", "error"} /\ stored # 0
    /\ \/ stored' = stored /\ UNCHANGED forgotten
       \/ stored' = 0 /\ forgotten' = forgotten \cup {stored}
    /\ pc' \in {"release", "error"}
    /\ UNCHANGED <<catalog, instance, binding, offer, id, refusals>>

\* (variant: the instance is deprovisioned before it is unbound)
DeleteInstanceFirst ==
    /\ pc = "release"
    /\ IF stored = 0 THEN pc' = "idle" /\ UNCHANGED id ELSE pc' = "deprovision" /\ id' = stored
    /\ UNCHANGED <<catalog, instance, binding, offer, stored, forgotten, refusals>>

\* jewel.delete: without a secret there is nothing to release.
Delete ==
    /\ pc = "release"
    /\ IF stored = 0 THEN pc' = "idle" /\ UNCHANGED id ELSE pc' = "unbind" /\ id' = stored
    /\ UNCHANGED <<catalog, instance, binding, offer, stored, forgotten, refusals>>

\* (variant: the instance is forgotten with its binding)
UnbindOnly ==
    /\ pc = "unbind"
    /\ binding' = binding \ {id}
    /\ pc' = "idle"
    /\ UNCHANGED <<catalog, instance, offer, id, stored, forgotten, refusals>>

Unbind ==
    /\ pc = "unbind"
    /\ \/ /\ binding' = binding \ {id}
          /\ pc' = "deprovision"
          /\ UNCHANGED <<catalog, instance, offer, id, stored, forgotten, refusals>>
       \/ Refused

\* The error of the call is not looked at; its response is nil then.  What is gone is
\* deprovisioned at once.
Deprovision ==
    /\ pc = "deprovision"
    /\ \/ /\ \E async \in IF instance[id] = "none" THEN {FALSE} ELSE Async :
                /\ instance' = [instance EXCEPT ![id] = IF async THEN "deleting" ELSE "none"]
                /\ pc' = IF async THEN "pollDelete" ELSE "idle"
          /\ UNCHANGED refusals
       \/ /\ refusals < MaxRefusals
          /\ refusals' = refusals + 1
          /\ pc' = "panic"
          /\ UNCHANGED instance
    /\ UNCHANGED <<catalog, binding, offer, id, stored, forgotten>>

\* The same loop.
PollDelete ==
    /\ pc = "pollDelete"
    /\ \/ /\ pc' = IF instance[id] = "failed" THEN "error" ELSE pc
          /\ UNCHANGED <<catalog, instance, binding, offer, id, stored, forgotten, refusals>>
       \/ Refused

\* kdo is started again after a panic.
Restart ==
    /\ pc = "panic"
    /\ pc' = "error"
    /\ UNCHANGED <<catalog, instance, binding, offer, id, stored, forgotten, refusals>>

-----------------------------------------------------------------------------
(* The broker *)

BrokerFinishes ==
    /\ \E i \in Ids :
          \/ /\ instance[i] = "creating"
             /\ \E s \in {"ready", "failed"} : instance' = [instance EXCEPT ![i] = s]
          \/ /\ instance[i] = "deleting"
             /\ \E s \in {"none", "failed"} : instance' = [instance EXCEPT ![i] = s]
    /\ UNCHANGED <<catalog, binding, offer, pc, id, stored, forgotten, refusals>>

Kdo == \/ Keep \/ Apply \/ Provision \/ PollCreate \/ Bind
       \/ DeleteSecret \/ Delete \/ Unbind \/ Deprovision \/ PollDelete \/ Restart

BindingNext == Kdo \/ BrokerFinishes

BindingSpec == BindingInit /\ [][BindingNext]_bindingVars

-----------------------------------------------------------------------------
(* Properties *)

\* An instance is not taken down while it is bound.
BoundInstancesExist == \A i \in binding : instance[i] \in {"ready", "failed"}

\* Nothing comes after what the chart asks for.
ListedLast(c) ==
    Last(c).name = Service /\ Last(c).plans # <<>> /\ Last(Last(c).plans) = Plan

\* Between two commands, if the broker has refused nothing: what the secret names can be
\* used, or was released as a whole, and is what the chart asks for if the catalog lists
\* nothing behind it.  No other instance is left but those of secrets that were deleted.
SecretAndBrokerAgree ==
    pc = "idle" /\ refusals = 0 =>
        /\ stored # 0 => \/ stored \in binding /\ instance[stored] = "ready"
                         \/ stored \notin binding /\ instance[stored] \in {"none", "failed"}
        /\ stored # 0 /\ ListedLast(catalog) =>
               offer[stored] = [service |-> Service, plan |-> Plan]
        /\ \A i \in Ids : instance[i] \notin {"none", "failed"} => i = stored \/ i \in forgotten
=============================================================================
