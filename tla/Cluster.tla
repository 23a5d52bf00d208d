------------------------------- MODULE Cluster -------------------------------
(***************************************************************************)
(* What the Addon and the AddonPhase controllers share: the objects in the *)
(* API server, the informer cache through which both read them, the two    *)
(* work queues, and the world around them (users, criteria sources,        *)
(* AddonValues, Argo CD).                                                  *)
(*                                                                         *)
(* One Addon, the AddonPhase of the same name and the Application of the   *)
(* same name; each is the sequence of its versions (ObjectVersions).       *)
(***************************************************************************)
EXTENDS Integers, Sequences, Conditions, ObjectVersions

CONSTANTS
    Rules,         \* rules of the AddonPhase; each adds its own selector
    Criteria,      \* criteria of those rules
    SelfCriteria,  \* criteria on the target Addon itself (source omitted): Ready
    KeepCriteria,  \* for each rule, its criteria with keep = true
    LiveCriteria,  \* for each rule, its criteria with keep = false
    ArgoFinalizer, \* spec.backend.finalizer: Argo CD deletes the workload first
    Settled,       \* start from an Addon that is deployed, not from a new one?
    Kinds,         \* bound: kinds of changes that users and the world make
    MaxVersion,    \* bound: contents the AddonValues can have
    MaxChanges,    \* bound: changes made by users and by the world
    MaxFaults      \* bound: failed API calls and restarts of the operator

ChangeKinds == {"createPhase", "deletePhase", "deleteAddon", "pause", "deleteApp",
                "criterion", "values", "inputs", "resource", "verdict"}

ASSUME ConstantsAssumption ==
    /\ SelfCriteria \subseteq Criteria
    /\ KeepCriteria \in [Rules -> SUBSET Criteria]
    /\ LiveCriteria \in [Rules -> SUBSET Criteria]
    /\ ArgoFinalizer \in BOOLEAN
    /\ Settled \in BOOLEAN
    /\ Settled => \A r \in Rules : KeepCriteria[r] \union LiveCriteria[r] # {}
    /\ Kinds \subseteq ChangeKinds
    /\ MaxVersion \in Nat \ {0}
    /\ MaxChanges \in Nat
    /\ MaxFaults \in Nat

VARIABLES
    addon, phase, app,    \* the objects: versions from cached to stored
    addonQueue, phaseQueue,   \* is the key in the controller's work queue?
    addonWorker, phaseWorker, \* the reconcile in progress, if any
    truth,      \* criteria on other objects that hold
    version,    \* contents of the AddonValues
    inputs,     \* are initDependencies met, can values be resolved?
    argo,       \* what Argo CD finds when it compares the current spec
    changes, faults,   \* used up of MaxChanges and MaxFaults
    healthyWith \* values for which Argo CD ever reported Synced and Healthy

objects == <<addon, phase, app>>
world   == <<truth, version, inputs, argo>>

-----------------------------------------------------------------------------
(* Objects. *)

\* Final Helm values: they depend on the selectors in force and on the
\* contents of the AddonValues.  The hash of values is as good as the values.
Values   == [sel : SUBSET Rules, ver : 1..MaxVersion]
NoValues == [sel |-> {}, ver |-> 0]

\* phaseSel is status.phaseValuesSelector, hash is status.valuesHash, observed
\* is status.observedPhaseValuesSelectorHash ({} stands for the empty string:
\* that is what an empty list hashes to).
Addon == [life : {"live", "deleting", "gone"}, fin : BOOLEAN, paused : BOOLEAN,
          phaseSel : SUBSET Rules, hash : Values \union {NoValues},
          observed : SUBSET Rules, synced : BOOLEAN, healthy : BOOLEAN,
          deployed : BOOLEAN, conds : Conditions]

NewAddon == [life |-> "live", fin |-> FALSE, paused |-> FALSE,
             phaseSel |-> {}, hash |-> NoValues,
             observed |-> {}, synced |-> FALSE, healthy |-> FALSE,
             deployed |-> FALSE, conds |-> NoConditions]

RuleStatus == [matched : BOOLEAN, latched : BOOLEAN, deployed : BOOLEAN]

NoRuleStatus == [matched |-> FALSE, latched |-> FALSE, deployed |-> FALSE]

Phase == [life : {"absent", "live", "deleting", "gone"}, fin : BOOLEAN,
          rules : [Rules -> RuleStatus], conds : Conditions]

NewPhase(life) == [life |-> life, fin |-> FALSE,
                   rules |-> [r \in Rules |-> NoRuleStatus], conds |-> NoConditions]

\* compared is status.sync.comparedTo, the spec the sync status speaks of.
App == [life : {"absent", "live", "deleting"}, spec : Values \union {NoValues},
        compared : Values \union {NoValues}, sync : BOOLEAN, health : BOOLEAN]

NoApp == [life |-> "absent", spec |-> NoValues, compared |-> NoValues,
          sync |-> FALSE, health |-> FALSE]

NewApp(v) == [NoApp EXCEPT !.life = "live", !.spec = v]

-----------------------------------------------------------------------------
(* The API server and the informer cache. *)

MutDeliverAddon ==
    /\ ~Current(addon)
    /\ addon' = Tail(addon)
    /\ addonQueue' = TRUE
    /\ UNCHANGED <<phase, app, phaseQueue, addonWorker, phaseWorker, world, changes, faults,
                   healthyWith>>

\* Every version of an Addon enqueues it, and its phase if there is one.
DeliverAddon ==
    /\ ~Current(addon)
    /\ addon' = Tail(addon)
    /\ addonQueue' = TRUE
    /\ phaseQueue' = (phaseQueue \/ Cached(phase).life \in {"live", "deleting"})
    /\ UNCHANGED <<phase, app, addonWorker, phaseWorker, world, changes, faults, healthyWith>>

DeliverPhase ==
    /\ ~Current(phase)
    /\ phase' = Tail(phase)
    /\ phaseQueue' = TRUE
    /\ UNCHANGED <<addon, app, addonQueue, addonWorker, phaseWorker, world,
                   changes, faults, healthyWith>>

MutDeliverApp ==
    /\ ~Current(app)
    /\ app' = Tail(app)
    /\ UNCHANGED <<addon, phase, addonQueue, phaseQueue, addonWorker, phaseWorker, world,
                   changes, faults, healthyWith>>

\* The Application is owned by the Addon.
DeliverApp ==
    /\ ~Current(app)
    /\ app' = Tail(app)
    /\ addonQueue' = TRUE
    /\ UNCHANGED <<addon, phase, phaseQueue, addonWorker, phaseWorker, world,
                   changes, faults, healthyWith>>

Deliver == DeliverAddon \/ DeliverPhase \/ DeliverApp

-----------------------------------------------------------------------------
(* Users and the world. *)

Change(kind) ==
    /\ kind \in Kinds /\ changes < MaxChanges
    /\ changes' = changes + 1
    /\ UNCHANGED <<addonWorker, phaseWorker, faults, healthyWith>>

CreatePhase ==
    /\ Stored(phase).life = "absent" /\ CanWrite(phase)
    /\ phase' = Append(phase, NewPhase("live"))
    /\ Change("createPhase")
    /\ UNCHANGED <<addon, app, addonQueue, phaseQueue, world>>

DeletePhase ==
    /\ Stored(phase).life = "live" /\ CanWrite(phase)
    /\ phase' = Append(phase, [Stored(phase) EXCEPT
                     !.life = IF Stored(phase).fin THEN "deleting" ELSE "gone"])
    /\ Change("deletePhase")
    /\ UNCHANGED <<addon, app, addonQueue, phaseQueue, world>>

DeleteAddon ==
    /\ Stored(addon).life = "live" /\ CanWrite(addon)
    /\ addon' = Append(addon, [Stored(addon) EXCEPT
                     !.life = IF Stored(addon).fin THEN "deleting" ELSE "gone"])
    /\ Change("deleteAddon")
    /\ UNCHANGED <<phase, app, addonQueue, phaseQueue, world>>

\* The annotation addons.in-cloud.io/paused.
TogglePause ==
    /\ Stored(addon).life = "live" /\ CanWrite(addon)
    /\ addon' = Append(addon, [Stored(addon) EXCEPT !.paused = ~Stored(addon).paused])
    /\ Change("pause")
    /\ UNCHANGED <<phase, app, addonQueue, phaseQueue, world>>

\* What a delete call leaves of the Application: nothing, or an object that
\* waits for Argo CD to remove the workload.
DeletedApp == IF ArgoFinalizer /\ Stored(app).life # "absent"
              THEN [Stored(app) EXCEPT !.life = "deleting"] ELSE NoApp

\* The Application is removed behind the operator's back.
DeleteAppExternally ==
    /\ Stored(app).life = "live" /\ CanWrite(app)
    /\ app' = Append(app, DeletedApp)
    /\ Change("deleteApp")
    /\ UNCHANGED <<addon, phase, addonQueue, phaseQueue, world>>

\* A source object of a criterion changes: an Addon is watched, anything else
\* is polled every phaseRequeueAfter.
FlipCriterion ==
    /\ \E c \in Criteria \ SelfCriteria :
          truth' = IF c \in truth THEN truth \ {c} ELSE truth \union {c}
    /\ phaseQueue' = TRUE
    /\ Change("criterion")
    /\ UNCHANGED <<objects, addonQueue, version, inputs, argo>>

\* An AddonValue selected by the Addon changes (FindAddonsForAddonValue).
EditValues ==
    /\ \E n \in (1..MaxVersion) \ {version} : version' = n
    /\ addonQueue' = TRUE
    /\ Change("values")
    /\ UNCHANGED <<objects, phaseQueue, truth, inputs, argo>>

\* An Addon that this one depends on changes, which enqueues its dependents
\* (findDependentAddons), or a values source does: it is watched, and an Addon
\* that could not read one looks again in a minute.
ChangeInputs ==
    /\ \E i \in {"ok", "unmet", "unresolved"} \ {inputs} : inputs' = i
    /\ addonQueue' = TRUE
    /\ Change("inputs")
    /\ UNCHANGED <<objects, phaseQueue, truth, version, argo>>

\* Another object that a criterion of a dependency reads changes: it is neither
\* watched nor looked at again.
ChangeResource ==
    /\ inputs \in {"ok", "unmet"}
    /\ inputs' = IF inputs = "ok" THEN "unmet" ELSE "ok"
    /\ Change("resource")
    /\ UNCHANGED <<objects, addonQueue, phaseQueue, truth, version, argo>>

Verdicts == [sync : BOOLEAN, health : BOOLEAN]

\* The workload in the target cluster gets better or worse.
ChangeVerdict ==
    /\ \E v \in Verdicts \ {argo} : argo' = v
    /\ Change("verdict")
    /\ UNCHANGED <<objects, addonQueue, phaseQueue, truth, version, inputs>>

UserStep ==
    \/ CreatePhase \/ DeletePhase \/ DeleteAddon \/ TogglePause
    \/ DeleteAppExternally \/ FlipCriterion \/ EditValues
    \/ ChangeInputs \/ ChangeResource \/ ChangeVerdict

-----------------------------------------------------------------------------
(* Argo CD, as far as the operator depends on it. *)

\* Argo CD compares the stored spec with the cluster and writes the sync
\* status, what it was compared to, and the health in one update.
Compared == [Stored(app) EXCEPT !.compared = Stored(app).spec,
                                !.sync = argo.sync, !.health = argo.health]

ArgoRefresh ==
    /\ Stored(app).life # "absent"
    /\ Compared # Stored(app) /\ CanWrite(app)
    /\ app' = Append(app, Compared)
    /\ healthyWith' = IF argo.sync /\ argo.health
                      THEN healthyWith \union {Stored(app).spec} ELSE healthyWith
    /\ UNCHANGED <<addon, phase, addonQueue, phaseQueue, addonWorker, phaseWorker,
                   world, changes, faults>>

\* Argo CD has removed the workload and takes its finalizer off.
ArgoFinishDelete ==
    /\ Stored(app).life = "deleting" /\ CanWrite(app)
    /\ app' = Append(app, NoApp)
    /\ UNCHANGED <<addon, phase, addonQueue, phaseQueue, addonWorker, phaseWorker,
                   world, changes, faults, healthyWith>>

ArgoStep == ArgoRefresh \/ ArgoFinishDelete

=============================================================================
