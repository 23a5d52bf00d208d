------------------------------- MODULE Rollout -------------------------------
(***************************************************************************)
(* Several Addons that depend on each other and share AddonValues.  A      *)
(* reconcile of an Addon checks its initDependencies while it has no       *)
(* Application, aggregates its values, waits until they are stable, then   *)
(* creates or updates the Application.  Finalizers, pauses, deletion and   *)
(* AddonPhases are in module Operator; here the phase controller appears   *)
(* only as the one who patches selectors into an Addon's status.           *)
(* Operators named Mut... are faulty variants of the definition that       *)
(* follows and used by no action.                                          *)
(***************************************************************************)
EXTENDS Integers, Sequences, Conditions, ObjectVersions, JsonCriteria, HelmValues

CONSTANTS
    Addons,
    Dependencies,   \* Dependencies[a]: the Addons that a names in initDependencies
    SpecSelectors,  \* SpecSelectors[a]: spec.valuesSelectors
    PhaseSelectors, \* PhaseSelectors[a]: what the AddonPhase of a adds when its rule matches
    AddonValues,    \* names of AddonValues, numbers
    Contents,       \* maps an AddonValue can hold
    Labels,         \* labels an AddonValue can have
    FirstValues,    \* the AddonValues at the beginning
    Scenarios       \* bound: criteria of the dependencies, with the kinds and the
                    \* number of changes by users and the world that go with each

ASSUME RolloutAssumption ==
    /\ Dependencies \in [Addons -> SUBSET Addons]
    /\ AddonValues \subseteq Nat
    /\ \A s \in Scenarios :
          /\ s.kinds \subseteq {"create", "selectors", "value", "relabel", "remove", "external"}
          /\ s.changes \in Nat
          /\ WellFormed(s.criterion) /\ s.criterion.source \in {"addon", "external"}

\* There are finitely many AddonValues at a time, and selectors are lists.
ASSUME ValuesAssumption ==
    /\ IsStore(FirstValues)
    /\ FirstValues = [v \in DOMAIN FirstValues |->
                         [labels |-> FirstValues[v].labels, content |-> FirstValues[v].content]]
    /\ \A m \in Contents : IsContent(m)
    /\ \A a \in Addons : IsSelectors(SpecSelectors[a]) /\ IsSelectors(PhaseSelectors[a])

VARIABLES
    addon, app,   \* versions of each Addon and of its Application
    store,        \* versions of the AddonValues, as one object
    external,     \* an object that is not an Addon: absent, or not Ready, or Ready
    scenario,     \* the criterion of every dependency, and what may change
    queue, worker,
    changes,
    fulfilled     \* Addons that have fulfilled the criterion at some time

vars == <<addon, app, store, external, scenario, queue, worker, changes, fulfilled>>

-----------------------------------------------------------------------------
(* Objects. *)

NoValues == [known |-> FALSE, values |-> EmptyMap]
Known(m) == [known |-> TRUE, values |-> m]

\* hash is status.valuesHash, good are the conditions Synced and Healthy.
NewAddon(life) == [life |-> life, phaseSel |-> <<>>, hash |-> NoValues, good |-> FALSE,
                   deployed |-> FALSE, conds |-> NoConditions]

\* good: Argo CD has compared this spec and found the workload Synced and Healthy.
NoApp    == [life |-> "absent", spec |-> NoValues, good |-> FALSE]

MutNewApp(m) == [life |-> "live", spec |-> NoValues, good |-> FALSE]

NewApp(m) == [life |-> "live", spec |-> m, good |-> FALSE]

Idle == [pc |-> "idle", old |-> NewAddon("absent"), new |-> NewAddon("absent"), requeue |-> FALSE]

\* Addon statuses only hold values that were aggregated or nothing, only live
\* Addons are at work, and the caches are at most MaxLag versions behind.
TypeOK ==
    /\ \A a \in Addons : /\ Len(addon[a]) \in 1..(MaxLag + 1) /\ Len(app[a]) \in 1..(MaxLag + 1)
                         /\ Stored(addon[a]).conds \in Conditions
                         /\ Stored(addon[a]).phaseSel \in {<<>>, PhaseSelectors[a]}
                         /\ worker[a].pc \in {"idle", "apply", "status"}
                         /\ worker[a].pc # "idle" => Stored(addon[a]).life = "live"
                         /\ Stored(app[a]).life = "live" => Stored(app[a]).spec.known
    /\ Len(store) \in 1..(MaxLag + 1) /\ scenario \in Scenarios
    /\ queue \subseteq Addons /\ changes \in 0..scenario.changes /\ fulfilled \subseteq Addons

\* The JSON of an Addon: a condition that is not there and a deployed that is
\* false select nothing.
Json(o) ==
    [p \in {"generation"}
           \union (IF o.conds = NoConditions THEN {} ELSE {"ready"})
           \union (IF o.deployed THEN {"deployed"} ELSE {}) |->
        CASE p = "generation" -> JsonNumber(1)
          [] p = "ready"      -> JsonString(IF o.conds.ready THEN "True" ELSE "False")
          [] p = "deployed"   -> JsonBool("true")]

\* What the criterion is about: the Addon depended on, or another resource.
Object(c, o) ==
    IF c.source = "addon" THEN Json(o)
    ELSE [p \in {"phase"} |-> JsonString(external)]

\* An Addon that is depended on fulfils the criterion, by the documented meaning.
Meets(c, o) ==
    /\ o.life = "live"
    /\ c.source = "external" => external # "absent"
    /\ Fulfilled(Object(c, o), c)

\* And the code does not take another view of the criterion.
SurelyMeets(c, o) == Meets(c, o) /\ ~Contested(Object(c, o), c)

Init ==
    /\ scenario \in Scenarios
    /\ addon \in [Addons -> {<<NewAddon("live")>>}
                     \union (IF "create" \in scenario.kinds THEN {<<NewAddon("absent")>>} ELSE {})]
    /\ app = [a \in Addons |-> <<NoApp>>]
    /\ store = <<FirstValues>>
    /\ external \in (IF "external" \in scenario.kinds THEN {"absent", "No"} ELSE {"absent"})
    /\ queue = {a \in Addons : Cached(addon[a]).life = "live"}
    /\ worker = [a \in Addons |-> Idle]
    /\ changes = 0
    /\ fulfilled = {a \in Addons : Meets(scenario.criterion, Stored(addon[a]))}

-----------------------------------------------------------------------------
(* Users, the phase controller, Argo CD and the informers. *)

Change(kind) ==
    /\ kind \in scenario.kinds /\ changes < scenario.changes
    /\ changes' = changes + 1
    /\ UNCHANGED <<app, scenario, queue, worker>>

CreateAddon(a) ==
    /\ Stored(addon[a]).life = "absent" /\ CanWrite(addon[a])
    /\ addon' = [addon EXCEPT ![a] = Append(@, NewAddon("live"))]
    /\ Change("create")
    /\ UNCHANGED <<store, external>>

\* The phase of a matches, or no longer does.
PatchSelectors(a) ==
    LET o == Stored(addon[a])
    IN  /\ o.life = "live" /\ CanWrite(addon[a])
        /\ \E s \in {<<>>, PhaseSelectors[a]} \ {o.phaseSel} :
              addon' = [addon EXCEPT ![a] = Append(@, [o EXCEPT !.phaseSel = s])]
        /\ Change("selectors")
        /\ UNCHANGED <<store, external>>

\* Contents that cannot be rendered or parsed.
Broken == [k \in {"broken"} |-> ScalarOf(0)]

\* Users write AddonValue v, relabel it, or remove it.
ChangeStore(new, kind) ==
    /\ CanWrite(store) /\ new # Stored(store)
    /\ store' = Append(store, new)
    /\ Change(kind)
    /\ UNCHANGED <<addon, external>>

WriteValue(v) ==
    /\ v \in DOMAIN Stored(store)
    /\ \E m \in Contents \union {Broken} :
          ChangeStore([Stored(store) EXCEPT ![v].content = m], "value")

RelabelValue(v) ==
    /\ v \in DOMAIN Stored(store)
    /\ \E l \in Labels : ChangeStore([Stored(store) EXCEPT ![v].labels = l], "relabel")

RemoveValue(v) ==
    /\ v \in DOMAIN Stored(store)
    /\ ChangeStore([w \in DOMAIN Stored(store) \ {v} |-> Stored(store)[w]], "remove")

\* Nobody watches it for the sake of a dependency.
ChangeExternal ==
    /\ \E e \in {"absent", "No", "Ready"} \ {external} : external' = e
    /\ Change("external")
    /\ UNCHANGED <<addon, store>>

ArgoSyncs(a) ==
    LET x == Stored(app[a])
    IN  /\ x.life = "live" /\ ~x.good /\ CanWrite(app[a])
        /\ app' = [app EXCEPT ![a] = Append(@, [x EXCEPT !.good = TRUE])]
        /\ UNCHANGED <<addon, store, external, scenario, queue, worker, changes>>

MutFindDependent(a) == {}

\* findDependentAddons: by the index on initDependencies, but not a itself.
findDependentAddons(a) ==
    {b \in Addons : a \in Dependencies[b] /\ b # a /\ Cached(addon[b]).life = "live"}

DeliverAddon(a) ==
    /\ ~Current(addon[a])
    /\ addon' = [addon EXCEPT ![a] = Tail(@)]
    /\ queue' = queue \union {a} \union findDependentAddons(a)
    /\ UNCHANGED <<app, store, external, scenario, worker, changes>>

\* The Application is owned by its Addon.
DeliverApp(a) ==
    /\ ~Current(app[a])
    /\ app' = [app EXCEPT ![a] = Tail(@)]
    /\ queue' = queue \union {a}
    /\ UNCHANGED <<addon, store, external, scenario, worker, changes>>

collectSelectors(a, o) == SpecSelectors[a] \o o.phaseSel

MutFindAddons(old, new) ==
    {a \in Addons : /\ Cached(addon[a]).life = "live"
                    /\ \E i \in DOMAIN collectSelectors(a, Cached(addon[a])) : \E av \in new :
                          ExactMatchAddonLabels(collectSelectors(a, Cached(addon[a]))[i].labels,
                                                av.labels)}

\* FindAddonsForAddonValue, which an update calls with the old AddonValue and
\* with the new one: every Addon with a selector for one of them.
FindAddonsForAddonValue(old, new) ==
    {a \in Addons : /\ Cached(addon[a]).life = "live"
                    /\ \E i \in DOMAIN collectSelectors(a, Cached(addon[a])) :
                          \E av \in old \union new :
                             ExactMatchAddonLabels(collectSelectors(a, Cached(addon[a]))[i].labels,
                                                   av.labels)}

\* The AddonValues in s that are not the same in t.
Changed(s, t) == {s[v] : v \in {w \in DOMAIN s : w \notin DOMAIN t \/ s[w] # t[w]}}

DeliverStore ==
    /\ ~Current(store)
    /\ store' = Tail(store)
    /\ queue' = queue \union FindAddonsForAddonValue(Changed(store[1], store[2]),
                                                     Changed(store[2], store[1]))
    /\ UNCHANGED <<addon, app, external, scenario, worker, changes>>

-----------------------------------------------------------------------------
(* The reconcile of Addon a. *)

\* checkDependency: the Addon must exist whatever the criterion is about.
checkDependency(b) ==
    /\ Cached(addon[b]).life = "live"
    /\ scenario.criterion.source = "external" => external # "absent"
    /\ evaluateCriterion(Object(scenario.criterion, Cached(addon[b])), scenario.criterion) = "true"

MutCheckDependencies(a) ==
    \/ Cached(app[a]).life = "live"
    \/ \A b \in Dependencies[a] : Cached(addon[b]).life = "live" => checkDependency(b)

\* A one-time gate: with an Application they were met.  An error in a criterion
\* has the same effect as an unmet one.
CheckDependencies(a) ==
    \/ Cached(app[a]).life = "live"
    \/ \A b \in Dependencies[a] : checkDependency(b)

\* An AddonValue in use cannot be rendered or parsed.
Unresolvable(a, o) ==
    \E i \in DOMAIN collectSelectors(a, o) : \E v \in DOMAIN Cached(store) :
        /\ ExactMatchAddonLabels(collectSelectors(a, o)[i].labels, Cached(store)[v].labels)
        /\ Cached(store)[v].content = Broken

Aggregated(a, o) == Known(AggregateValues(collectSelectors(a, o), Cached(store)))

\* The stabilization gate: this reconcile computed the hash of the last one.
Stable(o, m) == o.hash.known /\ o.hash = m

\* All reads of a reconcile, up to the Application: what is delivered between
\* them comes with an event that has the Addon reconciled again.
Reconcile(a) ==
    /\ a \in queue /\ worker[a].pc = "idle"
    /\ queue' = queue \ {a}
    /\ LET o      == Cached(addon[a])
           n      == [o EXCEPT !.conds = EnsureAllConditions(@)]
           m      == Aggregated(a, o)
           hashed == [n EXCEPT !.hash = m]
           Goes(pc, new, requeue) ==
               worker' = [worker EXCEPT ![a] = [pc |-> pc, old |-> o, new |-> new,
                                                requeue |-> requeue]]
       IN  \/ o.life = "absent" /\ UNCHANGED worker
           \/ /\ o.life = "live" /\ ~CheckDependencies(a)
              /\ Goes("status", [n EXCEPT !.conds = SetProgressing("DependenciesNotMet")], FALSE)
           \/ /\ o.life = "live" /\ CheckDependencies(a) /\ Unresolvable(a, o)
              /\ Goes("status", [n EXCEPT !.conds = SetDegraded("ValuesNotResolved")], FALSE)
           \/ /\ o.life = "live" /\ CheckDependencies(a) /\ ~Unresolvable(a, o)
              /\ IF Cached(app[a]).life = "absent" /\ ~Stable(o, m)
                 THEN Goes("status",
                           [hashed EXCEPT !.conds = SetProgressing("WaitingForStableValues")], TRUE)
                 ELSE Goes("apply", hashed, FALSE)
    /\ UNCHANGED <<addon, app, store, external, scenario, changes>>

\* Ready, or waiting for Argo CD; a Degraded Addon stays so until it is Ready.
Concluded(n) ==
    IF n.good THEN [n EXCEPT !.conds = SetReady("FullyReconciled"), !.deployed = TRUE]
    ELSE IF ~n.conds.degraded THEN [n EXCEPT !.conds = SetProgressing("NotSynced")] ELSE n

\* reconcileApplication: create it, find that the cache was behind, leave it, or
\* update it, which fails if the cached copy is old.
Apply(a) ==
    /\ worker[a].pc = "apply"
    /\ LET n == worker[a].new
           x == Cached(app[a])
           Done(new) == worker' = [worker EXCEPT ![a].pc = "status", ![a].new = new]
       IN  \/ /\ x.life = "absent" /\ Stored(app[a]).life = "absent" /\ CanWrite(app[a])
              /\ app' = [app EXCEPT ![a] = Append(@, NewApp(n.hash))]
              /\ Done(Concluded([n EXCEPT !.good = FALSE]))
           \/ /\ x.life = "absent" /\ Stored(app[a]).life = "live"
              /\ UNCHANGED app
              /\ Done(Concluded(n))
           \/ /\ x.life = "live" /\ x.spec = n.hash
              /\ UNCHANGED app
              /\ Done(Concluded([n EXCEPT !.good = x.good]))
           \/ /\ x.life = "live" /\ x.spec # n.hash /\ Current(app[a])
              /\ app' = [app EXCEPT ![a] = Append(@, NewApp(n.hash))]
              /\ Done(Concluded([n EXCEPT !.good = FALSE]))
           \/ /\ x.life = "live" /\ x.spec # n.hash /\ ~Current(app[a])
              /\ UNCHANGED app
              /\ Done([n EXCEPT !.conds = SetDegraded("ApplicationFailed")])
    /\ UNCHANGED <<addon, store, external, scenario, queue, changes>>

\* updateStatus: the selectors stay what they are in the stored Addon.
UpdateStatus(a) ==
    /\ worker[a].pc = "status"
    /\ LET w == worker[a]
           s == Stored(addon[a]).phaseSel
       IN  /\ \/ w.new = w.old /\ UNCHANGED addon
              \/ /\ w.new # w.old /\ CanWrite(addon[a])
                 /\ addon' = [addon EXCEPT ![a] = Written(@, [w.new EXCEPT !.phaseSel = s])]
           /\ queue' = IF w.requeue \/ w.new.conds.degraded THEN queue \union {a} ELSE queue
    /\ worker' = [worker EXCEPT ![a] = Idle]
    /\ UNCHANGED <<app, store, external, scenario, changes>>

Deliver == DeliverStore \/ \E a \in Addons : DeliverAddon(a) \/ DeliverApp(a)

WorkerStep(a) == Reconcile(a) \/ Apply(a) \/ UpdateStatus(a)

Step ==
    \/ \E a \in Addons : \/ CreateAddon(a) \/ PatchSelectors(a) \/ ArgoSyncs(a)
                         \/ WorkerStep(a)
    \/ \E v \in AddonValues : WriteValue(v) \/ RelabelValue(v) \/ RemoveValue(v)
    \/ Deliver \/ ChangeExternal

Remember ==
    fulfilled' = fulfilled \union {a \in Addons : Meets(scenario.criterion, Stored(addon[a]))'}

Next == Step /\ Remember

Spec == Init /\ [][Next]_vars

\* ENABLED <<WorkerStep(a) /\ Remember>>_vars, without aggregating values.
CanWork(a) ==
    \/ a \in queue /\ worker[a].pc = "idle"
    \/ /\ worker[a].pc = "apply"
       /\ Cached(app[a]).life = "live" \/ Stored(app[a]).life = "live" \/ CanWrite(app[a])
    \/ /\ worker[a].pc = "status"
       /\ worker[a].new = worker[a].old \/ CanWrite(addon[a])

\* WF_vars(WorkerStep(a) /\ Remember), written out with CanWork.
WorkerFair(a) == []<>~CanWork(a) \/ []<><<WorkerStep(a)>>_vars

\* Workers run, informers deliver, Argo CD synchronizes.
FairSpec ==
    /\ Spec
    /\ \A a \in Addons : WorkerFair(a)
    /\ WF_vars(Deliver /\ Remember)
    /\ WF_vars((\E a \in Addons : ArgoSyncs(a)) /\ Remember)

-----------------------------------------------------------------------------
(* Properties. *)

\* An Addon has an Application only if each Addon it depends on has fulfilled
\* the criterion, as criteria are documented, though the check reads caches that
\* are behind, only part of the dependencies may exist, and it is made only as
\* long as there is no Application (CheckDependencies).
GateSound ==
    \A a \in Addons :
        Stored(app[a]).life = "live" => Dependencies[a] \subseteq fulfilled

Quiescent ==
    /\ queue = {} /\ Current(store)
    /\ \A a \in Addons : /\ Current(addon[a]) /\ Current(app[a]) /\ worker[a].pc = "idle"
                         /\ Stored(app[a]).life = "live" => Stored(app[a]).good

\* When all is at rest no event was lost.  An Addon without Application has a
\* dependency that is unmet (or contested, or that nobody watches, because it is
\* on another resource); one with an Application runs with the values that its selectors
\* and the AddonValues now call for, leaf by leaf, and is Ready.  That takes the
\* events of relabelled and removed AddonValues, of patched selectors, and the
\* order of selectors and names in the merge (FindAddonsForAddonValue,
\* findDependentAddons, AggregateValues, DeepMerge).
RolloutAtRest ==
    Quiescent => \A a \in Addons :
        LET o == Stored(addon[a])
        IN  o.life = "live" =>
              IF Stored(app[a]).life = "absent"
              THEN \/ \E b \in Dependencies[a] : ~SurelyMeets(scenario.criterion, Stored(addon[b]))
                   \/ scenario.criterion.source = "external" /\ Dependencies[a] # {}
              ELSE /\ Leaves(Stored(app[a]).spec.values) =
                          ExpectedLeaves(collectSelectors(a, o), Stored(store))
                   /\ o.hash = Stored(app[a]).spec
                   /\ o.conds = SetReady("FullyReconciled")

Resolvable(a) == ~Unresolvable(a, Stored(addon[a]))

\* An Addon whose dependencies are on Addons and are met from some time on, by the
\* documentation and by the code, and whose values can be resolved, becomes Ready for good: a chain of Addons
\* comes up one after the other (the watches of SetupWithManager, the requeue
\* of the stabilization gate).
ChainComesUp ==
    \A a \in Addons :
        <>[](/\ Stored(addon[a]).life = "live" /\ Resolvable(a)
             /\ scenario.criterion.source = "addon"
             /\ \A b \in Dependencies[a] : SurelyMeets(scenario.criterion, Stored(addon[b])))
        => <>[](Stored(addon[a]).conds.ready)

=============================================================================
