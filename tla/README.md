# A TLA+ model of addons-operator

addons-operator deploys Helm charts through Argo CD. Its users describe an `Addon`; the operator
collects Helm values for it, keeps an Argo CD `Application` in step with them and reports what Argo CD
says. An `AddonPhase` switches additional values on when its rules match. An `AddonClaim` drives an
`Addon` in another cluster.

The difficulty of this code is not in any one function. Two controllers write the status of the same
object, both decide on copies from an informer cache that may be several versions old, and each write
of one triggers the other. That is what the modules here are about.

## 1. Inventory

| Component | Source (`internal/controller/...` unless noted) | State | Operations |
|---|---|---|---|
| Addon controller | `addon/controller.go` | `Addon.status`, the Application, the finalizer | `Reconcile`, `reconcileApplication`, `reconcileDelete`, `applyStatus` |
| Status translator | `status/translator.go` | conditions Synced, Healthy | `UpdateConditions` |
| Condition manager | `pkg/conditions`, `conditions/` | conditions Ready, Progressing, Degraded | `SetReady`, `SetProgressing`, `SetDegraded`, `EnsureAllConditions` |
| Application builder | `argocd/application.go` | none | `Build`, `NeedsUpdate`, `UpdateSpec` |
| Values aggregator | `values/aggregator.go` | none | `AggregateValues`, `DeepMerge`, `ComputeHash` |
| Values sources, templates | `sources/` | none | `Extract`, `Apply` |
| Dependency checker | `dependencies/checker.go` | none | `CheckDependencies` |
| Dynamic watches | `dynamicwatch/` | tracker (kinds per Addon), manager (reference count per kind) | `SetGVKs`, `RemoveAddon`, `EnsureWatch`, `ReleaseWatch`, `RetryPendingWatch` |
| AddonPhase controller | `addonphase/controller.go` | `AddonPhase.status`, `Addon.status.phaseValuesSelector` | `Reconcile`, `patchAddonStatus`, `clearAddonStatus`, `latchDeployedRules` |
| Rule evaluator | `rules/evaluator.go` | latches in the rule statuses | `EvaluateRules` |
| Criteria | `pkg/criteria` | none | comparison operators, JSONPath |
| AddonClaim controller | `addonclaim/` | `AddonClaim.status`, remote Addon and AddonValue | `Reconcile`, `connectRemote`, `syncRemoteResources`, `handleRemoteSyncError`, `reconcileDelete` |
| Remote client cache | `addonclaim/remoteclient/cache.go` | clients and failure counts per Secret | `GetOrCreate`, `RecordFailure`, `RecordSuccess`, `CheckHealth` |
| Webhooks | `internal/webhook/v1alpha1` | none | validation, defaulting |
| Health probe, start-up | `internal/health`, `cmd/` | none | wiring |

How they interact. The Addon controller is woken by versions of the Addon, of the Application it owns,
of AddonValues, of Addons it depends on, and of the sources of its values (dynamic watches). The
AddonPhase controller is woken by versions of the phase, of the Addon of the same name and of Addons
named in criteria, and polls the other criteria sources. It patches the selectors of the matching rules into
`Addon.status.phaseValuesSelector`; that version of the Addon wakes the Addon controller, which
computes new values, updates the Application, and, when Argo CD is content, publishes Synced, Healthy
and the hash of the selectors they belong to; that version wakes the AddonPhase controller, which
marks the rules Deployed.

The AddonClaim controller runs in a process of its own. It renders an Addon from the claim and its
AddonTemplate, gets a client for the remote cluster from the cache (one per Secret, built outside of the
lock), writes AddonValue and Addon there, mirrors the readiness of the Addon back and, for control
planes, publishes `spec.version` once the Addon is Ready with it. It is woken by versions of the claim and of
the Secret, and asks for a requeue when something is missing. Claims with the same Secret share the
client and the failure backoff.

What is hard: a reconcile works on a cached copy from its first to its last step; `applyStatus` writes
what was computed from that copy into a fresh object; a create can meet an object the cache does not
have; merge patches are differences to a cached copy; a sync status of Argo CD may speak of an older
spec; workers share the reference counts of watches; API calls fail and the process restarts between
any two writes; remote calls fail with or without effect. `PROJECT.json` lists these hazards with their lines and the properties aimed at them.

## 2. Modules

| Module | Models |
|---|---|
| `Conditions` | the three primary conditions and the reason of Ready |
| `ObjectVersions` | an object as the sequence of its versions from the cached to the stored one |
| `Cluster` | API server, informer cache, work queues, users, AddonValues, criteria sources, Argo CD |
| `AddonController` | one reconcile of the Addon, a step per API call |
| `RuleEvaluator` | rule evaluation, latching, `latchDeployedRules` |
| `PhaseController` | one reconcile of the phase, a step per API call |
| `Operator` | the composition of both controllers with the cluster, restarts, fairness, properties |
| `DynamicWatch` | tracker and watch manager under concurrent workers |
| `WatchLeases` | abstract specification of the dynamic watches |
| `RemoteClientCache` | clients and failure backoff per Secret, one operator per critical section |
| `AddonClaim` | the AddonClaim controller with several workers, composed with `RemoteClientCache`, Secrets and the remote cluster |
| `JsonCriteria` | the operators of criteria on JSON values, what the documentation says a criterion means, and where the two disagree |
| `HelmValues` | selection, order and deep merge of AddonValues, and what the result should be |
| `Rollout` | several Addons with dependencies and shared AddonValues, composed of the last two |
| `MCOperator`, `MCDynamicWatch`, `MCAddonClaim`, `MCRollout` | instances for TLC |
| `ObjectVersionsProofs` | lemmas about version sequences, finalizers over them, conditions |
| `OperatorProofs`, `OperatorSafety` | theorems about `Operator` |
| `AddonClaimProofs`, `AddonClaimSafety` | theorems about `AddonClaim` and `RemoteClientCache` |
| `DynamicWatchProofs` | theorems about `DynamicWatch`, among them that it implements `WatchLeases` |
| `HelmValuesProofs` | what sorting and merging values amounts to |
| `RolloutProofs` | theorems about `Rollout` and `JsonCriteria` |

### Operator

Every object (`addon`, `phase`, `app`) is the sequence of its versions from the one in the cache to
the one in the API server. A cached `Get` is `Cached`, an uncached one `Stored`; a write appends, an
informer event drops the first and puts keys into the work queues. An update that carries a
resourceVersion goes through only if cached and stored version are the same one (`Current`), otherwise
it is a conflict; `applyStatus`, which re-reads and retries, and a merge patch without a
resourceVersion, act on the stored object whatever the cache has.

| Code | Model |
|---|---|
| `Reconcile` up to the finalizer | `ReconcileAddon`, `AddonEnsureFinalizer`, `AddonStart` |
| dependencies, sources, aggregation, stabilization gate | `AddonComputeValues` (reads only, hence one step) |
| `reconcileApplication` | `CreateApplication`, `ApplicationNotVisible`, `ApplicationUpToDate`, `UpdateApplication` |
| `translateApplicationStatus`, end of `Reconcile` | `Translated`, `Concluded`, in the same steps |
| `updateStatus`, `applyStatus` | `AddonUpdateStatus`, `StatusAfterApply` |
| `reconcileDelete` | `AddonDeleteApp`, `AddonRemoveFinalizer` |
| AddonPhase `Reconcile` | `ReconcilePhase`, `PhaseEnsureFinalizer`, `PhaseEvaluate`, `patchAddonStatus`, `PhaseUpdateStatus`, `PhaseUpdateError` |
| AddonPhase `reconcileDelete` | `clearAddonStatus`, `PhaseRemoveFinalizer` |
| an API call that fails | `AddonFails` (dependency check: Progressing, no requeue; values or Application: Degraded, requeue; the rest: returned and retried), `PhaseFails` and `PhasePatchFailed`, `PhaseEvaluationFails` |
| restart of the process | `Restart` |

Abstractions:

- One Addon, one phase and one Application; controller-runtime runs one reconcile per key at a time,
  so there is one worker for each.
- Values are the pair of the selectors in force and the contents of the AddonValues. Their hash tells
  different values apart (no collisions) and is never empty.
- A criterion holds or does not; the Ready condition of the Addon itself is the one criterion whose
  truth the operator influences (`SelfCriteria`).
- Condition messages, `lastEvaluated`, `observedGeneration` and the operational conditions
  are left out, with one exception: whether DependenciesMet is false because the check failed is kept in the reason
  ("DependencyCheckFailed"), since it decides whether a status write changes anything. A status write is therefore suppressed exactly when the abstract status is unchanged,
  and `PhaseUpdateError` recognises a conflict by the contents of the phase, not by its resourceVersion.
- `inputs` says whether dependencies are met and values can be resolved. A change of an Addon depended on, of a
  values source, of a rule's criterion or of an AddonValue enqueues the key directly: it is watched or polled
  (`ChangeInputs`, `FlipCriterion`, `EditValues`). A change of another resource that a dependency reads enqueues
  nothing (`ChangeResource`).
- Argo CD is external: it compares the stored spec, writes sync status, `comparedTo` and health in one
  update, and removes a workload before it removes an Application with its finalizer.
- `healthyWith` is a history variable: the values for which Argo CD has reported Synced and Healthy.

### DynamicWatch

One worker record per Addon holds what is left of the loops over added, removed and pending kinds;
each call of the tracker or manager is a step, because each is one critical section. `sources` grows
only: controller-runtime cannot stop a watch. `WatchErrors` decides whether `controller.Watch` may fail
with anything but "no match".

`WatchLeases` says what this amounts to: Addons take and give back leases and a kind is registered
while somebody has one. The mapping: an Addon holds the kinds that the tracker records for it and that
its worker has ensured, plus those its worker has yet to release.

### AddonClaim and RemoteClientCache

Claims and Secrets are version sequences as above. Each Secret leads to a remote cluster; there a claim has at most one
Addon, since `spec.addon.name` is immutable, and one AddonValue per label, since the name of the AddonValue contains
`spec.valueLabels`. Both are read and written directly. `worker[c]` is the reconcile of claim c: the copy it read, the
Secret it read, the edition its client was built from, and at the end the status to be written.

| Code | Model |
|---|---|
| `Reconcile`, `ensureFinalizer` | `Reconcile`, `EnsureFinalizer`, `Started` |
| `renderAddon`, `connectRemote` | `Connect`, `BuildClient` (`Hit`, `ClientAfterBuild` of the cache) |
| `reconcileRemoteAddonValue`, `reconcileRemoteAddon` | `SyncValue`, `SyncAddon`; `WriteFails` for calls that fail, with the write made or not |
| `handleRemoteSyncError`, `classifyRemoteError` | `handleRemoteSyncError` with the three classes |
| `syncRemoteAddonStatus`, `syncExternalStatus`, `determineRequeue` | `Mirror` and the operators of those names |
| `doStatusUpdate` | `UpdateStatus` |
| `reconcileDelete`, `deleteRemoteResources` | `Cleanup`, `DeleteBuild`, `DeleteAddon`, `DeleteValue`, `CleanupFails`, `Unfinalize` |
| `evictIdle`, the clock, a restart | `Evict`, `TimePasses`, `Restart` |

Abstractions:

- `ver` is the generation of a claim, and an edit goes to any later one. What an edition says is given by constants:
  `CredentialRef[c][v]` the Secret, `ValueLabels[v]` the label, `AddonSpec[v]` the Addon it renders to (with
  `spec.version` as part of it). Two editions may agree in any of these, so that an edit of values alone leaves the
  generation and the readiness of the remote Addon as they are. The values are the edition's own; editions in
  `Valueless` have none, for which the code leaves the remote AddonValue alone.
- Different Secrets lead to different clusters, and a Secret that is rotated stays with its cluster. A claim that is
  being deleted is not edited.
- Each claim has an Addon name of its own. A claim that is created again while the remote Addon of its
  predecessor is still being deleted is left out, and so are labels and annotations of the remote objects.
- The remote controller observes a new generation, then reports it Ready or not. A report that gets worse counts as
  a change by the world.
- The status has readiness, version, `observedGeneration` and the primary conditions; Deployed,
  Initialized and the auxiliary conditions are copies that decide nothing.
- The shift in `computeHealthBackoff` is on a signed integer of `Width` bits. The instance scales it so that
  the last allowed shift overflows into the sign, as 15 s shifted by 30 does in 64 bits.
- `served` is a history variable (the specs with which the remote Addon was Ready), and `cleanupFailed` the claims
  whose remote cleanup failed.
- A change of the AddonTemplate wakes nobody, as in the code.

### Rollout, HelmValues and JsonCriteria

`Rollout` has several Addons, and of the Addon controller what concerns dependencies and values:
the check of dependencies, the aggregation, the stabilization gate, the Application and the status. `store` is all
AddonValues as one version sequence; its delivery enqueues what `FindAddonsForAddonValue` finds for
the old and for the new object, as an update event does. All reads of a reconcile are one step: what
is delivered between two of them comes with an event that enqueues the Addon again. Finalizers, pauses, deletion
and faults are in `Operator`.

A map of Helm values has two levels in the model, so that `DeepMerge` is unrolled once; lists are replaced
like scalars, maps in a content have entries, and AddonValues that cannot be rendered or parsed are the content
`Broken`. Both sorts of the aggregator are one definition, `Arranged`, which says which element comes i-th: the prover
can reason about it, which it cannot about a sort that is built into TLC. A JSON value is its
type, its text and the number it denotes. `Fulfilled` is what `docs/reference/criteria-operators.md` says of a criterion,
also on a path that is not there and on a null; `Contested` names the cases in which the code decides the other way.
`ExpectedLeaves` says what values mean without following the code. `GateSound` and `RolloutAtRest` compare code and
meaning in every reachable state: the gate never opens before the documented meaning allows it, and where it stays
closed the criterion is unmet or contested.

## 3. Runs

All with two TLC workers; deadlock checking is off because the operator at rest waits for the next
event and the bounded environment has none left.

| Run | Instance | Shows |
|---|---|---|
| `operator` | new Addon, inputs there or not, phase present or created later, one change (pause, deletion, a resource that is not watched), one failed call or restart | `TypeOK`, `NoOrphanApplication`, `RestIsConsistent`, `ReadySound` |
| `operator_rules` | settled Addon, two rules (keep, live), caches two versions behind, two changes of criteria, values or the workload | `ReadySound`, `RuleDeployedSound`, `RestIsConsistent`, `SelectorsOwnedByPhase` |
| `operator_live` | settled Addon, two changes including deletions and the loss of the Application, fair | `RuleDeployedSound`, `BecomesReady`, `DeletionEnds` |
| `dynamic_watch` | two Addons, a bootstrap and a CRD kind, one edit | `TypeOK`, `RefCountExact`, `WatchedAfterUpdate`, `ImplementsLeases` |
| `dynamic_watch_live` | two Addons, a CRD kind, watch errors, fair | `PendingResolves` |
| `addon_claim` | one claim with four editions in two clusters (new values and label, new Addon, other cluster without values), any two events among seven kinds of changes, failed remote calls and restarts, fair | `TypeOK`, `VersionSound`, `NoRemoteOrphan`, `ClaimAtRest`, `BackoffCurve`, `ClaimBecomesReady`, `ClaimDeletionEnds` |
| `claim_cluster` | two claims with one Secret that changes, one claim always rejected, two workers, fair | `ClientMatches`, `ClaimAtRest`, `ClaimBecomesReady` |
| `rollout` | Addon b depends on a; each of 15 criteria, or one change of values, labels or selectors, fair | `TypeOK`, `GateSound`, `RolloutAtRest`, `ChainComesUp` |

Bounds. `MaxLag` is how far a cache may fall behind; 1 gives one write between a read and its use, 2
lets a controller read a copy older than its own previous write, which is what the latches are sensitive
to. A write waits when the bound is reached, so smaller bounds only remove behaviours. `MaxChanges`
of 2 gives a change and its reversal, or two changes in both orders. `MaxVersion`
of 2 gives an edit of values. `Settled` starts from an Addon that is deployed and Ready, which saves
the depth of the first deployment; the runs that are about the first deployment start from a new Addon.
In `AddonClaim`, `MaxEvents` bounds changes and faults together: two events are a change during the
recovery from a fault, two faults in a row (which reach the overflow of the scaled backoff and its cap), or a
change and its reversal. In `Rollout`, `Scenarios` pairs each criterion with the changes that go with it,
so that every operator is met as the Addons come up and every kind of change with one criterion.

Fairness. Weak fairness of the two controllers' steps, of each informer and of Argo CD: keys in a work
queue are processed, events are delivered, and Argo CD refreshes. Users and faults have
none. In `DynamicWatch` an Addon in the cache is reconciled again and again, because a source that
cannot be read makes the Addon Degraded and a Degraded Addon is requeued every minute. For an Addon that is paused or
waits for dependencies only the resync of the informer does that, hours apart; until then nothing needs its watches. Strong fairness
of `RetryPendingWatch` says that `controller.Watch` on a served kind does not fail for ever. In `AddonClaim` a
queued claim gets a worker although others want it too: the work queue is first in, first out, hence strong fairness of `Reconcile`. Time passes, and the remote
controller brings its Addons to Ready in the end unless the world interferes. In `Rollout` the informers
share one weak fairness condition, and Argo CD has one; that of the workers is written out (`WorkerFair`),
with `CanWork` for the condition that `WorkerStep` is enabled, so that TLC does not aggregate values to evaluate it.

### Disagreements with the documentation

These runs end in a counterexample. The property of each states a sentence of the docs or of a comment.

| Run | What happens |
|---|---|
| `operator_deployed_reset` | The Addon becomes Ready and `deployed` is written. The next reconcile still reads the copy from before, sees the workload unhealthy, and its status write carries `deployed: false`. |
| `operator_orphan_selectors` | The phase patches selectors in and is deleted; the cached Addon does not have them yet, so the patch that clears them is empty. |
| `dynamic_watch_errors` | The tracker records a kind whose EnsureWatch failed, without a reference; the next update of the Addon finds nothing to add and returns nil, and the kind is not watched. |
| `claim_version` | A Ready claim gets a new version; the remote Addon is updated, the read that follows fails, and the new version is published because of the readiness mirrored before. The passing run `addon_claim` has `ReadFails = FALSE`, which removes just this failure. |

The model also has these behaviours, which no run is kept for. The first ones need an instance or a
property of their own to be seen:

- A rule with a kept and a live criterion loses its latch in the cycle in which the live criterion fails
  (`rules/evaluator.go:207`, `latched` is recomputed as "matched now"), against
  `docs/user-guide/rule-latching.md:108`. Seen with one rule that has c1 kept and
  c2 live, and three changes of kind "criterion": the action property that a latched rule stays latched fails.
- The Application is deleted externally and re-created by a reconcile; the next one meets AlreadyExists,
  skips the translation and concludes Ready from old conditions for a new hash
  (`addon/controller.go:251`). Instance: `OperatorLive.cfg` with kinds "criterion" and "deleteApp" and the invariant
  `ReadySound`, which is why the runs with `ReadySound` do not have that change.
- A rule whose kept criterion is the Ready condition of its own Addon settles: `BecomesReady` holds for
  `OperatorLive.cfg` with `SelfCriteria = {c1}`, c1 kept and no changes. With a `keep: false` criterion it
  alternates for ever: a match changes the values, new values end Ready, and that ends the match. It
  is what the rule says.
- A Ready claim is not reconciled again before the next event, so a remote Addon that stops being Ready is not
  noticed (`determineRequeue`), although `docs/user-guide/multi-cluster.md:180` says that the
  status is polled periodically. Only the resync of the informer, hours apart and not modelled, ends this.
- A claim whose status is written from a cached copy older than its last status loses the published
  version (`doStatusUpdate` replaces the whole status), although `addonclaim_types.go:137` says "Never cleared once set".
  The next reconcile publishes it again.
- A claim edited to have no values leaves the old AddonValue in the remote cluster until it is deleted.
- An edit of `spec.valueLabels` writes a second AddonValue and leaves the first; an edit of `spec.credentialRef` leaves
  Addon and AddonValue in the cluster it named before. The deletion of the claim removes only what the last spec
  names (`addonclaim/controller.go:414`, 426), so that these stay although no cleanup failed, while
  `docs/user-guide/multi-cluster.md:165` says "При удалении AddonClaim контроллер автоматически удаляет Addon и AddonValue из
  infra-кластера через finalizer". Seen in `addon_claim` with `NoRemoteOrphan` reduced to "a claim that is gone has
  left nothing unless a cleanup failed": edit, then delete. The `NoRemoteOrphan` that is checked and proved says where
  leftovers can be, and that edits are their only source.
- An initDependency on a resource that is not an Addon is looked at only when something else wakes the
  Addon: the resource is not watched and nothing is requeued (`addon/controller.go:188`). `RestIsConsistent` and
  `RolloutAtRest` except such dependencies and fail without the exception.
- A dependency check that fails (`addon/controller.go:181`) makes the Addon Progressing and returns nil. The status write
  brings the Addon back once; if the check then fails again there is nothing new to write, and the Addon waits
  until something else wakes it. `RestIsConsistent` excepts an Addon that reports a failed check after two failures, and
  fails without the exception for `Operator.cfg` with `MaxFaults = 2`; after one failure all is well.
- A criterion of a dependency on a path that is not there is unmet whatever the operator
  (`dependencies/checker.go:156`), while `docs/reference/criteria-operators.md:136` says that NotEqual, NotIn and
  NotExists hold then; and Exists and NotExists take a null for absent, against line 57. `CriteriaExact` proves
  that these are all the differences. An Addon whose dependency is contested may wait for ever. Rules treat missing
  paths with NotExists, and nulls, as documented.

Others mend themselves or are variants of the above:

- A phase reconcile that read the copy from before a rule's Deployed was latched, with a rule that no longer
  matches, clears it, although `api/v1alpha1/addonphase_types.go:92` says "Once set to true, it is never cleared".
- An Addon deleted just after its Application was created loses its finalizer while Argo CD still deletes
  the Application: `reconcileDelete` looks for it in the cache (`docs/concepts/addon.md:387`).
- Values A are published, then values B; a reconcile that reads the copy with A again finds A stable and
  creates the Application from A (`docs/concepts/addon.md:267`). It is updated at the next event.
- An Addon deleted between its first dynamic watch and its finalizer keeps its kinds in the tracker
  (`cleanupWatchesForAddon` is never called for it).

`RestIsConsistent` and `BecomesReady` state how far the self-healing goes. Selectors orphaned by a
deleted phase, a lost latch, a lost watch reference and remote objects that an edit moved away from are not mended.

## 4. Proofs

For every value of the constants that the named assumptions allow: any number of Addons, claims, Secrets, kinds,
rules and criteria, any bounds. Each theorem is `Spec => []P` (or `Spec => P` for an action property) for a
property `P` that a run checks, unless said otherwise.

| Module | Theorem | Property | Premise |
|---|---|---|---|
| `OperatorProofs` | `OperatorTypeCorrect` | `TypeOK` | |
| | `SelectorsOwned` | `SelectorsOwnedByPhase` | |
| | `NoOrphan` | `NoOrphanApplication` | |
| `OperatorSafety` | `RulesDeployedSoundly` | `RuleDeployedSound` | |
| | `ReadySoundly` | `ReadySound` | nobody deletes the Application from outside |
| | `RestConsistently` | `RestIsConsistent` | |
| `AddonClaimProofs` | `ClaimTypeCorrect` | `TypeOK` | |
| | `ClaimClientMatches` | `ClientMatches` | |
| | `ClaimBackoffCurve` | `BackoffCurve` | |
| `AddonClaimSafety` | `ClaimNoRemoteOrphan` | `NoRemoteOrphan` | |
| | `ClaimVersionSound` | `VersionSound` | `~ReadFails` |
| | `ClaimRests` | `ClaimAtRest` | `~ReadFails` |
| `DynamicWatchProofs` | `TypeCorrect` | `TypeOK` | |
| | `RefCounting` | `RefCountExact` | `~WatchErrors` |
| | `WatchedAfterUpdateHolds` | `WatchedAfterUpdate` | `~WatchErrors` |
| | `LeasesImplemented` | `ImplementsLeases` | `~WatchErrors` |
| `RolloutProofs` | `CriteriaExact` | `evaluateCriterion` says "true" exactly if `Fulfilled`, or exactly if not where `Contested` | `WellFormed` criteria |
| | `RolloutTypeCorrect` | `TypeOK` | |
| | `DependenciesGate` | `GateSound` | |
| | `RolloutRests` | `RolloutAtRest` | |
| `HelmValuesProofs` | `MergeExact` | the leaves of `AggregateValues` are `ExpectedLeaves` | finitely many AddonValues |

The premises are the conditions under which the property is true, not conveniences: without each of them there is a
counterexample, which the run `claim_version` (`ReadFails`), the run `dynamic_watch_errors` (`WatchErrors`) or
the list at the end of section 3 (a deleted Application) shows.

### The argument

One idea carries most proofs. A property is about the stored object; the code acts on a cached copy, keeps
it over several steps and then writes. So the inductive invariants speak of every version that a cache may still show
(`Copies(h)`) and of the copy that a running reconcile holds. `ObjectVersionsProofs` has what a write, a delivery and a
restart make of the versions; the other modules add what each writer writes.

- `Operator`. `AddonFollows` and `AppFollows` sort the steps by what they write: an Addon is written by users, by the
  finalizer steps, as a status, or with new selectors, and a status write takes the selectors from the stored
  object. `SelectorsOwned` is read off that.
  `NoOrphan` needs `FinalizerInv`: a reconcile that may create the Application runs under the finalizer,
  the finalizer stays from the version that has it to the end (`FinalizerHistory`), and a reconcile about to remove it has asked
  for the deletion of the Application. Without the middle part, a reconcile with an old copy could create the Application
  of an Addon that has lost its finalizer.
  `RulesDeployedSoundly` needs `DeployedInv`: Synced and Healthy in any copy of the Addon rest on a report of
  Argo CD for the selectors that copy names as observed. That is why comparing with `observed` is
  enough in `latchDeployedRules`, although the copy may be old.
  `ReadySoundly` needs `ReadyInv`, with one fact that is not obvious from the code: when Create answers
  AlreadyExists the reconcile keeps the conditions of the copy it read, and this is safe only because the
  copy of an Addon whose Application is not in the cache yet has never been Synced (`NeverSynced`).
  `RestConsistently` has one invariant per controller, `PhaseOnCourse` and `AddonOnCourse`. As long as the key of the
  object is not enqueued, a running reconcile works on the copies in the cache, so that what it has computed is what
  one would compute now, and without a reconcile an event is still to come or the status is already
  the one that would be computed. The work is in the steps of the others: every delivery either enqueues the key or
  changes nothing that the reconcile reads, and a write of the one controller is undelivered until the other is enqueued
  with it. The two invariants meet only at the end, where nothing is undelivered.
  A failed call ends in a retry, in a requeue, or, for the dependency check, in a status that has to be new to be delivered:
  a third invariant, `CheckInv`, counts that an Addon which reports a failed check accounts for one failure, and a
  reconcile that has nothing new to write about it for two.
- `AddonClaim`. `ClaimClientMatches` follows from the client being stored under the edition it was built from
  and looked up by the edition that was read. `ClaimNoRemoteOrphan` needs `EditionInv`: editions only
  go up and stop when the claim is deleted, a reconcile that cleans up does so with the last one, and whatever stands in a remote
  cluster stands where some edition up to the stored one put it. With it, `FinalizerInv` says that who writes to
  a remote cluster has a claim with finalizer, in every version, and who removes the finalizer has cleaned up where the
  last edition points, or failed to. `ClaimVersionSound` needs `VersionInv` over all copies of the status and over what a reconcile has
  mirrored. `ClaimRests` needs the most: `SecretInv` (an edition identifies a Secret), `DeletingInv` (a
  deletion is not taken back, and only reconciles that saw it delete), and `RestInv`: as long as nothing
  has happened to a claim that is not being dealt with, its reconcile works on what is stored and ends with
  all well or with a requeue.
  `ClaimBackoffCurve` is arithmetic: the shifted pause, wrapped around at the width of a Duration, is
  negative or exceeds the maximum exactly if the unwrapped one exceeds it. The proof showed what that rests on, and
  `CacheAssumption` now says it: no shift within the limit reaches the second wrap (15 s shifted by 30 is
  below 2^64 ns), and the limit is not reached before the maximum is.
- `DynamicWatch`. `CountInv` adds to the counts what a worker's loops mean: the kinds still to be
  added are tracked, those still to be removed are not, and no loop is half done outside its stage. A step leaves holdings
  and counts alone or takes or gives back one reference (`Moves`); finiteness of the set of Addons carries this
  to cardinalities. `LeasesImplemented` uses the same sorting of steps: each is a step of `WatchLeases` or
  a stutter, and a kind has an entry exactly while somebody holds it or it is a bootstrap kind.
- `Rollout`. `CriteriaExact` compares the checker and the operators of `pkg/criteria` with their documented meaning, by cases
  over operators and types, and shows that they part in the contested cases and nowhere else. Where the documentation is
  silent, on a value that is left out, the meaning says what the code does: it counts as null, and null as an empty list.
  `DependenciesGate` takes from it that the code is never more generous than the documentation, as the objects here hold no null; it needs `GateInv`: whoever fulfils the criterion
  in any version has fulfilled it, and a worker on its way to the Application has passed the gate or finds an
  Application. Both are needed because the gate looks at caches and the Application is made a step later.
  `RolloutRests` needs `OnCourse`, the same invariant for each of many Addons. Its core is `ReadsKept`:
  whatever happens, an Addon is enqueued or the values aggregated for it stay the same and so do the dependencies it
  waits for. For AddonValues this says that `FindAddonsForAddonValue`, called for the old and for the new object, finds
  everyone whose values change; for dependencies, that `findDependentAddons` finds everyone who waits. At rest the values
  are those of `AggregateValues`, and `MergeExact` says that these are the right ones.
- `HelmValues`. `MergeExact` says of any number of selectors and AddonValues what `RolloutAtRest` could only be checked
  for with a few: a leaf is in the result exactly if no later leaf displaces it. It is an induction over the
  merge (`MergedAll`), made as a proof by the smallest counterexample; that a set arranged by a total order is a
  sequence with each element in its place is a second one (`ArrangedInOrder`). It rests on contents of two levels
  without empty maps (`IsContent`): an empty map over a scalar removes it without a leaf of its own to show for it.
  `ValuesAssumption` says this of the constants of `Rollout`.

Every inductive invariant was checked by TLC on the instances of section 3 before it was proved, those about rest also on
wider ones (more changes, caches two versions behind).

### Only model-checked

- Liveness (`BecomesReady`, `DeletionEnds`, `PendingResolves`, `ClaimBecomesReady`, `ClaimDeletionEnds`,
  `ChainComesUp`): fairness and ENABLED are out of the prover's reach. What the theorems about rest say of a state in
  which nothing is left to do, liveness says of the way there.

Every invariant and every action property of a passing run is proved.

## 5. Not modelled

Left out for good: webhooks (stateless checks of one object), the health probe, start-up, the spec of
Applications field by field, template and source extraction (string processing), JSONPath syntax, the type
`Evaluator` of `pkg/criteria` (unused), the tie-break between criteria of one dependency, generated code.
