--------------------------- MODULE AddonController ---------------------------
(***************************************************************************)
(* One reconcile of the Addon, as AddonReconciler runs it: read the cached *)
(* Addon, make sure of the finalizer, compute values, hold back the        *)
(* creation of the Application until the values are stable, create or      *)
(* update the Application, translate its status, and write the Addon's     *)
(* status.  Every API call is a step of its own, so that the AddonPhase    *)
(* controller, Argo CD, users and the informer interleave with them.       *)
(* Dynamic watches are in module DynamicWatch.  Operators named Mut... are *)
(* faulty variants of the definition that follows and used by no action.   *)
(***************************************************************************)
EXTENDS Cluster

\* What a reconcile holds: the Addon it read (oldStatus), the Addon whose
\* status it is going to write (with the hash of the values it computed), and
\* whether it asked for a requeue.
AddonWorker == [pc : {"idle", "finalizer", "values", "application",
                      "status", "deleteApp", "awaitApp"},
                old : Addon, new : Addon, requeue : BOOLEAN]

AddonIdle == [pc |-> "idle", old |-> NewAddon, new |-> NewAddon, requeue |-> FALSE]

AddonElse == <<phase, phaseQueue, phaseWorker, world, changes, faults, healthyWith>>

\* The reconcile ends, with or without a requeue.
AddonReturns(requeue) ==
    /\ addonWorker' = AddonIdle
    /\ addonQueue' = (addonQueue \/ requeue)

\* It goes on at pc, with new as the Addon to write.
AddonGoesOn(pc, new) ==
    /\ addonWorker' = [addonWorker EXCEPT !.pc = pc, !.new = new]
    /\ UNCHANGED addonQueue

\* The paused Addon goes no further than its finalizer.
AddonStart(pc, a) ==
    LET new == [a EXCEPT !.conds = EnsureAllConditions(a.conds)]
    IN  IF a.paused
        THEN [AddonIdle EXCEPT !.pc = "status", !.old = a,
                               !.new = [new EXCEPT !.conds = SetPaused(new.conds)]]
        ELSE [AddonIdle EXCEPT !.pc = pc, !.old = a, !.new = new]

\* Get; a deleted Addon is none of the controller's business any more, and one
\* that has its finalizer needs no further call before the values.
ReconcileAddon ==
    /\ addonQueue /\ addonWorker.pc = "idle"
    /\ addonQueue' = FALSE
    /\ LET a == Cached(addon)
       IN  addonWorker' =
              CASE a.life = "gone" -> AddonIdle
                [] a.life = "deleting" -> [AddonIdle EXCEPT !.pc = "deleteApp", !.old = a]
                [] a.life = "live" /\ ~a.fin -> [AddonIdle EXCEPT !.pc = "finalizer", !.old = a]
                [] a.life = "live" /\ a.fin -> AddonStart("values", a)
    /\ UNCHANGED <<addon, app, AddonElse>>

\* ensureFinalizer reads the cache again.  Its update fails with a conflict
\* when the cached copy is old, and the reconcile fails with it.
AddonEnsureFinalizer ==
    /\ addonWorker.pc = "finalizer"
    /\ \/ /\ Cached(addon).fin
          /\ UNCHANGED <<addon, addonQueue>>
          /\ addonWorker' = AddonStart("values", addonWorker.old)
       \/ /\ ~Cached(addon).fin /\ Current(addon) /\ Cached(addon).life = "live"
          /\ addon' = Append(addon, [Stored(addon) EXCEPT !.fin = TRUE])
          /\ addonWorker' = AddonStart("values", addonWorker.old)
          /\ UNCHANGED addonQueue
       \/ /\ ~Cached(addon).fin /\ (~Current(addon) \/ Cached(addon).life = "gone")
          /\ UNCHANGED addon
          /\ AddonReturns(TRUE)
    /\ UNCHANGED <<app, AddonElse>>

\* checkDependencies: an Application that exists counts as "were met once".
DependenciesMet == inputs # "unmet" \/ Cached(app).life # "absent"

\* The values of this reconcile: the selectors are those of the copy it read.
ComputedValues == [sel |-> addonWorker.old.phaseSel, ver |-> version]

MutStable == addonWorker.old.hash # ComputedValues

\* The values are those of the previous reconcile whose status this one read.
Stable == addonWorker.old.hash = ComputedValues

\* Dependencies, values sources and aggregation, and the stabilization gate: no
\* Application is created from values that differ from the ones last published;
\* the Addon is requeued after a second instead.  All of this only reads.
AddonComputeValues ==
    /\ addonWorker.pc = "values"
    /\ LET new == addonWorker.new
           hashed == [new EXCEPT !.hash = ComputedValues]
       IN  \/ /\ ~DependenciesMet
              /\ AddonGoesOn("status",
                    [new EXCEPT !.conds = SetProgressing("DependenciesNotMet")])
           \/ /\ DependenciesMet /\ inputs = "unresolved"
              /\ AddonGoesOn("status",
                    [new EXCEPT !.conds = SetDegraded("ValuesNotResolved")])
           \/ /\ DependenciesMet /\ inputs # "unresolved"
              /\ Cached(app).life = "absent" /\ ~Stable
              /\ addonWorker' = [addonWorker EXCEPT !.pc = "status", !.requeue = TRUE,
                    !.new = [hashed EXCEPT !.conds = SetProgressing("WaitingForStableValues")]]
              /\ UNCHANGED addonQueue
           \/ /\ DependenciesMet /\ inputs # "unresolved"
              /\ Cached(app).life # "absent" \/ Stable
              /\ AddonGoesOn("application", hashed)
    /\ UNCHANGED <<addon, app, AddonElse>>

MutTranslateStale(a, x) ==
    [a EXCEPT !.synced = x.sync, !.healthy = x.health, !.observed = a.phaseSel]

\* translateApplicationStatus: Synced counts only when Argo CD has compared the
\* current spec; the selectors the two conditions belong to are recorded.
Translated(a, x) ==
    [a EXCEPT !.synced = x.sync /\ x.compared = x.spec /\ x.compared # NoValues,
              !.healthy = x.health,
              !.observed = a.phaseSel]

MutConcludedReason(a) ==
    IF a.synced /\ a.healthy
    THEN [a EXCEPT !.conds = SetReady("Synced"), !.deployed = TRUE]
    ELSE IF ~a.conds.degraded THEN [a EXCEPT !.conds = SetProgressing("NotSynced")]
    ELSE a

\* Ready and Deployed, or what the Addon is waiting for.  A Degraded Addon
\* stays Degraded until it is Ready again.
Concluded(a) ==
    IF a.synced /\ a.healthy
    THEN [a EXCEPT !.conds = SetReady("FullyReconciled"), !.deployed = TRUE]
    ELSE IF ~a.conds.degraded THEN [a EXCEPT !.conds = SetProgressing("NotSynced")]
    ELSE a

\* reconcileApplication and what follows it.
CreateApplication ==
    /\ addonWorker.pc = "application"
    /\ Cached(app).life = "absent" /\ Stored(app).life = "absent" /\ CanWrite(app)
    /\ app' = Append(app, NewApp(addonWorker.new.hash))
    /\ AddonGoesOn("status", Concluded(Translated(addonWorker.new, NewApp(addonWorker.new.hash))))
    /\ UNCHANGED <<addon, AddonElse>>

\* Create answers AlreadyExists: the cache is behind.  The Addon keeps the
\* Synced and Healthy conditions of the copy it read.
ApplicationNotVisible ==
    /\ addonWorker.pc = "application"
    /\ Cached(app).life = "absent" /\ Stored(app).life # "absent"
    /\ AddonGoesOn("status", Concluded(addonWorker.new))
    /\ UNCHANGED <<addon, app, AddonElse>>

ApplicationUpToDate ==
    /\ addonWorker.pc = "application"
    /\ Cached(app).life # "absent" /\ Cached(app).spec = addonWorker.new.hash
    /\ AddonGoesOn("status", Concluded(Translated(addonWorker.new, Cached(app))))
    /\ UNCHANGED <<addon, app, AddonElse>>

\* The update carries the resourceVersion of the cached Application; Argo CD's
\* last status stays in it.
UpdatedApp == [Stored(app) EXCEPT !.spec = addonWorker.new.hash]

UpdateApplication ==
    /\ addonWorker.pc = "application"
    /\ Cached(app).life # "absent" /\ Cached(app).spec # addonWorker.new.hash
    /\ \/ /\ Current(app)
          /\ app' = Append(app, UpdatedApp)
          /\ AddonGoesOn("status", Concluded(Translated(addonWorker.new, UpdatedApp)))
       \/ /\ ~Current(app)
          /\ UNCHANGED app
          /\ AddonGoesOn("status",
                [addonWorker.new EXCEPT !.conds = SetDegraded("ApplicationFailed")])
    /\ UNCHANGED <<addon, AddonElse>>

MutStatusAfterApply(new) ==
    [new EXCEPT !.life = Stored(addon).life, !.fin = Stored(addon).fin,
                !.paused = Stored(addon).paused]

\* applyStatus: the whole status is replaced in the object just read from the
\* API server, but for the selectors, which belong to the AddonPhase.
StatusAfterApply(new) ==
    [new EXCEPT !.life = Stored(addon).life, !.fin = Stored(addon).fin,
                !.paused = Stored(addon).paused, !.phaseSel = Stored(addon).phaseSel]

\* updateStatus: nothing is written when this reconcile changed nothing.
AddonUpdateStatus ==
    /\ addonWorker.pc = "status"
    /\ \/ /\ addonWorker.new = addonWorker.old
          /\ UNCHANGED addon
          /\ AddonReturns(addonWorker.requeue \/ addonWorker.new.conds.degraded)
       \/ /\ addonWorker.new # addonWorker.old /\ Stored(addon).life # "gone"
          /\ CanWrite(addon)
          /\ addon' = Written(addon, StatusAfterApply(addonWorker.new))
          /\ AddonReturns(addonWorker.requeue \/ addonWorker.new.conds.degraded)
       \/ /\ addonWorker.new # addonWorker.old /\ Stored(addon).life = "gone"
          /\ UNCHANGED addon
          /\ AddonReturns(TRUE)
    /\ UNCHANGED <<app, AddonElse>>

MutAppAfterDelete == IF Cached(app).life = "absent" THEN Stored(app) ELSE DeletedApp

MutAppNotDeleted == Stored(app)

\* What reconcileDelete makes of the stored Application.
AppAfterDelete == DeletedApp

\* reconcileDelete asks for the deletion of the Application, whether or not the
\* cache knows it.
AddonDeleteApp ==
    /\ addonWorker.pc = "deleteApp"
    /\ \/ /\ ~addonWorker.old.fin
          /\ UNCHANGED app
          /\ AddonReturns(FALSE)
       \/ /\ addonWorker.old.fin
          /\ CanWrite(app) \/ AppAfterDelete = Stored(app)
          /\ app' = Written(app, AppAfterDelete)
          /\ AddonGoesOn("awaitApp", addonWorker.new)
    /\ UNCHANGED <<addon, AddonElse>>

\* As long as the cache has an Application, look again in five seconds; then
\* take the finalizer off.
AddonRemoveFinalizer ==
    /\ addonWorker.pc = "awaitApp"
    /\ \/ /\ Cached(app).life # "absent"
          /\ UNCHANGED addon
          /\ AddonReturns(TRUE)
       \/ /\ Cached(app).life = "absent" /\ Current(addon) /\ Stored(addon).life = "deleting"
          /\ addon' = Append(addon, [Stored(addon) EXCEPT !.fin = FALSE, !.life = "gone"])
          /\ AddonReturns(FALSE)
       \/ /\ Cached(app).life = "absent" /\ (~Current(addon) \/ Stored(addon).life = "gone")
          /\ UNCHANGED addon
          /\ AddonReturns(TRUE)
    /\ UNCHANGED <<app, AddonElse>>

\* A call of the reconcile fails.  A dependency check, a values source or a call
\* for the Application that fails is reported in the status, the first without and
\* the others with a requeue (updateStatus).  Every other failure, that of
\* applicationExists among them, is returned and the key retried.
AddonFails ==
    /\ addonWorker.pc # "idle"
    /\ faults < MaxFaults
    /\ faults' = faults + 1
    /\ LET new == addonWorker.new
       IN  \/ /\ addonWorker.pc = "values"
              /\ AddonGoesOn("status",
                    [new EXCEPT !.conds = SetProgressing("DependencyCheckFailed")])
           \/ /\ addonWorker.pc = "values" /\ DependenciesMet
              /\ AddonGoesOn("status",
                    [new EXCEPT !.conds = SetDegraded("ValuesNotResolved")])
           \/ /\ addonWorker.pc = "application"
              /\ AddonGoesOn("status",
                    [new EXCEPT !.conds = SetDegraded("ApplicationFailed")])
           \/ /\ addonWorker.pc # "application"
              /\ addonWorker.pc = "values" => DependenciesMet /\ inputs # "unresolved"
              /\ AddonReturns(TRUE)
    /\ UNCHANGED <<objects, phaseQueue, phaseWorker, world, changes, healthyWith>>

AddonStep ==
    \/ ReconcileAddon \/ AddonEnsureFinalizer \/ AddonComputeValues
    \/ CreateApplication \/ ApplicationNotVisible \/ ApplicationUpToDate
    \/ UpdateApplication \/ AddonUpdateStatus
    \/ AddonDeleteApp \/ AddonRemoveFinalizer

=============================================================================
