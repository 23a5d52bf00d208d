------------------------------- MODULE Operator -------------------------------
(***************************************************************************)
(* The operator: the Addon and the AddonPhase controller at work on one    *)
(* Addon, its phase and its Application.                                   *)
(***************************************************************************)
EXTENDS AddonController, PhaseController

vars == <<addon, phase, app, addonQueue, phaseQueue, addonWorker, phaseWorker,
          truth, version, inputs, argo, changes, faults, healthyWith>>

\* Every object version, every local of a reconcile and the world have the
\* types the Go structs give them, and no object is more than MaxLag versions
\* ahead of the cache.
TypeOK ==
    /\ addon \in Versions(Addon) /\ phase \in Versions(Phase) /\ app \in Versions(App)
    /\ addonQueue \in BOOLEAN /\ phaseQueue \in BOOLEAN
    /\ addonWorker \in AddonWorker /\ phaseWorker \in PhaseWorker
    /\ truth \in SUBSET Criteria /\ version \in 1..MaxVersion
    /\ inputs \in {"ok", "unmet", "unresolved"} /\ argo \in Verdicts
    /\ changes \in 0..MaxChanges /\ faults \in 0..MaxFaults
    /\ healthyWith \in SUBSET Values

\* The Addon has just been created; its phase may exist or not, and so may what
\* it depends on.
InitNew ==
    /\ addon = <<NewAddon>> /\ app = <<NoApp>>
    /\ phase \in {<<NewPhase("absent")>>, <<NewPhase("live")>>}
    /\ addonQueue = TRUE /\ phaseQueue = (phase[1].life = "live")
    /\ truth \in SUBSET (Criteria \ SelfCriteria)
    /\ inputs \in {"ok", "unmet"}
    /\ healthyWith = {}

\* No criterion held so far, the Application runs, the Addon is Ready, and the
\* phase is about to be reconciled (it is whenever the Addon changes).
SettledValues == [sel |-> {}, ver |-> 1]

InitSettled ==
    /\ addon = <<[NewAddon EXCEPT !.fin = TRUE, !.hash = SettledValues, !.synced = TRUE,
                     !.healthy = TRUE, !.deployed = TRUE, !.conds = SetReady("FullyReconciled")]>>
    /\ app = <<[NewApp(SettledValues) EXCEPT !.compared = SettledValues,
                     !.sync = TRUE, !.health = TRUE]>>
    /\ phase = <<[NewPhase("live") EXCEPT !.fin = TRUE, !.conds = SetReady("FullyReconciled")]>>
    /\ addonQueue = FALSE /\ phaseQueue = TRUE
    /\ truth = {}
    /\ inputs = "ok"
    /\ healthyWith = {SettledValues}

Init ==
    /\ IF Settled THEN InitSettled ELSE InitNew
    /\ addonWorker = AddonIdle /\ phaseWorker = PhaseIdle
    /\ version = 1
    /\ argo = [sync |-> TRUE, health |-> TRUE]
    /\ changes = 0 /\ faults = 0

\* The operator is restarted: what the reconciles held is lost, the informers
\* list everything anew and every object is enqueued.
Restart ==
    /\ faults < MaxFaults
    /\ faults' = faults + 1
    /\ addon' = <<Stored(addon)>> /\ phase' = <<Stored(phase)>> /\ app' = <<Stored(app)>>
    /\ addonWorker' = AddonIdle /\ phaseWorker' = PhaseIdle
    /\ addonQueue' = TRUE /\ phaseQueue' = TRUE
    /\ UNCHANGED <<world, changes, healthyWith>>

Fault == AddonFails \/ PhaseEvaluationFails \/ PhaseFails \/ Restart

Next == AddonStep \/ PhaseStep \/ Deliver \/ UserStep \/ ArgoStep \/ Fault

Spec == Init /\ [][Next]_vars

\* Workers run, informers deliver, Argo CD compares and deletes.  Nothing is
\* assumed of users and of faults, which are finitely many.
Fairness ==
    /\ WF_vars(AddonStep) /\ WF_vars(PhaseStep)
    /\ WF_vars(DeliverAddon) /\ WF_vars(DeliverPhase) /\ WF_vars(DeliverApp)
    /\ WF_vars(ArgoRefresh) /\ WF_vars(ArgoFinishDelete)

FairSpec == Spec /\ Fairness

-----------------------------------------------------------------------------
(* Properties. *)

\* A Ready Addon runs on values for which Argo CD has reported Synced and
\* Healthy: no stale sync status, no status of another spec and no conditions
\* of an earlier reconcile make it Ready (isComparedToCurrent, updateStatus).
ReadySound ==
    \A i \in 1..Len(addon) : addon[i].conds.ready => addon[i].hash \in healthyWith

\* A rule is marked Deployed only if Argo CD has reported Synced and Healthy
\* for values with that rule's selector in them, although the phase learns of
\* it through two status writes and two informers (latchDeployedRules).
RuleDeployedSound ==
    \A r \in Rules : Stored(phase).rules[r].deployed =>
        \E v \in healthyWith : r \in v.sel

\* Nothing is queued, running, undelivered or left to do for Argo CD.
Quiescent ==
    /\ ~addonQueue /\ ~phaseQueue
    /\ addonWorker.pc = "idle" /\ phaseWorker.pc = "idle"
    /\ Current(addon) /\ Current(phase) /\ Current(app)
    /\ Stored(app).life = "absent" \/ (Stored(app).life = "live" /\ Compared = Stored(app))

\* The Addon says of its dependencies what need not be so any more, and nothing
\* will make it look again: it depends on an object that is not watched, or the
\* dependency check has failed twice, the second time with nothing new to write.
MayBeStale(a) ==
    \/ a.conds.reason = "DependenciesNotMet" /\ "resource" \in Kinds
    \/ a.conds.reason = "DependencyCheckFailed" /\ faults >= 2

\* When everything has come to rest, no event was lost: the selectors in the
\* Addon are those of the rules that match, the rules match what their
\* criteria say now, rules of a Ready Addon are marked Deployed, and, when the
\* inputs are there, the Application has the values of those selectors and the
\* Addon is Ready exactly if Argo CD is content.  A failed call does not change
\* that: it is retried, or the status it leaves behind brings the Addon back, but
\* for the two cases of MayBeStale.
RestIsConsistent ==
    Quiescent /\ Stored(addon).life = "live" /\ ~Stored(addon).paused =>
        LET a == Stored(addon)  p == Stored(phase)  x == Stored(app)
        IN  /\ p.life = "live" =>
                  /\ a.phaseSel = ActiveSelectors(p.rules)
                  /\ \A r \in Rules :
                        p.rules[r].matched = evaluateRule(r, Satisfied(a), p.rules[r].latched)
                  /\ a.conds.ready => \A r \in a.phaseSel : p.rules[r].deployed
            /\ inputs = "ok" /\ ~MayBeStale(a) =>
                  /\ x.life = "live" /\ x.spec = [sel |-> a.phaseSel, ver |-> version]
                  /\ a.hash = x.spec
                  /\ a.conds.ready = (argo.sync /\ argo.health)

\* An Addon does not disappear before it has asked for the deletion of its
\* Application, even of one the cache does not know yet (reconcileDelete).
NoOrphanApplication ==
    Stored(addon).life = "gone" => Stored(app).life # "live"

\* status.deployed of an Addon is never reset: not by a reconcile that started
\* from a cached copy older than the write that set it (applyStatus).
DeployedNeverReset ==
    [][Stored(addon).deployed => Stored(addon)'.deployed]_vars

\* The selectors in the Addon's status change only to those that the running
\* reconcile of its phase has found active, or to none for a phase that is being
\* deleted: an Addon status computed from an older copy, and written while the
\* phase was patching, does not bring old selectors back (applyStatus).
SelectorsOwnedByPhase ==
    [][Stored(addon)'.phaseSel # Stored(addon).phaseSel =>
          \/ /\ phaseWorker.pc = "patch"
             /\ Stored(addon)'.phaseSel = ActiveSelectors(phaseWorker.new.rules)
          \/ phaseWorker.pc = "clear" /\ Stored(addon)'.phaseSel = {}]_vars

\* When a deleted phase is gone and all is at rest, its selectors are gone from
\* the Addon (clearAddonStatus).
NoSelectorsOfGonePhase ==
    Stored(phase).life = "gone" /\ Quiescent => Stored(addon).phaseSel = {}

\* The Addon is wanted, its inputs are there, Argo CD finds the workload in order.
Favourable ==
    /\ Stored(addon).life = "live" /\ ~Stored(addon).paused
    /\ inputs = "ok" /\ argo = [sync |-> TRUE, health |-> TRUE]

\* If the circumstances are favourable from some point on, the Addon becomes
\* Ready and stays so, whatever failed or was Degraded before (the requeues and
\* the watches of SetupWithManager, the order of the tests in Reconcile).
BecomesReady == <>[]Favourable => <>[](Stored(addon).conds.ready)

\* An Addon and a phase that are being deleted do disappear (the requeues of
\* both reconcileDelete).
DeletionEnds ==
    /\ Stored(addon).life = "deleting" ~> Stored(addon).life = "gone"
    /\ Stored(phase).life = "deleting" ~> Stored(phase).life = "gone"

=============================================================================
