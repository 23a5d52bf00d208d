--------------------------- MODULE PhaseController ---------------------------
(***************************************************************************)
(* One reconcile of the AddonPhase, as AddonPhaseReconciler runs it: read  *)
(* the cached phase, make sure of the finalizer, evaluate the rules        *)
(* against the cached Addon, patch the selectors of the active rules into  *)
(* the Addon's status, and write the phase's own status; or, for a phase   *)
(* being deleted, clear the selectors and take the finalizer off.          *)
(***************************************************************************)
EXTENDS RuleEvaluator

\* What a reconcile holds: the phase it read, and the phase whose status it is
\* going to write.
PhaseWorker == [pc : {"idle", "finalizer", "evaluate", "patch", "status",
                      "update", "clear", "remove"},
                old : Phase, new : Phase]

PhaseIdle == [pc |-> "idle", old |-> NewPhase("live"), new |-> NewPhase("live")]

PhaseElse == <<app, addonQueue, addonWorker, world, changes, faults, healthyWith>>

PhaseReturns(requeue) ==
    /\ phaseWorker' = PhaseIdle
    /\ phaseQueue' = (phaseQueue \/ requeue)

PhaseGoesOn(pc, new) ==
    /\ phaseWorker' = [phaseWorker EXCEPT !.pc = pc, !.new = new]
    /\ UNCHANGED phaseQueue

PhaseStart(pc, p) ==
    [pc |-> pc, old |-> p, new |-> [p EXCEPT !.conds = EnsureAllConditions(p.conds)]]

\* Get; a phase that has its finalizer needs no call before the evaluation.
ReconcilePhase ==
    /\ phaseQueue /\ phaseWorker.pc = "idle"
    /\ phaseQueue' = FALSE
    /\ LET p == Cached(phase)
       IN  phaseWorker' =
              CASE p.life \in {"absent", "gone"} -> PhaseIdle
                [] p.life = "deleting" /\ ~p.fin -> PhaseIdle
                [] p.life = "deleting" /\ p.fin -> [PhaseIdle EXCEPT !.pc = "clear"]
                [] p.life = "live" /\ ~p.fin -> PhaseStart("finalizer", p)
                [] p.life = "live" /\ p.fin -> PhaseStart("evaluate", p)
    /\ UNCHANGED <<addon, phase, PhaseElse>>

PhaseEnsureFinalizer ==
    /\ phaseWorker.pc = "finalizer"
    /\ \/ /\ Cached(phase).fin
          /\ UNCHANGED phase
          /\ PhaseGoesOn("evaluate", phaseWorker.new)
       \/ /\ ~Cached(phase).fin /\ Current(phase) /\ Cached(phase).life = "live"
          /\ phase' = Append(phase, [Stored(phase) EXCEPT !.fin = TRUE])
          /\ PhaseGoesOn("evaluate", phaseWorker.new)
       \/ /\ ~Cached(phase).fin /\ (~Current(phase) \/ Cached(phase).life = "gone")
          /\ UNCHANGED phase
          /\ PhaseReturns(TRUE)
    /\ UNCHANGED <<addon, PhaseElse>>

\* The criteria that hold: those on other objects, and those on the target.
Satisfied(a) == (truth \ SelfCriteria) \union {c \in SelfCriteria : a.conds.ready}

\* The rule statuses of a reconcile that read Addon a.
RulesFor(a) ==
    latchDeployedRules(EvaluateRules(phaseWorker.old.rules, Satisfied(a)), a)

PhaseEvaluate ==
    /\ phaseWorker.pc = "evaluate"
    /\ \/ /\ Cached(addon).life = "gone"
          /\ PhaseGoesOn("update",
                [phaseWorker.new EXCEPT !.conds = SetProgressing("TargetAddonNotFound")])
       \/ /\ Cached(addon).life # "gone"
          /\ LET rules == RulesFor(Cached(addon))
             IN  PhaseGoesOn(IF Cached(addon).phaseSel = ActiveSelectors(rules)
                             THEN "status" ELSE "patch",
                             [phaseWorker.new EXCEPT !.rules = rules,
                                 !.conds = SetReady("FullyReconciled")])
    /\ UNCHANGED <<addon, phase, PhaseElse>>

\* A criterion cannot be evaluated (its source cannot be read).
PhaseEvaluationFails ==
    /\ phaseWorker.pc = "evaluate" /\ Cached(addon).life # "gone"
    /\ faults < MaxFaults
    /\ faults' = faults + 1
    /\ PhaseGoesOn("update",
          [phaseWorker.new EXCEPT !.conds = SetProgressing("EvaluationFailed")])
    /\ UNCHANGED <<objects, addonQueue, addonWorker, world, changes, healthyWith>>

\* A merge patch from the cached Addon to the same Addon with these selectors:
\* it is empty when the cached copy has them already, and it carries no
\* resourceVersion.
AfterPatch(selectors) ==
    IF Cached(addon).phaseSel = selectors THEN addon
    ELSE Written(addon, [Stored(addon) EXCEPT !.phaseSel = selectors])

\* The Addon is gone from the API server but not yet from the cache: even an
\* empty patch is answered with NotFound.
PatchNotFound == Cached(addon).life # "gone" /\ Stored(addon).life = "gone"

\* The phase that is written when the patch has failed: the statuses of the rules
\* are those it had.
PhasePatchFailed ==
    [phaseWorker.new EXCEPT !.rules = phaseWorker.old.rules,
                            !.conds = SetProgressing("PatchFailed")]

patchAddonStatus ==
    /\ phaseWorker.pc = "patch"
    /\ LET selectors == ActiveSelectors(phaseWorker.new.rules)
       IN  \/ /\ Cached(addon).life = "gone"
              /\ UNCHANGED addon
              /\ PhaseGoesOn("status", phaseWorker.new)
           \/ /\ Cached(addon).life # "gone" /\ ~PatchNotFound
              /\ CanWrite(addon) \/ Cached(addon).phaseSel = selectors
              /\ addon' = AfterPatch(selectors)
              /\ PhaseGoesOn("status", phaseWorker.new)
           \/ /\ PatchNotFound
              /\ UNCHANGED addon
              /\ PhaseGoesOn("update", PhasePatchFailed)
    /\ UNCHANGED <<phase, PhaseElse>>

PhaseStatusAfterApply(new) ==
    [new EXCEPT !.life = Stored(phase).life, !.fin = Stored(phase).fin]

\* applyStatus: the whole status is replaced.
PhaseUpdateStatus ==
    /\ phaseWorker.pc = "status"
    /\ \/ /\ phaseWorker.new = phaseWorker.old
          /\ UNCHANGED phase
          /\ PhaseReturns(FALSE)
       \/ /\ phaseWorker.new # phaseWorker.old /\ Stored(phase).life # "gone"
          /\ CanWrite(phase)
          /\ phase' = Written(phase, PhaseStatusAfterApply(phaseWorker.new))
          /\ PhaseReturns(FALSE)
       \/ /\ phaseWorker.new # phaseWorker.old /\ Stored(phase).life = "gone"
          /\ UNCHANGED phase
          /\ PhaseReturns(TRUE)
    /\ UNCHANGED <<addon, PhaseElse>>

\* updateStatusNoRequeue and updateStatusAndRequeue: an update with the
\* resourceVersion of the phase that was read.
PhaseUpdateError ==
    /\ phaseWorker.pc = "update"
    /\ \/ /\ Stored(phase) = phaseWorker.old /\ CanWrite(phase)
          /\ phase' = Written(phase, phaseWorker.new)
          /\ PhaseReturns(phaseWorker.new.conds.reason # "TargetAddonNotFound")
       \/ /\ Stored(phase) # phaseWorker.old
          /\ UNCHANGED phase
          /\ PhaseReturns(TRUE)
    /\ UNCHANGED <<addon, PhaseElse>>

clearAddonStatus ==
    /\ phaseWorker.pc = "clear"
    /\ \/ /\ Cached(addon).life = "gone"
          /\ UNCHANGED addon
          /\ PhaseGoesOn("remove", phaseWorker.new)
       \/ /\ Cached(addon).life # "gone" /\ ~PatchNotFound
          /\ CanWrite(addon) \/ Cached(addon).phaseSel = {}
          /\ addon' = AfterPatch({})
          /\ PhaseGoesOn("remove", phaseWorker.new)
       \/ /\ PatchNotFound
          /\ UNCHANGED addon
          /\ PhaseReturns(TRUE)
    /\ UNCHANGED <<phase, PhaseElse>>

PhaseRemoveFinalizer ==
    /\ phaseWorker.pc = "remove"
    /\ \/ /\ Current(phase) /\ Stored(phase).life = "deleting"
          /\ phase' = Append(phase, [Stored(phase) EXCEPT !.fin = FALSE, !.life = "gone"])
          /\ PhaseReturns(FALSE)
       \/ /\ ~Current(phase) \/ Stored(phase).life = "gone"
          /\ UNCHANGED phase
          /\ PhaseReturns(TRUE)
    /\ UNCHANGED <<addon, PhaseElse>>

\* Another call of the reconcile fails.  A failed patch is reported in the status,
\* and the key is requeued; every other failure is returned, and the key retried.
PhaseFails ==
    /\ phaseWorker.pc # "idle"
    /\ faults < MaxFaults
    /\ faults' = faults + 1
    /\ IF phaseWorker.pc = "patch" THEN PhaseGoesOn("update", PhasePatchFailed)
                                  ELSE PhaseReturns(TRUE)
    /\ UNCHANGED <<objects, addonQueue, addonWorker, world, changes, healthyWith>>

PhaseStep ==
    \/ ReconcilePhase \/ PhaseEnsureFinalizer \/ PhaseEvaluate \/ patchAddonStatus
    \/ PhaseUpdateStatus \/ PhaseUpdateError \/ clearAddonStatus \/ PhaseRemoveFinalizer

=============================================================================
