--------------------------- MODULE OperatorProofs ---------------------------
(***************************************************************************)
(* Proofs about Operator, for any rules, criteria and bounds: what each    *)
(* step writes, type correctness, who owns the selectors, and why no       *)
(* Application is left behind.                                             *)
(***************************************************************************)
EXTENDS Operator, ObjectVersionsProofs

-----------------------------------------------------------------------------
(* Objects. *)

LEMMA ReasonTypes ==
    /\ "Initializing" \in Reasons /\ "FullyReconciled" \in Reasons /\ "Paused" \in Reasons
    /\ "DependenciesNotMet" \in Reasons /\ "DependencyCheckFailed" \in Reasons
    /\ "ValuesNotResolved" \in Reasons
    /\ "WaitingForStableValues" \in Reasons /\ "ApplicationFailed" \in Reasons
    /\ "NotSynced" \in Reasons /\ "TargetAddonNotFound" \in Reasons
    /\ "EvaluationFailed" \in Reasons /\ "PatchFailed" \in Reasons
BY DEF Reasons

LEMMA NewTypes ==
    /\ NewAddon \in Addon /\ AddonIdle \in AddonWorker
    /\ NoApp \in App /\ \A v \in Values : NewApp(v) \in App
    /\ \A l \in {"absent", "live", "deleting", "gone"} : NewPhase(l) \in Phase
    /\ PhaseIdle \in PhaseWorker
<1>1. NoConditions \in Conditions
  BY DEF NoConditions, Primary, Conditions, Reasons
<1>2. NewAddon \in Addon
  BY <1>1 DEF NewAddon, Addon
<1>3. AddonIdle \in AddonWorker
  BY <1>2 DEF AddonIdle, AddonWorker
<1>4. NoApp \in App /\ \A v \in Values : NewApp(v) \in App
  BY DEF NoApp, NewApp, App
<1>5. \A l \in {"absent", "live", "deleting", "gone"} : NewPhase(l) \in Phase
  BY <1>1 DEF NewPhase, Phase, NoRuleStatus, RuleStatus
<1>6. PhaseIdle \in PhaseWorker
  BY <1>5 DEF PhaseIdle, PhaseWorker
<1>7. QED BY <1>2, <1>3, <1>4, <1>5, <1>6

LEMMA StateTypes ==
    ASSUME TypeOK
    PROVE  /\ addon \in Versions(Addon) /\ phase \in Versions(Phase) /\ app \in Versions(App)
           /\ Cached(addon) \in Copies(addon) /\ Stored(addon) \in Copies(addon)
           /\ Cached(app) \in Copies(app) /\ Stored(app) \in Copies(app)
           /\ Cached(phase) \in Copies(phase) /\ Stored(phase) \in Copies(phase)
           /\ Cached(addon) \in Addon /\ Stored(addon) \in Addon
           /\ Cached(app) \in App /\ Stored(app) \in App
           /\ Cached(phase) \in Phase /\ Stored(phase) \in Phase
           /\ Current(addon) => Stored(addon) = Cached(addon)
           /\ Current(app) => Stored(app) = Cached(app)
           /\ Current(phase) => Stored(phase) = Cached(phase)
           /\ addonWorker \in AddonWorker /\ addonWorker.old \in Addon /\ addonWorker.new \in Addon
           /\ phaseWorker \in PhaseWorker /\ phaseWorker.old \in Phase /\ phaseWorker.new \in Phase
<1>1. addon \in Versions(Addon) /\ phase \in Versions(Phase) /\ app \in Versions(App)
  BY DEF TypeOK
<1>2. addonWorker.old \in Addon /\ addonWorker.new \in Addon
  BY DEF TypeOK, AddonWorker
<1>3. phaseWorker.old \in Phase /\ phaseWorker.new \in Phase
  BY DEF TypeOK, PhaseWorker
<1>4. QED BY <1>1, <1>2, <1>3, VersionsEnds DEF TypeOK

\* The parts of an Addon's status that the Addon controller computes together.
SameStatus(a, b) ==
    /\ a.hash = b.hash /\ a.observed = b.observed /\ a.conds = b.conds
    /\ a.synced = b.synced /\ a.healthy = b.healthy

\* What a reconcile starts with.
LEMMA StartFields ==
    ASSUME NEW a \in Addon
    PROVE  LET w == AddonStart("values", a)
           IN  /\ w \in AddonWorker /\ w.old = a /\ w.pc \in {"values", "status"}
               /\ ~a.paused => w.pc = "values"
               /\ w.pc = "status" => w.new.conds = SetPaused(EnsureAllConditions(a.conds))
               /\ w.new.hash = a.hash /\ w.new.observed = a.observed /\ w.new.synced = a.synced
               /\ w.new.healthy = a.healthy /\ w.new.phaseSel = a.phaseSel
               /\ \/ w.new.conds = EnsureAllConditions(a.conds)
                  \/ w.new.conds = SetPaused(EnsureAllConditions(a.conds))
<1> DEFINE n == [a EXCEPT !.conds = EnsureAllConditions(a.conds)]
           p == [n EXCEPT !.conds = SetPaused(n.conds)]
           w == AddonStart("values", a)
<1>1. a.conds \in Conditions
  BY DEF Addon
<1>2. /\ EnsureAllConditions(a.conds) \in Conditions
      /\ SetPaused(EnsureAllConditions(a.conds)) \in Conditions
  BY <1>1, ConditionTypes, ReasonTypes
<1>3. /\ n \in Addon /\ n.conds = EnsureAllConditions(a.conds) /\ n.hash = a.hash
      /\ n.observed = a.observed /\ n.synced = a.synced /\ n.healthy = a.healthy
      /\ n.phaseSel = a.phaseSel
  BY <1>2 DEF Addon
<1>4. /\ p \in Addon /\ p.conds = SetPaused(EnsureAllConditions(a.conds)) /\ p.hash = a.hash
      /\ p.observed = a.observed /\ p.synced = a.synced /\ p.healthy = a.healthy
      /\ p.phaseSel = a.phaseSel
  BY <1>2, <1>3 DEF Addon
<1>5. AddonStart("values", a) = IF a.paused
          THEN [AddonIdle EXCEPT !.pc = "status", !.old = a, !.new = p]
          ELSE [AddonIdle EXCEPT !.pc = "values", !.old = a, !.new = n]
  BY DEF AddonStart
<1> HIDE DEF n, p, w
<1>6. CASE a.paused
  <2>1. w = [pc |-> "status", old |-> a, new |-> p, requeue |-> FALSE]
    BY <1>5, <1>6 DEF AddonIdle, w
  <2>2. w.pc = "status" /\ w.old = a /\ w.new = p
    BY <2>1
  <2>3. w \in AddonWorker
    BY <1>4, <2>1 DEF AddonWorker
  <2>4. QED BY <1>4, <1>6, <2>2, <2>3 DEF w
<1>7. CASE ~a.paused
  <2>1. w = [pc |-> "values", old |-> a, new |-> n, requeue |-> FALSE]
    BY <1>5, <1>7 DEF AddonIdle, w
  <2>2. w.pc = "values" /\ w.old = a /\ w.new = n
    BY <2>1
  <2>3. w \in AddonWorker
    BY <1>3, <2>1 DEF AddonWorker
  <2>4. QED BY <1>3, <2>2, <2>3 DEF w
<1>8. QED BY <1>6, <1>7

\* What becomes of an Addon's status when the Application's is translated.
LEMMA TranslatedFields ==
    ASSUME NEW a \in Addon, NEW x \in App
    PROVE  LET t == Translated(a, x)
           IN  /\ t \in Addon /\ t.hash = a.hash /\ t.conds = a.conds /\ t.phaseSel = a.phaseSel
               /\ t.observed = a.phaseSel
               /\ t.synced <=> (x.sync /\ x.compared = x.spec /\ x.compared # NoValues)
               /\ t.healthy = x.health
<1>1. x.sync \in BOOLEAN /\ x.health \in BOOLEAN /\ a.phaseSel \in SUBSET Rules
  BY DEF App, Addon
<1> DEFINE b == x.sync /\ x.compared = x.spec /\ x.compared # NoValues
<1>2. b \in BOOLEAN /\ (b <=> (x.sync /\ x.compared = x.spec /\ x.compared # NoValues))
  OBVIOUS
<1>3. Translated(a, x) = [a EXCEPT !.synced = b, !.healthy = x.health, !.observed = a.phaseSel]
  BY DEF Translated
<1> HIDE DEF b
<1>4. QED BY <1>1, <1>2, <1>3 DEF Addon

\* What is concluded from it.
LEMMA ConcludedFields ==
    ASSUME NEW a \in Addon
    PROVE  LET t == Concluded(a)
           IN  /\ t \in Addon /\ t.hash = a.hash /\ t.observed = a.observed
               /\ t.synced = a.synced /\ t.healthy = a.healthy /\ t.phaseSel = a.phaseSel
               /\ \/ a.synced /\ a.healthy /\ t.conds = SetReady("FullyReconciled")
                  \/ ~(a.synced /\ a.healthy) /\ t.conds = SetProgressing("NotSynced")
                  \/ ~(a.synced /\ a.healthy) /\ t.conds = a.conds /\ a.conds.degraded
<1>1. a.conds \in Conditions
  BY DEF Addon
<1>2. SetReady("FullyReconciled") \in Conditions /\ SetProgressing("NotSynced") \in Conditions
  BY <1>1, ConditionTypes, ReasonTypes
<1>3. CASE a.synced /\ a.healthy
  <2>1. Concluded(a) = [a EXCEPT !.conds = SetReady("FullyReconciled"), !.deployed = TRUE]
    BY <1>3 DEF Concluded
  <2>2. QED BY <1>2, <1>3, <2>1 DEF Addon
<1>4. CASE ~(a.synced /\ a.healthy) /\ ~a.conds.degraded
  <2>1. Concluded(a) = [a EXCEPT !.conds = SetProgressing("NotSynced")]
    BY <1>4 DEF Concluded
  <2>2. QED BY <1>2, <1>4, <2>1 DEF Addon
<1>5. CASE ~(a.synced /\ a.healthy) /\ a.conds.degraded
  BY <1>5 DEF Concluded
<1>6. QED BY <1>3, <1>4, <1>5

\* The status written keeps what belongs to the API server and to the phase.
LEMMA AppliedFields ==
    ASSUME TypeOK, NEW a \in Addon
    PROVE  LET t == StatusAfterApply(a)
           IN  /\ t \in Addon /\ SameStatus(t, a)
               /\ t.life = Stored(addon).life /\ t.fin = Stored(addon).fin
               /\ t.phaseSel = Stored(addon).phaseSel
<1>1. Stored(addon) \in Addon
  BY StateTypes
<1>2. QED BY <1>1 DEF StatusAfterApply, Addon, SameStatus

\* The rules of a phase after an evaluation.
LEMMA RulesFields ==
    ASSUME TypeOK, NEW a \in Addon
    PROVE  /\ RulesFor(a) \in [Rules -> RuleStatus]
           /\ \A r \in Rules : RulesFor(a)[r].deployed =>
                 \/ phaseWorker.old.rules[r].deployed
                 \/ a.synced /\ a.healthy /\ r \in a.observed
<1> DEFINE e == EvaluateRules(phaseWorker.old.rules, Satisfied(a))
<1>1. phaseWorker.old.rules \in [Rules -> RuleStatus]
  BY StateTypes DEF Phase
<1>2. e \in [Rules -> RuleStatus] /\ \A r \in Rules : e[r].deployed = phaseWorker.old.rules[r].deployed
  BY <1>1 DEF EvaluateRules, evaluateRule, hasKeepableCriteria, RuleStatus
<1>3. RulesFor(a) = latchDeployedRules(e, a)
  BY DEF RulesFor
<1> HIDE DEF e
<1>4. \A r \in Rules : e[r].matched <=> r \in ActiveSelectors(e)
  BY DEF ActiveSelectors
<1>5. ASSUME NEW r \in Rules
      PROVE  /\ latchDeployedRules(e, a)[r] \in RuleStatus
             /\ latchDeployedRules(e, a)[r].deployed =>
                    \/ phaseWorker.old.rules[r].deployed
                    \/ a.synced /\ a.healthy /\ r \in a.observed
  <2> DEFINE b == e[r].deployed \/ (e[r].matched /\ SpeaksOf(a, ActiveSelectors(e)))
  <2>1. latchDeployedRules(e, a)[r] = [e[r] EXCEPT !.deployed = b]
    BY DEF latchDeployedRules
  <2>2. b \in BOOLEAN
    OBVIOUS
  <2>3. e[r] \in RuleStatus
    BY <1>2
  <2>4. b => phaseWorker.old.rules[r].deployed \/ (a.synced /\ a.healthy /\ r \in a.observed)
    BY <1>2, <1>4 DEF SpeaksOf
  <2> HIDE DEF b
  <2>5. QED BY <2>1, <2>2, <2>3, <2>4 DEF RuleStatus
<1>6. latchDeployedRules(e, a) \in [Rules -> RuleStatus]
  BY <1>5 DEF latchDeployedRules
<1>7. QED BY <1>3, <1>5, <1>6


-----------------------------------------------------------------------------
(* What a step writes. *)

\* The Addon is written as n.
WritesAddon(n) == (CanWrite(addon) \/ Current(addon)) /\ addon' = Append(addon, n)

\* How version n of an Addon follows the stored one: users and the finalizers
\* change what is not status, the Addon controller what it computes, and the
\* phase the selectors.
UserWrite(n) ==
    /\ Stored(addon).life = "live" /\ n.fin = Stored(addon).fin
    /\ n.life \in {"live", IF Stored(addon).fin THEN "deleting" ELSE "gone"}
    /\ SameStatus(n, Stored(addon)) /\ n.phaseSel = Stored(addon).phaseSel

FinalizerWrite(n) ==
    /\ addonWorker.pc = "finalizer"
    /\ Stored(addon).life = "live" /\ n.fin /\ n.life = "live"
    /\ SameStatus(n, Stored(addon)) /\ n.phaseSel = Stored(addon).phaseSel

StatusWrite(n) ==
    /\ addonWorker.pc = "status" /\ Stored(addon).life # "gone"
    /\ n.fin = Stored(addon).fin /\ n.life = Stored(addon).life
    /\ SameStatus(n, addonWorker.new) /\ n.phaseSel = Stored(addon).phaseSel

RemovalWrite(n) ==
    /\ addonWorker.pc = "awaitApp" /\ Current(addon) /\ Stored(addon).life = "deleting"
    /\ ~n.fin /\ n.life = "gone"
    /\ SameStatus(n, Stored(addon)) /\ n.phaseSel = Stored(addon).phaseSel

SelectorWrite(n) ==
    /\ Stored(addon).life # "gone"
    /\ n.fin = Stored(addon).fin /\ n.life = Stored(addon).life
    /\ SameStatus(n, Stored(addon))
    /\ \/ phaseWorker.pc = "patch" /\ n.phaseSel = ActiveSelectors(phaseWorker.new.rules)
       \/ phaseWorker.pc = "clear" /\ n.phaseSel = {}

AddonWrite(n) ==
    UserWrite(n) \/ FinalizerWrite(n) \/ StatusWrite(n) \/ RemovalWrite(n) \/ SelectorWrite(n)

\* Every step writes the Addon in one of these ways, delivers it, or leaves it
\* alone.
LEMMA AddonVersions ==
    ASSUME TypeOK, [Next]_vars
    PROVE  \/ addon' = addon
           \/ /\ DeliverAddon /\ ~Current(addon) /\ addon' = Tail(addon)
              /\ UNCHANGED <<addonWorker, app>>
           \/ addon' = <<Stored(addon)>> /\ Restart
           \/ \E n \in Addon : WritesAddon(n) /\ AddonWrite(n)
<1> DEFINE a == Stored(addon)
<1>1. a \in Addon
  BY StateTypes
<1>2. CASE Deliver
  BY <1>2 DEF Deliver, DeliverAddon, DeliverPhase, DeliverApp
<1>3. CASE UserStep
  <2>1. CASE CreatePhase \/ DeletePhase \/ DeleteAppExternally
    BY <2>1 DEF CreatePhase, DeletePhase, DeleteAppExternally
  <2>2. CASE FlipCriterion \/ EditValues \/ ChangeInputs \/ ChangeResource \/ ChangeVerdict
    BY <2>2 DEF FlipCriterion, EditValues, ChangeInputs, ChangeResource, ChangeVerdict, objects
  <2>3. CASE DeleteAddon
    <3> DEFINE l == IF a.fin THEN "deleting" ELSE "gone"
               n == [a EXCEPT !.life = l]
    <3>1. a.life = "live" /\ WritesAddon(n)
      BY <2>3 DEF DeleteAddon, WritesAddon
    <3>2. l \in {"deleting", "gone"}
      OBVIOUS
    <3> HIDE DEF l
    <3>3. n \in Addon /\ n.fin = a.fin /\ n.life = l /\ SameStatus(n, a) /\ n.phaseSel = a.phaseSel
      BY <1>1, <3>2 DEF Addon, SameStatus
    <3> HIDE DEF n
    <3>4. UserWrite(n)
      BY <3>1, <3>3 DEF UserWrite, l
    <3>5. QED BY <3>1, <3>3, <3>4 DEF AddonWrite
  <2>4. CASE TogglePause
    <3> DEFINE n == [a EXCEPT !.paused = ~a.paused]
    <3>1. a.life = "live" /\ WritesAddon(n)
      BY <2>4 DEF TogglePause, WritesAddon
    <3>2. n \in Addon /\ n.fin = a.fin /\ n.life = a.life /\ SameStatus(n, a) /\ n.phaseSel = a.phaseSel
      BY <1>1 DEF Addon, SameStatus
    <3> HIDE DEF n
    <3>3. UserWrite(n)
      BY <3>1, <3>2 DEF UserWrite
    <3>4. QED BY <3>1, <3>2, <3>3 DEF AddonWrite
  <2>5. QED BY <1>3, <2>1, <2>2, <2>3, <2>4 DEF UserStep
<1>4. CASE ArgoStep
  BY <1>4 DEF ArgoStep, ArgoRefresh, ArgoFinishDelete
<1>5. CASE Fault
  BY <1>5 DEF Fault, AddonFails, PhaseEvaluationFails, PhaseFails, Restart, objects
<1>6. CASE AddonStep
  <2>1. CASE ReconcileAddon \/ AddonComputeValues \/ CreateApplication \/ ApplicationNotVisible
             \/ ApplicationUpToDate \/ UpdateApplication \/ AddonDeleteApp
    BY <2>1 DEF ReconcileAddon, AddonComputeValues, CreateApplication, ApplicationNotVisible,
                ApplicationUpToDate, UpdateApplication, AddonDeleteApp
  <2>2. CASE AddonEnsureFinalizer
    <3> DEFINE n == [a EXCEPT !.fin = TRUE]
    <3>1. /\ addonWorker.pc = "finalizer"
          /\ \/ addon' = addon
             \/ a.life = "live" /\ WritesAddon(n)
      BY <2>2, StateTypes DEF AddonEnsureFinalizer, WritesAddon
    <3>2. n \in Addon /\ n.fin /\ n.life = a.life /\ SameStatus(n, a) /\ n.phaseSel = a.phaseSel
      BY <1>1 DEF Addon, SameStatus
    <3> HIDE DEF n
    <3>3. a.life = "live" => FinalizerWrite(n)
      BY <3>1, <3>2 DEF FinalizerWrite
    <3>4. QED BY <3>1, <3>2, <3>3 DEF AddonWrite
  <2>3. CASE AddonUpdateStatus
    <3> DEFINE n == StatusAfterApply(addonWorker.new)
    <3>1. /\ addonWorker.pc = "status"
          /\ addon' = addon \/ (a.life # "gone" /\ WritesAddon(n))
      BY <2>3 DEF AddonUpdateStatus, Written, WritesAddon
    <3>2. /\ n \in Addon /\ SameStatus(n, addonWorker.new) /\ n.fin = a.fin /\ n.life = a.life
          /\ n.phaseSel = a.phaseSel
      BY AppliedFields, StateTypes
    <3> HIDE DEF n
    <3>3. a.life # "gone" => StatusWrite(n)
      BY <3>1, <3>2 DEF StatusWrite
    <3>4. QED BY <3>1, <3>2, <3>3 DEF AddonWrite
  <2>4. CASE AddonRemoveFinalizer
    <3> DEFINE n == [a EXCEPT !.fin = FALSE, !.life = "gone"]
    <3>1. /\ addonWorker.pc = "awaitApp"
          /\ addon' = addon \/ (Current(addon) /\ a.life = "deleting" /\ WritesAddon(n))
      BY <2>4 DEF AddonRemoveFinalizer, WritesAddon
    <3>2. n \in Addon /\ ~n.fin /\ n.life = "gone" /\ SameStatus(n, a) /\ n.phaseSel = a.phaseSel
      BY <1>1 DEF Addon, SameStatus
    <3> HIDE DEF n
    <3>3. Current(addon) /\ a.life = "deleting" => RemovalWrite(n)
      BY <3>1, <3>2 DEF RemovalWrite
    <3>4. QED BY <3>1, <3>2, <3>3 DEF AddonWrite
  <2>5. QED BY <1>6, <2>1, <2>2, <2>3, <2>4 DEF AddonStep
<1>7. CASE PhaseStep
  <2>1. CASE ReconcilePhase \/ PhaseEnsureFinalizer \/ PhaseEvaluate \/ PhaseUpdateStatus
             \/ PhaseUpdateError \/ PhaseRemoveFinalizer
    BY <2>1 DEF ReconcilePhase, PhaseEnsureFinalizer, PhaseEvaluate, PhaseUpdateStatus,
                PhaseUpdateError, PhaseRemoveFinalizer
  <2>2. ASSUME NEW s \in SUBSET Rules, Cached(addon).life # "gone", ~PatchNotFound,
               CanWrite(addon) \/ Cached(addon).phaseSel = s, addon' = AfterPatch(s),
               \/ phaseWorker.pc = "patch" /\ s = ActiveSelectors(phaseWorker.new.rules)
               \/ phaseWorker.pc = "clear" /\ s = {}
        PROVE  addon' = addon \/ \E n \in Addon : WritesAddon(n) /\ AddonWrite(n)
    <3> DEFINE n == [a EXCEPT !.phaseSel = s]
    <3>1. addon' = addon \/ (a.life # "gone" /\ WritesAddon(n))
      BY <2>2 DEF AfterPatch, Written, PatchNotFound, WritesAddon
    <3>2. n \in Addon /\ n.fin = a.fin /\ n.life = a.life /\ SameStatus(n, a) /\ n.phaseSel = s
      BY <1>1 DEF Addon, SameStatus
    <3> HIDE DEF n
    <3>3. a.life # "gone" => SelectorWrite(n)
      BY <2>2, <3>2 DEF SelectorWrite
    <3>4. QED BY <3>1, <3>2, <3>3 DEF AddonWrite
  <2>3. CASE patchAddonStatus
    <3>1. ActiveSelectors(phaseWorker.new.rules) \in SUBSET Rules
      BY DEF ActiveSelectors
    <3>2. QED BY <2>2, <2>3, <3>1 DEF patchAddonStatus
  <2>4. CASE clearAddonStatus
    <3>1. {} \in SUBSET Rules
      OBVIOUS
    <3>2. QED BY <2>2, <2>4, <3>1 DEF clearAddonStatus
  <2>5. QED BY <1>7, <2>1, <2>3, <2>4 DEF PhaseStep
<1>8. CASE UNCHANGED vars
  BY <1>8 DEF vars
<1>9. QED BY <1>2, <1>3, <1>4, <1>5, <1>6, <1>7, <1>8 DEF Next


\* The same for the Application: Argo CD compares it, a deletion is asked for or
\* done, and the Addon controller creates or updates it.
WritesApp(x) == (CanWrite(app) \/ Current(app)) /\ app' = Append(app, x)

RefreshWrite(x) ==
    /\ Stored(app).life # "absent" /\ x = Compared
    /\ healthyWith' = IF argo.sync /\ argo.health
                      THEN healthyWith \union {Stored(app).spec} ELSE healthyWith

DeletionWrite(x) ==
    /\ x = NoApp \/ (Stored(app).life # "absent" /\ x = [Stored(app) EXCEPT !.life = "deleting"])
    /\ \/ Stored(app).life = "deleting" /\ x = NoApp
       \/ "deleteApp" \in Kinds
       \/ addonWorker.pc = "deleteApp"

CreateWrite(x) ==
    /\ addonWorker.pc = "application" /\ Cached(app).life = "absent"
    /\ Stored(app).life = "absent" /\ x = NewApp(addonWorker.new.hash)

UpdateWrite(x) ==
    /\ addonWorker.pc = "application" /\ Current(app) /\ Stored(app).life # "absent"
    /\ x = UpdatedApp

AppWrite(x) == RefreshWrite(x) \/ DeletionWrite(x) \/ CreateWrite(x) \/ UpdateWrite(x)

\* What Argo CD has reported stays reported, and only its comparisons add to it.
LEMMA AppVersions ==
    ASSUME TypeOK, [Next]_vars
    PROVE  \/ /\ \/ app' = app
                 \/ /\ DeliverApp /\ ~Current(app) /\ app' = Tail(app)
                    /\ UNCHANGED <<addonWorker, addon>>
                 \/ app' = <<Stored(app)>> /\ Restart
              /\ UNCHANGED healthyWith
           \/ \E x : /\ WritesApp(x) /\ AppWrite(x)
                     /\ RefreshWrite(x) \/ UNCHANGED healthyWith
                     /\ addonWorker' = addonWorker \/ addonWorker.pc \in {"application", "deleteApp"}
                     /\ UNCHANGED addon
<1>1. CASE Deliver
  BY <1>1 DEF Deliver, DeliverAddon, DeliverPhase, DeliverApp
<1>2. CASE UserStep
  <2>1. CASE DeleteAppExternally
    <3>1. /\ Stored(app).life = "live" /\ "deleteApp" \in Kinds /\ WritesApp(DeletedApp)
          /\ UNCHANGED <<healthyWith, addonWorker, addon>>
      BY <2>1 DEF DeleteAppExternally, Change, WritesApp
    <3>2. DeletionWrite(DeletedApp)
      BY <3>1 DEF DeletionWrite, DeletedApp
    <3>3. QED BY <3>1, <3>2 DEF AppWrite
  <2>2. CASE ~DeleteAppExternally
    BY <1>2, <2>2 DEF UserStep, CreatePhase, DeletePhase, DeleteAddon, TogglePause, FlipCriterion,
                      EditValues, ChangeInputs, ChangeResource, ChangeVerdict, Change, objects
  <2>3. QED BY <2>1, <2>2
<1>3. CASE ArgoStep
  <2>1. CASE ArgoRefresh
    <3>1. WritesApp(Compared) /\ RefreshWrite(Compared) /\ UNCHANGED <<addonWorker, addon>>
      BY <2>1 DEF ArgoRefresh, RefreshWrite, WritesApp
    <3>2. QED BY <3>1 DEF AppWrite
  <2>2. CASE ArgoFinishDelete
    <3>1. /\ WritesApp(NoApp) /\ DeletionWrite(NoApp)
          /\ UNCHANGED <<healthyWith, addonWorker, addon>>
      BY <2>2 DEF ArgoFinishDelete, DeletionWrite, WritesApp
    <3>2. QED BY <3>1 DEF AppWrite
  <2>3. QED BY <1>3, <2>1, <2>2 DEF ArgoStep
<1>4. CASE Fault
  BY <1>4 DEF Fault, AddonFails, PhaseEvaluationFails, PhaseFails, Restart, objects
<1>5. CASE AddonStep
  <2>1. UNCHANGED healthyWith
    BY <1>5 DEF AddonStep, ReconcileAddon, AddonEnsureFinalizer, AddonComputeValues,
                CreateApplication, ApplicationNotVisible, ApplicationUpToDate, UpdateApplication,
                AddonUpdateStatus, AddonDeleteApp, AddonRemoveFinalizer, AddonElse
  <2>2. CASE ReconcileAddon \/ AddonEnsureFinalizer \/ AddonComputeValues \/ ApplicationNotVisible
             \/ ApplicationUpToDate \/ AddonUpdateStatus \/ AddonRemoveFinalizer
    BY <2>1, <2>2 DEF ReconcileAddon, AddonEnsureFinalizer, AddonComputeValues,
                      ApplicationNotVisible, ApplicationUpToDate, AddonUpdateStatus,
                      AddonRemoveFinalizer
  <2>3. CASE CreateApplication
    <3> DEFINE x == NewApp(addonWorker.new.hash)
    <3>1. WritesApp(x) /\ CreateWrite(x) /\ addonWorker.pc = "application" /\ UNCHANGED addon
      BY <2>3 DEF CreateApplication, WritesApp, CreateWrite
    <3>2. QED BY <2>1, <3>1 DEF AppWrite
  <2>4. CASE UpdateApplication
    <3>1. /\ addonWorker.pc = "application" /\ UNCHANGED addon
          /\ app' = app \/ (WritesApp(UpdatedApp) /\ UpdateWrite(UpdatedApp))
      BY <2>4, StateTypes DEF UpdateApplication, WritesApp, UpdateWrite
    <3>2. QED BY <2>1, <3>1 DEF AppWrite
  <2>5. CASE AddonDeleteApp
    <3>1. /\ addonWorker.pc = "deleteApp" /\ UNCHANGED addon
          /\ app' = app \/ WritesApp(DeletedApp)
      BY <2>5 DEF AddonDeleteApp, AppAfterDelete, Written, WritesApp
    <3>2. DeletionWrite(DeletedApp)
      BY <3>1 DEF DeletionWrite, DeletedApp
    <3>3. QED BY <2>1, <3>1, <3>2 DEF AppWrite
  <2>6. QED BY <1>5, <2>2, <2>3, <2>4, <2>5 DEF AddonStep
<1>6. CASE PhaseStep
  BY <1>6 DEF PhaseStep, ReconcilePhase, PhaseEnsureFinalizer, PhaseEvaluate, patchAddonStatus,
              PhaseUpdateStatus, PhaseUpdateError, clearAddonStatus, PhaseRemoveFinalizer, PhaseElse
<1>7. CASE UNCHANGED vars
  BY <1>7 DEF vars
<1>8. QED BY <1>1, <1>2, <1>3, <1>4, <1>5, <1>6, <1>7 DEF Next

\* The same for the phase: the rules written are those stored, those of the
\* reconcile, or those of a new phase.
WritesPhase(p) == (CanWrite(phase) \/ Current(phase)) /\ phase' = Append(phase, p)

PhaseWrite(p) ==
    \/ p.rules = Stored(phase).rules
    \/ p.rules = phaseWorker.new.rules
    \/ p = NewPhase("live")

LEMMA PhaseVersions ==
    ASSUME TypeOK, [Next]_vars
    PROVE  \/ phase' = phase
           \/ DeliverPhase /\ ~Current(phase) /\ phase' = Tail(phase)
           \/ phase' = <<Stored(phase)>> /\ Restart
           \/ \E p \in Phase : WritesPhase(p) /\ PhaseWrite(p)
<1> DEFINE o == Stored(phase)
<1>1. o \in Phase /\ phaseWorker.new \in Phase
  BY StateTypes
<1>2. CASE Deliver
  BY <1>2 DEF Deliver, DeliverAddon, DeliverPhase, DeliverApp
<1>3. CASE UserStep
  <2>1. CASE CreatePhase
    <3>1. NewPhase("live") \in Phase
      BY NewTypes
    <3>2. WritesPhase(NewPhase("live")) /\ PhaseWrite(NewPhase("live"))
      BY <2>1 DEF CreatePhase, WritesPhase, PhaseWrite
    <3>3. QED BY <3>1, <3>2
  <2>2. CASE DeletePhase
    <3> DEFINE l == IF o.fin THEN "deleting" ELSE "gone"
               p == [o EXCEPT !.life = l]
    <3>1. WritesPhase(p)
      BY <2>2 DEF DeletePhase, WritesPhase
    <3>2. l \in {"deleting", "gone"}
      OBVIOUS
    <3> HIDE DEF l
    <3>3. p \in Phase /\ p.rules = o.rules
      BY <1>1, <3>2 DEF Phase
    <3> HIDE DEF p
    <3>4. QED BY <3>1, <3>3 DEF PhaseWrite
  <2>3. CASE ~CreatePhase /\ ~DeletePhase
    BY <1>3, <2>3 DEF UserStep, DeleteAddon, TogglePause, DeleteAppExternally, FlipCriterion,
                      EditValues, ChangeInputs, ChangeResource, ChangeVerdict, objects
  <2>4. QED BY <2>1, <2>2, <2>3
<1>4. CASE ArgoStep
  BY <1>4 DEF ArgoStep, ArgoRefresh, ArgoFinishDelete
<1>5. CASE Fault
  BY <1>5 DEF Fault, AddonFails, PhaseEvaluationFails, PhaseFails, Restart, objects
<1>6. CASE AddonStep
  BY <1>6 DEF AddonStep, ReconcileAddon, AddonEnsureFinalizer, AddonComputeValues,
              CreateApplication, ApplicationNotVisible, ApplicationUpToDate, UpdateApplication,
              AddonUpdateStatus, AddonDeleteApp, AddonRemoveFinalizer, AddonElse
<1>7. CASE PhaseStep
  <2>1. CASE ReconcilePhase \/ PhaseEvaluate \/ patchAddonStatus \/ clearAddonStatus
    BY <2>1 DEF ReconcilePhase, PhaseEvaluate, patchAddonStatus, clearAddonStatus
  <2>2. CASE PhaseEnsureFinalizer
    <3> DEFINE p == [o EXCEPT !.fin = TRUE]
    <3>1. phase' = phase \/ WritesPhase(p)
      BY <2>2 DEF PhaseEnsureFinalizer, WritesPhase
    <3>2. p \in Phase /\ p.rules = o.rules
      BY <1>1 DEF Phase
    <3> HIDE DEF p
    <3>3. QED BY <3>1, <3>2 DEF PhaseWrite
  <2>3. CASE PhaseUpdateStatus
    <3> DEFINE p == PhaseStatusAfterApply(phaseWorker.new)
    <3>1. phase' = phase \/ WritesPhase(p)
      BY <2>3 DEF PhaseUpdateStatus, Written, WritesPhase
    <3>2. p \in Phase /\ p.rules = phaseWorker.new.rules
      BY <1>1 DEF Phase, PhaseStatusAfterApply
    <3> HIDE DEF p
    <3>3. QED BY <3>1, <3>2 DEF PhaseWrite
  <2>4. CASE PhaseUpdateError
    <3>1. phase' = phase \/ WritesPhase(phaseWorker.new)
      BY <2>4 DEF PhaseUpdateError, Written, WritesPhase
    <3>2. QED BY <1>1, <3>1 DEF PhaseWrite
  <2>5. CASE PhaseRemoveFinalizer
    <3> DEFINE p == [o EXCEPT !.fin = FALSE, !.life = "gone"]
    <3>1. phase' = phase \/ WritesPhase(p)
      BY <2>5 DEF PhaseRemoveFinalizer, WritesPhase
    <3>2. p \in Phase /\ p.rules = o.rules
      BY <1>1 DEF Phase
    <3> HIDE DEF p
    <3>3. QED BY <3>1, <3>2 DEF PhaseWrite
  <2>6. QED BY <1>7, <2>1, <2>2, <2>3, <2>4, <2>5 DEF PhaseStep
<1>8. CASE UNCHANGED vars
  BY <1>8 DEF vars
<1>9. QED BY <1>2, <1>3, <1>4, <1>5, <1>6, <1>7, <1>8 DEF Next


-----------------------------------------------------------------------------
(* What a step makes of a reconcile. *)

\* An Application that is there was made from computed values; so Argo CD never
\* reports on NoValues.
HasValues ==
    /\ \A x \in Copies(app) : x.life # "absent" => x.spec \in Values
    /\ addonWorker.pc = "application" => addonWorker.new.hash \in Values

TypeInv == TypeOK /\ HasValues

\* The reconcile of the Addon starts as w.
Starts(w) ==
    /\ addonWorker.pc = "idle" /\ UNCHANGED <<addon, app>>
    /\ \/ w.pc = "deleteApp" /\ Cached(addon).life = "deleting"
       \/ w.pc = "finalizer" /\ Cached(addon).life = "live" /\ ~Cached(addon).fin
    /\ w.old = Cached(addon) /\ w.new = NewAddon

\* It goes on as w from copy a, which has or gets the finalizer.
StartsFrom(a, w) ==
    /\ w = AddonStart("values", a) /\ UNCHANGED app
    /\ \/ /\ addonWorker.pc = "idle" /\ a = Cached(addon) /\ a.life = "live" /\ a.fin
          /\ UNCHANGED addon
       \/ /\ addonWorker.pc = "finalizer" /\ a = addonWorker.old
          /\ \/ Cached(addon).fin /\ UNCHANGED addon
             \/ Current(addon) /\ addon' = Append(addon, [Stored(addon) EXCEPT !.fin = TRUE])

\* It computes the values, or says why it cannot; a dependency check that has
\* failed is a fault.
Computes(w) ==
    /\ addonWorker.pc = "values" /\ UNCHANGED <<addon, app>>
    /\ w.old = addonWorker.old /\ w.new.phaseSel = addonWorker.new.phaseSel
    /\ w.new.observed = addonWorker.new.observed
    /\ w.new.synced = addonWorker.new.synced /\ w.new.healthy = addonWorker.new.healthy
    /\ \/ /\ w.pc = "status"
          /\ \E why \in Reasons :
                /\ w.new.conds \in {SetProgressing(why), SetDegraded(why)}
                /\ why = "DependencyCheckFailed" =>
                      w.new.conds = SetProgressing(why) /\ faults' = faults + 1
       \/ /\ w.pc = "application" /\ w.new.hash = ComputedValues
          /\ w.new.conds = addonWorker.new.conds

\* What Application x says of its comparison, a version of it has said.
Reported(x) ==
    \/ ~x.sync
    \/ \E y \in Copies(app) : x.sync = y.sync /\ x.health = y.health /\ x.compared = y.compared

\* It applies the values, or fails to, and draws the conclusion.
Applies(w) ==
    /\ addonWorker.pc = "application" /\ w.pc = "status" /\ w.old = addonWorker.old
    /\ UNCHANGED addon
    /\ \/ \E x \in App : /\ x.spec = addonWorker.new.hash /\ Reported(x)
                         /\ Cached(app).life # "absent" \/ ~x.sync
                         /\ w.new = Concluded(Translated(addonWorker.new, x))
       \/ Cached(app).life = "absent" /\ w.new = Concluded(addonWorker.new)
       \/ w.new = [addonWorker.new EXCEPT !.conds = SetDegraded("ApplicationFailed")]

\* It waits for the Application it has asked to delete.
Awaits(w) ==
    /\ addonWorker.pc = "deleteApp" /\ w.pc = "awaitApp" /\ UNCHANGED addon
    /\ w.old = addonWorker.old /\ w.new = addonWorker.new
    /\ app' = Written(app, AppAfterDelete)

LEMMA AddonMoves ==
    ASSUME TypeInv, [Next]_vars
    PROVE  /\ addonWorker' \in AddonWorker
           /\ \/ addonWorker' = addonWorker \/ addonWorker' = AddonIdle
              \/ Starts(addonWorker') \/ (\E a \in Addon : StartsFrom(a, addonWorker'))
              \/ Computes(addonWorker') \/ Applies(addonWorker') \/ Awaits(addonWorker')
<1> DEFINE w == addonWorker
           Done == /\ addonWorker' \in AddonWorker
                   /\ \/ addonWorker' = w \/ addonWorker' = AddonIdle
                      \/ Starts(addonWorker') \/ (\E a \in Addon : StartsFrom(a, addonWorker'))
                      \/ Computes(addonWorker') \/ Applies(addonWorker') \/ Awaits(addonWorker')
<1> SUFFICES Done
  OBVIOUS
<1>0. TypeOK
  BY DEF TypeInv
<1>1. /\ w \in AddonWorker /\ w.old \in Addon /\ w.new \in Addon /\ Cached(addon) \in Addon
      /\ Cached(app) \in App /\ Stored(app) \in App /\ w.new.conds \in Conditions
      /\ Cached(app) \in Copies(app) /\ Stored(app) \in Copies(app)
  BY <1>0, StateTypes DEF Addon
<1>2. ASSUME addonWorker' \in {w, AddonIdle} PROVE Done
  BY <1>1, <1>2, NewTypes
<1>3. ASSUME NEW pc \in {"status", "application", "awaitApp"}, NEW n \in Addon, AddonGoesOn(pc, n)
      PROVE  addonWorker' \in AddonWorker /\ addonWorker'.pc = pc /\ addonWorker'.old = w.old
             /\ addonWorker'.new = n
  BY <1>1, <1>3 DEF AddonGoesOn, AddonWorker
<1>4. \A why \in Reasons : SetProgressing(why) \in Conditions /\ SetDegraded(why) \in Conditions
  BY <1>1, ConditionTypes
<1> HIDE DEF Done
<1>5. CASE AddonStep
  <2>1. CASE ReconcileAddon
    <3> DEFINE a == Cached(addon)
    <3>1. /\ addonWorker' = CASE a.life = "gone" -> AddonIdle
                 [] a.life = "deleting" -> [AddonIdle EXCEPT !.pc = "deleteApp", !.old = a]
                 [] a.life = "live" /\ ~a.fin -> [AddonIdle EXCEPT !.pc = "finalizer", !.old = a]
                 [] a.life = "live" /\ a.fin -> AddonStart("values", a)
          /\ w.pc = "idle" /\ UNCHANGED <<addon, app>>
      BY <2>1 DEF ReconcileAddon
    <3>2. a.life \in {"live", "deleting", "gone"} /\ a.fin \in BOOLEAN
      BY <1>1 DEF Addon
    <3> HIDE DEF a
    <3>3. CASE a.life = "gone"
      BY <1>2, <3>1, <3>3
    <3>4. CASE a.life = "deleting"
      <4>1. addonWorker' = [pc |-> "deleteApp", old |-> a, new |-> NewAddon, requeue |-> FALSE]
        BY <3>1, <3>4 DEF AddonIdle
      <4>2. addonWorker' \in AddonWorker
        BY <1>1, <4>1, NewTypes DEF AddonWorker, a
      <4>3. Starts(addonWorker')
        BY <3>1, <3>4, <4>1 DEF Starts, a
      <4>4. QED BY <4>2, <4>3 DEF Done
    <3>5. CASE a.life = "live" /\ ~a.fin
      <4>1. addonWorker' = [pc |-> "finalizer", old |-> a, new |-> NewAddon, requeue |-> FALSE]
        BY <3>1, <3>5 DEF AddonIdle
      <4>2. addonWorker' \in AddonWorker
        BY <1>1, <4>1, NewTypes DEF AddonWorker, a
      <4>3. Starts(addonWorker')
        BY <3>1, <3>5, <4>1 DEF Starts, a
      <4>4. QED BY <4>2, <4>3 DEF Done
    <3>6. CASE a.life = "live" /\ a.fin
      <4>1. addonWorker' = AddonStart("values", a)
        BY <3>1, <3>6
      <4>2. a \in Addon /\ addonWorker' \in AddonWorker
        BY <1>1, <4>1, StartFields DEF a
      <4>3. StartsFrom(a, addonWorker')
        BY <3>1, <3>6, <4>1 DEF StartsFrom, a
      <4>4. QED BY <4>2, <4>3 DEF Done
    <3>7. QED BY <3>2, <3>3, <3>4, <3>5, <3>6
  <2>2. CASE AddonEnsureFinalizer
    <3>1. addonWorker' = AddonIdle \/ StartsFrom(w.old, addonWorker')
      BY <2>2 DEF AddonEnsureFinalizer, AddonReturns, StartsFrom
    <3>2. StartsFrom(w.old, addonWorker') => addonWorker' \in AddonWorker
      BY <1>1, StartFields DEF StartsFrom
    <3>3. QED BY <1>1, <1>2, <3>1, <3>2 DEF Done
  <2>3. CASE AddonComputeValues
    <3> DEFINE n == w.new
               h == [n EXCEPT !.hash = ComputedValues]
    <3>1. ComputedValues \in Values
      BY <1>0, <1>1 DEF ComputedValues, Values, Addon, TypeOK
    <3>2. /\ h \in Addon /\ h.hash = ComputedValues /\ h.conds = n.conds /\ h.phaseSel = n.phaseSel
          /\ h.observed = n.observed /\ h.synced = n.synced /\ h.healthy = n.healthy
      BY <1>1, <3>1 DEF Addon
    <3>3. ASSUME NEW m \in {n, h}, NEW why \in Reasons,
                 NEW c \in {SetProgressing(why), SetDegraded(why)}
          PROVE  LET k == [m EXCEPT !.conds = c]
                 IN  /\ k \in Addon /\ k.conds = c /\ k.phaseSel = n.phaseSel
                     /\ k.observed = n.observed /\ k.synced = n.synced /\ k.healthy = n.healthy
      <4>1. m \in Addon /\ m.phaseSel = n.phaseSel /\ m.observed = n.observed
            /\ m.synced = n.synced /\ m.healthy = n.healthy
        BY <1>1, <3>2
      <4>2. c \in Conditions
        BY <1>4
      <4>3. QED BY <4>1, <4>2 DEF Addon
    <3>4. w.pc = "values" /\ UNCHANGED <<addon, app>>
      BY <2>3 DEF AddonComputeValues
    <3> DEFINE d == [n EXCEPT !.conds = SetProgressing("DependenciesNotMet")]
               u == [n EXCEPT !.conds = SetDegraded("ValuesNotResolved")]
               s == [h EXCEPT !.conds = SetProgressing("WaitingForStableValues")]
    <3>5. \/ AddonGoesOn("status", d) \/ AddonGoesOn("status", u) \/ AddonGoesOn("application", h)
          \/ addonWorker' = [w EXCEPT !.pc = "status", !.requeue = TRUE, !.new = s]
      BY <2>3 DEF AddonComputeValues
    <3>6. /\ d \in Addon /\ d.conds = SetProgressing("DependenciesNotMet")
          /\ d.phaseSel = n.phaseSel /\ d.observed = n.observed /\ d.synced = n.synced
          /\ d.healthy = n.healthy
      BY <3>3, ReasonTypes
    <3>7. /\ u \in Addon /\ u.conds = SetDegraded("ValuesNotResolved")
          /\ u.phaseSel = n.phaseSel /\ u.observed = n.observed /\ u.synced = n.synced
          /\ u.healthy = n.healthy
      BY <3>3, ReasonTypes
    <3>8. /\ s \in Addon /\ s.conds = SetProgressing("WaitingForStableValues")
          /\ s.phaseSel = n.phaseSel /\ s.observed = n.observed /\ s.synced = n.synced
          /\ s.healthy = n.healthy
      BY <3>3, ReasonTypes
    <3> HIDE DEF d, u, s, h
    <3>9. CASE AddonGoesOn("status", d)
      BY <1>3, <3>4, <3>6, <3>9, ReasonTypes DEF Done, Computes
    <3>10. CASE AddonGoesOn("status", u)
      BY <1>3, <3>4, <3>7, <3>10, ReasonTypes DEF Done, Computes
    <3>11. CASE AddonGoesOn("application", h)
      BY <1>3, <3>2, <3>4, <3>11 DEF Done, Computes
    <3>12. CASE addonWorker' = [w EXCEPT !.pc = "status", !.requeue = TRUE, !.new = s]
      <4>1. /\ addonWorker' \in AddonWorker /\ addonWorker'.pc = "status"
            /\ addonWorker'.old = w.old /\ addonWorker'.new = s
        BY <1>1, <3>8, <3>12 DEF AddonWorker
      <4>2. QED BY <3>4, <3>8, <4>1, ReasonTypes DEF Done, Computes
    <3>13. QED BY <3>5, <3>9, <3>10, <3>11, <3>12
  <2>4. ASSUME NEW x \in App, w.pc = "application", x.spec = w.new.hash, Reported(x),
               Cached(app).life # "absent" \/ ~x.sync, addon' = addon,
               AddonGoesOn("status", Concluded(Translated(w.new, x)))
        PROVE  Done
    <3>1. Concluded(Translated(w.new, x)) \in Addon
      BY <1>1, TranslatedFields, ConcludedFields
    <3>2. /\ addonWorker' \in AddonWorker /\ addonWorker'.pc = "status"
          /\ addonWorker'.old = w.old /\ addonWorker'.new = Concluded(Translated(w.new, x))
      BY <1>3, <2>4, <3>1
    <3>3. Applies(addonWorker')
      BY <2>4, <3>2 DEF Applies
    <3>4. QED BY <3>2, <3>3 DEF Done
  <2>5. CASE CreateApplication
    <3> DEFINE x == NewApp(w.new.hash)
    <3>1. w.pc = "application" /\ addon' = addon /\ AddonGoesOn("status", Concluded(Translated(w.new, x)))
      BY <2>5 DEF CreateApplication
    <3>2. x \in App /\ x.spec = w.new.hash /\ x.sync = FALSE
      BY <3>1, NewTypes DEF TypeInv, HasValues, NewApp, NoApp
    <3> HIDE DEF x
    <3>3. QED BY <2>4, <3>1, <3>2 DEF Reported
  <2>6. CASE ApplicationUpToDate
    BY <1>1, <2>4, <2>6 DEF ApplicationUpToDate, Reported
  <2>7. ASSUME NEW n \in Addon, w.pc = "application", AddonGoesOn("status", n), addon' = addon,
               \/ Cached(app).life = "absent" /\ n = Concluded(w.new)
               \/ n = [w.new EXCEPT !.conds = SetDegraded("ApplicationFailed")]
        PROVE  Done
    BY <1>3, <2>7 DEF Applies, Done
  <2>8. CASE ApplicationNotVisible
    <3>1. Concluded(w.new) \in Addon
      BY <1>1, ConcludedFields
    <3>2. QED BY <2>7, <2>8, <3>1 DEF ApplicationNotVisible
  <2>9. CASE UpdateApplication
    <3>1. /\ UpdatedApp \in App /\ UpdatedApp.spec = w.new.hash
          /\ UpdatedApp.sync = Stored(app).sync /\ UpdatedApp.health = Stored(app).health
          /\ UpdatedApp.compared = Stored(app).compared
      <4>1. w.new.hash \in Values \union {NoValues}
        BY <1>1 DEF Addon
      <4>2. QED BY <1>1, <4>1 DEF UpdatedApp, App
    <3>2. [w.new EXCEPT !.conds = SetDegraded("ApplicationFailed")] \in Addon
      BY <1>1, <1>4, ReasonTypes DEF Addon
    <3>3. /\ w.pc = "application" /\ addon' = addon /\ Cached(app).life # "absent"
          /\ \/ AddonGoesOn("status", Concluded(Translated(w.new, UpdatedApp)))
             \/ AddonGoesOn("status", [w.new EXCEPT !.conds = SetDegraded("ApplicationFailed")])
      BY <2>9 DEF UpdateApplication
    <3>4. Reported(UpdatedApp)
      BY <1>1, <3>1 DEF Reported
    <3>5. QED BY <2>4, <2>7, <3>1, <3>2, <3>3, <3>4
  <2>10. CASE AddonUpdateStatus \/ AddonRemoveFinalizer
    BY <1>2, <2>10 DEF AddonUpdateStatus, AddonRemoveFinalizer, AddonReturns
  <2>11. CASE AddonDeleteApp
    <3>1. CASE AddonGoesOn("awaitApp", w.new) /\ app' = Written(app, AppAfterDelete)
      <4>1. w.pc = "deleteApp" /\ UNCHANGED addon
        BY <2>11 DEF AddonDeleteApp
      <4>2. QED BY <1>1, <1>3, <3>1, <4>1 DEF Awaits, Done
    <3>2. QED BY <1>2, <2>11, <3>1 DEF AddonDeleteApp, AddonReturns
  <2>12. QED BY <1>5, <2>1, <2>2, <2>3, <2>5, <2>6, <2>8, <2>9, <2>10, <2>11 DEF AddonStep
<1>6. CASE ~AddonStep
  <2>1. CASE Deliver \/ UserStep \/ ArgoStep
    BY <1>2, <2>1 DEF Deliver, DeliverAddon, DeliverPhase, DeliverApp, UserStep, CreatePhase,
                      DeletePhase, DeleteAddon, TogglePause, DeleteAppExternally, FlipCriterion,
                      EditValues, ChangeInputs, ChangeResource, ChangeVerdict, Change, ArgoStep,
                      ArgoRefresh, ArgoFinishDelete
  <2>2. CASE PhaseStep
    BY <1>2, <2>2 DEF PhaseStep, ReconcilePhase, PhaseEnsureFinalizer, PhaseEvaluate,
                      patchAddonStatus, PhaseUpdateStatus, PhaseUpdateError, clearAddonStatus,
                      PhaseRemoveFinalizer, PhaseElse
  <2>3. CASE AddonFails
    <3> DEFINE d == [w.new EXCEPT !.conds = SetProgressing("DependencyCheckFailed")]
               u == [w.new EXCEPT !.conds = SetDegraded("ValuesNotResolved")]
               f == [w.new EXCEPT !.conds = SetDegraded("ApplicationFailed")]
    <3>1. /\ UNCHANGED <<addon, app>> /\ faults' = faults + 1
          /\ \/ w.pc = "values" /\ (AddonGoesOn("status", d) \/ AddonGoesOn("status", u))
             \/ w.pc = "application" /\ AddonGoesOn("status", f)
             \/ addonWorker' = AddonIdle
      BY <2>3 DEF AddonFails, AddonReturns, objects
    <3>2. ASSUME NEW c \in Conditions
          PROVE  LET k == [w.new EXCEPT !.conds = c]
                 IN  /\ k \in Addon /\ k.conds = c /\ k.phaseSel = w.new.phaseSel
                     /\ k.observed = w.new.observed /\ k.synced = w.new.synced
                     /\ k.healthy = w.new.healthy
      BY <1>1 DEF Addon
    <3>3. /\ SetProgressing("DependencyCheckFailed") \in Conditions
          /\ SetDegraded("ValuesNotResolved") \in Conditions
          /\ SetDegraded("ApplicationFailed") \in Conditions
      BY <1>4, ReasonTypes
    <3>4. CASE w.pc = "values" /\ AddonGoesOn("status", d)
      <4>1. /\ d \in Addon /\ d.conds = SetProgressing("DependencyCheckFailed")
            /\ d.phaseSel = w.new.phaseSel /\ d.observed = w.new.observed
            /\ d.synced = w.new.synced /\ d.healthy = w.new.healthy
        BY <3>2, <3>3
      <4> HIDE DEF d
      <4>2. QED BY <1>3, <3>1, <3>4, <4>1, ReasonTypes DEF Done, Computes
    <3>5. CASE w.pc = "values" /\ AddonGoesOn("status", u)
      <4>1. /\ u \in Addon /\ u.conds = SetDegraded("ValuesNotResolved")
            /\ u.phaseSel = w.new.phaseSel /\ u.observed = w.new.observed
            /\ u.synced = w.new.synced /\ u.healthy = w.new.healthy
        BY <3>2, <3>3
      <4> HIDE DEF u
      <4>2. QED BY <1>3, <3>1, <3>5, <4>1, ReasonTypes DEF Done, Computes
    <3>6. CASE w.pc = "application" /\ AddonGoesOn("status", f)
      <4>1. f \in Addon
        BY <3>2, <3>3
      <4>2. QED BY <1>3, <3>1, <3>6, <4>1 DEF Applies, Done
    <3>7. QED BY <1>2, <3>1, <3>4, <3>5, <3>6
  <2>4. CASE PhaseEvaluationFails \/ PhaseFails \/ Restart \/ UNCHANGED vars
    BY <1>2, <2>4 DEF PhaseEvaluationFails, PhaseFails, Restart, vars
  <2>5. QED BY <1>6, <2>1, <2>2, <2>3, <2>4 DEF Next, Fault
<1>7. QED BY <1>5, <1>6


\* The rules that the reconcile of the phase holds next: none, those it read,
\* those it had, or those it has evaluated.
PhaseMove(w) ==
    \/ w.old = NewPhase("live") /\ w.new = NewPhase("live")
    \/ w.old = Cached(phase) /\ w.new.rules = Cached(phase).rules
    \/ /\ w.old = phaseWorker.old
       /\ \/ w.new.rules = phaseWorker.new.rules
          \/ w.new.rules = phaseWorker.old.rules
          \/ w.new.rules = RulesFor(Cached(addon))

LEMMA PhaseMoves ==
    ASSUME TypeOK, [Next]_vars
    PROVE  phaseWorker' \in PhaseWorker /\ PhaseMove(phaseWorker')
<1> DEFINE w == phaseWorker
           p == Cached(phase)
           Done == phaseWorker' \in PhaseWorker /\ PhaseMove(phaseWorker')
<1> SUFFICES Done
  OBVIOUS
<1>1. /\ w \in PhaseWorker /\ w.old \in Phase /\ w.new \in Phase /\ p \in Phase
      /\ Cached(addon) \in Addon /\ w.new.conds \in Conditions /\ p.conds \in Conditions
  BY StateTypes DEF Phase
<1>2. ASSUME phaseWorker' = w PROVE Done
  BY <1>1, <1>2 DEF PhaseMove
<1>3. ASSUME phaseWorker' = PhaseIdle PROVE Done
  BY <1>3, NewTypes DEF PhaseMove, PhaseIdle
<1>4. ASSUME NEW pc \in {"evaluate", "patch", "status", "update", "remove"}, NEW n \in Phase,
             PhaseGoesOn(pc, n),
             \/ n.rules = w.new.rules \/ n.rules = w.old.rules
             \/ n.rules = RulesFor(Cached(addon))
      PROVE  Done
  <2>1. phaseWorker' \in PhaseWorker /\ phaseWorker'.old = w.old /\ phaseWorker'.new = n
    BY <1>1, <1>4 DEF PhaseGoesOn, PhaseWorker
  <2>2. QED BY <1>4, <2>1 DEF PhaseMove
<1>5. ASSUME NEW pc \in {"finalizer", "evaluate"}, phaseWorker' = PhaseStart(pc, p) PROVE Done
  <2> DEFINE n == [p EXCEPT !.conds = EnsureAllConditions(p.conds)]
  <2>1. EnsureAllConditions(p.conds) \in Conditions
    BY <1>1, ConditionTypes, ReasonTypes
  <2>2. n \in Phase /\ n.rules = p.rules
    BY <1>1, <2>1 DEF Phase
  <2>3. phaseWorker' = [pc |-> pc, old |-> p, new |-> n]
    BY <1>5 DEF PhaseStart
  <2> HIDE DEF n
  <2>4. phaseWorker' \in PhaseWorker /\ phaseWorker'.old = p /\ phaseWorker'.new = n
    BY <1>1, <2>2, <2>3 DEF PhaseWorker
  <2>5. QED BY <2>2, <2>4 DEF PhaseMove
<1>6. \A why \in Reasons : SetProgressing(why) \in Conditions /\ SetReady(why) \in Conditions
  BY <1>1, ConditionTypes
<1>7. ASSUME NEW why \in Reasons
      PROVE  LET n == [w.new EXCEPT !.conds = SetProgressing(why)]
             IN  n \in Phase /\ n.rules = w.new.rules
  BY <1>1, <1>6 DEF Phase
<1>0. PhasePatchFailed \in Phase /\ PhasePatchFailed.rules = w.old.rules
  <2> DEFINE c == SetProgressing("PatchFailed")
  <2>1. c \in Conditions /\ w.old.rules \in [Rules -> RuleStatus]
    BY <1>1, <1>6, ReasonTypes DEF Phase
  <2>2. PhasePatchFailed = [w.new EXCEPT !.rules = w.old.rules, !.conds = c]
    BY DEF PhasePatchFailed
  <2> HIDE DEF c
  <2>3. QED BY <1>1, <2>1, <2>2 DEF Phase
<1> HIDE DEF Done
<1>8. CASE PhaseStep
  <2>1. CASE ReconcilePhase
    <3>1. phaseWorker' = CASE p.life \in {"absent", "gone"} -> PhaseIdle
                [] p.life = "deleting" /\ ~p.fin -> PhaseIdle
                [] p.life = "deleting" /\ p.fin -> [PhaseIdle EXCEPT !.pc = "clear"]
                [] p.life = "live" /\ ~p.fin -> PhaseStart("finalizer", p)
                [] p.life = "live" /\ p.fin -> PhaseStart("evaluate", p)
      BY <2>1 DEF ReconcilePhase
    <3>2. p.life \in {"absent", "live", "deleting", "gone"} /\ p.fin \in BOOLEAN
      BY <1>1 DEF Phase
    <3>3. CASE phaseWorker' = [PhaseIdle EXCEPT !.pc = "clear"]
      <4>1. NewPhase("live") \in Phase
        BY NewTypes
      <4>2. phaseWorker' = [pc |-> "clear", old |-> NewPhase("live"), new |-> NewPhase("live")]
        BY <3>3 DEF PhaseIdle
      <4>3. QED BY <4>1, <4>2 DEF PhaseWorker, PhaseMove, Done
    <3> HIDE DEF p
    <3>4. \/ phaseWorker' = PhaseIdle \/ phaseWorker' = [PhaseIdle EXCEPT !.pc = "clear"]
          \/ phaseWorker' = PhaseStart("finalizer", p) \/ phaseWorker' = PhaseStart("evaluate", p)
      BY <3>1, <3>2
    <3>5. QED BY <1>3, <1>5, <3>3, <3>4
  <2>2. CASE PhaseEnsureFinalizer
    BY <1>1, <1>3, <1>4, <2>2 DEF PhaseEnsureFinalizer, PhaseReturns
  <2>3. CASE PhaseEvaluate
    <3> DEFINE m == [w.new EXCEPT !.conds = SetProgressing("TargetAddonNotFound")]
               rules == RulesFor(Cached(addon))
               c == SetReady("FullyReconciled")
               n == [w.new EXCEPT !.rules = rules, !.conds = c]
               pc == IF Cached(addon).phaseSel = ActiveSelectors(rules) THEN "status" ELSE "patch"
    <3>1. m \in Phase /\ m.rules = w.new.rules
      BY <1>7, ReasonTypes
    <3>2. rules \in [Rules -> RuleStatus] /\ c \in Conditions
      BY <1>1, <1>6, RulesFields, ReasonTypes
    <3>3. PhaseGoesOn("update", m) \/ PhaseGoesOn(pc, n)
      BY <2>3 DEF PhaseEvaluate
    <3>4. pc \in {"status", "patch"}
      OBVIOUS
    <3> HIDE DEF rules, c, pc, m
    <3>5. n \in Phase /\ n.rules = rules
      BY <1>1, <3>2 DEF Phase
    <3> HIDE DEF n
    <3>6. CASE PhaseGoesOn("update", m)
      BY <1>4, <3>1, <3>6
    <3>7. CASE PhaseGoesOn(pc, n)
      BY <1>4, <3>4, <3>5, <3>7 DEF rules
    <3>8. QED BY <3>3, <3>6, <3>7
  <2>4. CASE patchAddonStatus
    <3>1. PhaseGoesOn("status", w.new) \/ PhaseGoesOn("update", PhasePatchFailed)
      BY <2>4 DEF patchAddonStatus
    <3>2. QED BY <1>0, <1>1, <1>4, <3>1
  <2>5. CASE PhaseUpdateStatus \/ PhaseUpdateError \/ PhaseRemoveFinalizer
    BY <1>3, <2>5 DEF PhaseUpdateStatus, PhaseUpdateError, PhaseRemoveFinalizer, PhaseReturns
  <2>6. CASE clearAddonStatus
    BY <1>1, <1>3, <1>4, <2>6 DEF clearAddonStatus, PhaseReturns
  <2>7. QED BY <1>8, <2>1, <2>2, <2>3, <2>4, <2>5, <2>6 DEF PhaseStep
<1>9. CASE Fault
  <2>1. CASE PhaseEvaluationFails
    BY <1>4, <1>7, <2>1, ReasonTypes DEF PhaseEvaluationFails
  <2>2. CASE AddonFails \/ Restart
    BY <1>2, <1>3, <2>2 DEF AddonFails, Restart
  <2>3. CASE PhaseFails
    <3>1. PhaseGoesOn("update", PhasePatchFailed) \/ phaseWorker' = PhaseIdle
      BY <2>3 DEF PhaseFails, PhaseReturns
    <3>2. QED BY <1>0, <1>3, <1>4, <3>1
  <2>4. QED BY <1>9, <2>1, <2>2, <2>3 DEF Fault
<1>10. CASE Deliver \/ UserStep \/ ArgoStep
  BY <1>2, <1>10 DEF Deliver, DeliverAddon, DeliverPhase, DeliverApp, UserStep, CreatePhase,
                     DeletePhase, DeleteAddon, TogglePause, DeleteAppExternally, FlipCriterion,
                     EditValues, ChangeInputs, ChangeResource, ChangeVerdict, Change, ArgoStep,
                     ArgoRefresh, ArgoFinishDelete
<1>11. CASE AddonStep \/ UNCHANGED vars
  BY <1>2, <1>11 DEF AddonStep, ReconcileAddon, AddonEnsureFinalizer, AddonComputeValues,
                     CreateApplication, ApplicationNotVisible, ApplicationUpToDate,
                     UpdateApplication, AddonUpdateStatus, AddonDeleteApp, AddonRemoveFinalizer,
                     AddonElse, vars
<1>12. QED BY <1>8, <1>9, <1>10, <1>11 DEF Next



-----------------------------------------------------------------------------
(* Type correctness. *)

LEMMA TypeInit == Init => TypeInv
<1> SUFFICES ASSUME Init PROVE TypeInv
  OBVIOUS
<1>1. /\ AddonIdle \in AddonWorker /\ PhaseIdle \in PhaseWorker
      /\ AddonIdle.pc = "idle" /\ NewAddon \in Addon /\ NoApp \in App
      /\ NewPhase("absent") \in Phase /\ NewPhase("live") \in Phase
      /\ \A v \in Values : NewApp(v) \in App
  BY NewTypes DEF AddonIdle
<1>2. /\ version \in 1..MaxVersion /\ inputs \in {"ok", "unmet", "unresolved"}
      /\ argo \in Verdicts /\ changes \in 0..MaxChanges /\ faults \in 0..MaxFaults
      /\ addonWorker = AddonIdle /\ phaseWorker = PhaseIdle
  BY ConstantsAssumption DEF Init, InitNew, InitSettled, Verdicts
<1>3. CASE InitNew
  <2>1. addon \in Versions(Addon) /\ phase \in Versions(Phase) /\ app \in Versions(App)
    BY <1>1, <1>3, VersionsOne DEF InitNew
  <2>2. /\ addonQueue \in BOOLEAN /\ phaseQueue \in BOOLEAN /\ truth \in SUBSET Criteria
        /\ healthyWith \in SUBSET Values
    BY <1>3 DEF InitNew
  <2>3. TypeOK
    BY <1>1, <1>2, <2>1, <2>2 DEF TypeOK
  <2>4. Copies(app) = {NoApp} /\ NoApp.life = "absent"
    BY <1>1, <1>3, VersionsOne DEF InitNew, NoApp
  <2>5. QED BY <1>1, <1>2, <2>3, <2>4 DEF TypeInv, HasValues
<1>4. CASE InitSettled
  <2> DEFINE c == SetReady("FullyReconciled")
             a == [NewAddon EXCEPT !.fin = TRUE, !.hash = SettledValues, !.synced = TRUE,
                                   !.healthy = TRUE, !.deployed = TRUE, !.conds = c]
             n == NewApp(SettledValues)
             x == [n EXCEPT !.compared = SettledValues, !.sync = TRUE, !.health = TRUE]
             q == NewPhase("live")
             p == [q EXCEPT !.fin = TRUE, !.conds = c]
  <2>1. SettledValues \in Values /\ c \in Conditions
    <3>1. NoConditions \in Conditions
      BY <1>1 DEF Addon, NewAddon
    <3>2. c \in Conditions
      BY <3>1, ConditionTypes, ReasonTypes
    <3>3. SettledValues \in Values
      BY ConstantsAssumption DEF SettledValues, Values
    <3>4. QED BY <3>2, <3>3
  <2>2. addon = <<a>> /\ app = <<x>> /\ phase = <<p>>
    BY <1>4 DEF InitSettled
  <2>3. n \in App /\ n.spec = SettledValues /\ q \in Phase
    BY <1>1, <2>1 DEF NewApp, NoApp
  <2> HIDE DEF n, q, c
  <2>4. a \in Addon
    BY <1>1, <2>1 DEF Addon
  <2>5. x \in App /\ x.spec = SettledValues
    BY <2>1, <2>3 DEF App
  <2>6. p \in Phase
    BY <2>1, <2>3 DEF Phase
  <2> HIDE DEF a, x, p
  <2>7. addon \in Versions(Addon) /\ phase \in Versions(Phase) /\ app \in Versions(App)
    BY <2>2, <2>4, <2>5, <2>6, VersionsOne
  <2>8. /\ addonQueue \in BOOLEAN /\ phaseQueue \in BOOLEAN /\ truth \in SUBSET Criteria
        /\ healthyWith \in SUBSET Values
    BY <1>4, <2>1 DEF InitSettled
  <2>9. TypeOK
    BY <1>1, <1>2, <2>7, <2>8 DEF TypeOK
  <2>10. Copies(app) = {x}
    BY <2>2, <2>5, VersionsOne
  <2>11. QED BY <1>1, <1>2, <2>1, <2>5, <2>9, <2>10 DEF TypeInv, HasValues
<1>5. QED BY <1>3, <1>4 DEF Init

\* Whatever is written to the Application is one, made from computed values.
LEMMA AppWriteTypes ==
    ASSUME TypeInv, NEW x, AppWrite(x)
    PROVE  /\ x \in App
           /\ x.life # "absent" => x.spec \in Values
           /\ RefreshWrite(x) => healthyWith' \in SUBSET Values
<1>1. /\ Stored(app) \in App /\ addonWorker.new \in Addon /\ healthyWith \in SUBSET Values
      /\ argo.sync \in BOOLEAN /\ argo.health \in BOOLEAN
      /\ Stored(app).life # "absent" => Stored(app).spec \in Values
      /\ addonWorker.pc = "application" => addonWorker.new.hash \in Values
  BY StateTypes DEF TypeInv, TypeOK, Verdicts, HasValues
<1>2. CASE RefreshWrite(x)
  <2>1. x \in App /\ x.spec = Stored(app).spec
    BY <1>1, <1>2 DEF RefreshWrite, Compared, App
  <2>2. QED BY <1>1, <1>2, <2>1 DEF RefreshWrite
<1>3. CASE DeletionWrite(x)
  <2>1. CASE x = NoApp
    BY <2>1, NewTypes DEF NoApp, RefreshWrite, Compared
  <2>2. CASE Stored(app).life # "absent" /\ x = [Stored(app) EXCEPT !.life = "deleting"]
    <3>1. x \in App /\ x.spec = Stored(app).spec
      BY <1>1, <2>2 DEF App
    <3>2. QED BY <1>1, <1>2, <2>2, <3>1
  <2>3. QED BY <1>3, <2>1, <2>2 DEF DeletionWrite
<1>4. CASE CreateWrite(x)
  <2>1. x \in App /\ x.spec = addonWorker.new.hash
    BY <1>1, <1>4, NewTypes DEF CreateWrite, NewApp, NoApp
  <2>2. QED BY <1>1, <1>2, <1>4, <2>1 DEF CreateWrite
<1>5. CASE UpdateWrite(x)
  <2>1. x \in App /\ x.spec = addonWorker.new.hash
    BY <1>1, <1>5 DEF UpdateWrite, UpdatedApp, App
  <2>2. QED BY <1>1, <1>2, <1>5, <2>1 DEF UpdateWrite
<1>6. QED BY <1>2, <1>3, <1>4, <1>5 DEF AppWrite

LEMMA TypeStep == TypeInv /\ [Next]_vars => TypeInv'
<1> SUFFICES ASSUME TypeInv, [Next]_vars PROVE TypeInv'
  OBVIOUS
<1>1. TypeOK
  BY DEF TypeInv
<1>2. addonWorker' \in AddonWorker /\ phaseWorker' \in PhaseWorker
  BY <1>1, AddonMoves, PhaseMoves
<1>3. addon' \in Versions(Addon)
  <2>1. addon \in Versions(Addon) /\ Stored(addon) \in Addon
    BY <1>1, StateTypes
  <2>2. CASE ~Current(addon) /\ addon' = Tail(addon)
    BY <2>1, <2>2, VersionsTail
  <2>3. CASE addon' = <<Stored(addon)>>
    BY <2>1, <2>3, VersionsOne
  <2>4. ASSUME NEW n \in Addon, WritesAddon(n) PROVE addon' \in Versions(Addon)
    BY <2>1, <2>4, VersionsAppend DEF WritesAddon
  <2>5. QED BY <1>1, <2>1, <2>2, <2>3, <2>4, AddonVersions
<1>4. phase' \in Versions(Phase)
  <2>1. phase \in Versions(Phase) /\ Stored(phase) \in Phase
    BY <1>1, StateTypes
  <2>2. CASE ~Current(phase) /\ phase' = Tail(phase)
    BY <2>1, <2>2, VersionsTail
  <2>3. CASE phase' = <<Stored(phase)>>
    BY <2>1, <2>3, VersionsOne
  <2>4. ASSUME NEW p \in Phase, WritesPhase(p) PROVE phase' \in Versions(Phase)
    BY <2>1, <2>4, VersionsAppend DEF WritesPhase
  <2>5. QED BY <1>1, <2>1, <2>2, <2>3, <2>4, PhaseVersions
<1>5. /\ app' \in Versions(App) /\ healthyWith' \in SUBSET Values
      /\ \A y \in Copies(app)' : y.life # "absent" => y.spec \in Values
  <2>1. /\ app \in Versions(App) /\ Stored(app) \in App /\ Stored(app) \in Copies(app)
        /\ healthyWith \in SUBSET Values
        /\ \A y \in Copies(app) : y.life # "absent" => y.spec \in Values
    BY <1>1, StateTypes DEF TypeInv, TypeOK, HasValues
  <2>2. CASE app' = app /\ UNCHANGED healthyWith
    BY <2>1, <2>2
  <2>3. CASE ~Current(app) /\ app' = Tail(app) /\ UNCHANGED healthyWith
    BY <2>1, <2>3, VersionsTail
  <2>4. CASE app' = <<Stored(app)>> /\ UNCHANGED healthyWith
    BY <2>1, <2>4, VersionsOne
  <2>5. ASSUME NEW x, WritesApp(x), AppWrite(x), RefreshWrite(x) \/ UNCHANGED healthyWith
        PROVE  /\ app' \in Versions(App) /\ healthyWith' \in SUBSET Values
               /\ \A y \in Copies(app)' : y.life # "absent" => y.spec \in Values
    <3>1. /\ x \in App
          /\ x.life # "absent" => x.spec \in Values
          /\ healthyWith' \in SUBSET Values
      BY <2>1, <2>5, AppWriteTypes
    <3>2. app' \in Versions(App) /\ Copies(app') = Copies(app) \union {x}
      BY <2>1, <2>5, <3>1, VersionsAppend DEF WritesApp
    <3>3. QED BY <2>1, <3>1, <3>2
  <2>6. QED BY <1>1, <2>2, <2>3, <2>4, <2>5, AppVersions
<1>6. addonWorker'.pc = "application" => addonWorker'.new.hash \in Values
  <2>1. CASE addonWorker' = addonWorker
    BY <2>1 DEF TypeInv, HasValues
  <2>2. CASE Computes(addonWorker')
    <3>1. ComputedValues \in Values
      BY <1>1, StateTypes DEF ComputedValues, Values, Addon, TypeOK
    <3>2. QED BY <2>2, <3>1 DEF Computes
  <2>3. ASSUME NEW a \in Addon, StartsFrom(a, addonWorker') PROVE addonWorker'.pc # "application"
    <3>1. addonWorker' = AddonStart("values", a)
      BY <2>3 DEF StartsFrom
    <3>2. addonWorker'.pc \in {"values", "status"}
      BY <3>1, StartFields
    <3>3. QED BY <3>2
  <2>4. QED BY <2>1, <2>2, <2>3, AddonMoves DEF Starts, Applies, Awaits, AddonIdle
<1>7. /\ addonQueue' \in BOOLEAN /\ phaseQueue' \in BOOLEAN
      /\ truth' \in SUBSET Criteria /\ version' \in 1..MaxVersion
      /\ inputs' \in {"ok", "unmet", "unresolved"} /\ argo' \in Verdicts
      /\ changes' \in 0..MaxChanges /\ faults' \in 0..MaxFaults
  <2>1. /\ addonQueue \in BOOLEAN /\ phaseQueue \in BOOLEAN
        /\ truth \in SUBSET Criteria /\ version \in 1..MaxVersion
        /\ inputs \in {"ok", "unmet", "unresolved"} /\ argo \in Verdicts
        /\ changes \in 0..MaxChanges /\ faults \in 0..MaxFaults
    BY <1>1 DEF TypeOK
  <2>2. CASE Deliver \/ ArgoStep
    BY <2>1, <2>2 DEF Deliver, DeliverAddon, DeliverPhase, DeliverApp, ArgoStep, ArgoRefresh,
                      ArgoFinishDelete, world
  <2>3. CASE UserStep
    <3>1. changes' \in 0..MaxChanges /\ faults' = faults
      <4>1. changes < MaxChanges /\ changes' = changes + 1 /\ faults' = faults
        BY <2>3 DEF UserStep, CreatePhase, DeletePhase, DeleteAddon, TogglePause,
                    DeleteAppExternally, FlipCriterion, EditValues, ChangeInputs, ChangeResource,
                    ChangeVerdict, Change
      <4>2. QED BY <2>1, <4>1, ConstantsAssumption
    <3>2. QED
      BY <2>1, <2>3, <3>1
      DEF UserStep, CreatePhase, DeletePhase, DeleteAddon, TogglePause, DeleteAppExternally,
          FlipCriterion, EditValues, ChangeInputs, ChangeResource, ChangeVerdict, world
  <2>4. CASE Fault
    <3>1. faults' \in 0..MaxFaults /\ changes' = changes
      <4>1. faults < MaxFaults /\ faults' = faults + 1 /\ changes' = changes
        BY <2>4 DEF Fault, AddonFails, PhaseEvaluationFails, PhaseFails, Restart
      <4>2. QED BY <2>1, <4>1, ConstantsAssumption
    <3>2. QED
      BY <2>1, <2>4, <3>1
      DEF Fault, AddonFails, PhaseEvaluationFails, PhaseFails, Restart, AddonReturns,
          AddonGoesOn, PhaseReturns, PhaseGoesOn, world
  <2>5. CASE AddonStep
    BY <2>1, <2>5
    DEF AddonStep, ReconcileAddon, AddonEnsureFinalizer, AddonComputeValues, CreateApplication,
        ApplicationNotVisible, ApplicationUpToDate, UpdateApplication, AddonUpdateStatus,
        AddonDeleteApp, AddonRemoveFinalizer, AddonElse, AddonReturns, AddonGoesOn, world
  <2>6. CASE PhaseStep
    BY <2>1, <2>6
    DEF PhaseStep, ReconcilePhase, PhaseEnsureFinalizer, PhaseEvaluate, patchAddonStatus,
        PhaseUpdateStatus, PhaseUpdateError, clearAddonStatus, PhaseRemoveFinalizer, PhaseElse,
        PhaseReturns, PhaseGoesOn, world
  <2>7. CASE UNCHANGED vars
    BY <2>1, <2>7 DEF vars
  <2>8. QED BY <2>2, <2>3, <2>4, <2>5, <2>6, <2>7 DEF Next
<1>8. QED BY <1>2, <1>3, <1>4, <1>5, <1>6, <1>7 DEF TypeInv, TypeOK, HasValues

\* Every object version, every local of a reconcile and the world keep the types
\* the Go structs give them, and the cache is never further behind than MaxLag.
THEOREM OperatorTypeCorrect == Spec => []TypeOK
<1>1. TypeInv => TypeOK
  BY DEF TypeInv
<1>2. QED BY <1>1, TypeInit, TypeStep, PTL DEF Spec


-----------------------------------------------------------------------------
(* The stored object after a step. *)

LEMMA AddonFollows ==
    ASSUME TypeOK, [Next]_vars
    PROVE  \/ Stored(addon)' = Stored(addon) /\ Copies(addon)' \subseteq Copies(addon)
           \/ \E n \in Addon : /\ WritesAddon(n) /\ AddonWrite(n) /\ Stored(addon)' = n
                               /\ Copies(addon)' = Copies(addon) \union {n}
                               /\ addon' # addon
<1>1. addon \in Versions(Addon) /\ Stored(addon) \in Addon /\ Stored(addon) \in Copies(addon)
  BY StateTypes
<1>2. CASE ~Current(addon) /\ addon' = Tail(addon)
  BY <1>1, <1>2, VersionsTail
<1>3. CASE addon' = <<Stored(addon)>>
  BY <1>1, <1>3, VersionsOne
<1>4. ASSUME NEW n \in Addon, WritesAddon(n)
      PROVE  Stored(addon)' = n /\ Copies(addon)' = Copies(addon) \union {n} /\ addon' # addon
  <2>1. /\ Stored(addon)' = n /\ Copies(addon)' = Copies(addon) \union {n}
        /\ Len(addon') = Len(addon) + 1
    BY <1>1, <1>4, VersionsAppend DEF WritesAddon
  <2>2. Len(addon) \in Nat
    BY <1>1, VersionsEnds
  <2>3. QED BY <2>1, <2>2
<1>5. QED BY <1>1, <1>2, <1>3, <1>4, AddonVersions

LEMMA AppFollows ==
    ASSUME TypeInv, [Next]_vars
    PROVE  \/ /\ Stored(app)' = Stored(app) /\ Copies(app)' \subseteq Copies(app)
              /\ UNCHANGED healthyWith
           \/ \E x \in App : /\ WritesApp(x) /\ AppWrite(x) /\ Stored(app)' = x
                             /\ Copies(app)' = Copies(app) \union {x}
                             /\ RefreshWrite(x) \/ UNCHANGED healthyWith
                             /\ \/ addonWorker' = addonWorker
                                \/ addonWorker.pc \in {"application", "deleteApp"}
                             /\ UNCHANGED addon
<1>1. /\ TypeOK /\ app \in Versions(App) /\ Stored(app) \in App /\ Stored(app) \in Copies(app)
  BY StateTypes DEF TypeInv
<1>2. CASE ~Current(app) /\ app' = Tail(app) /\ UNCHANGED healthyWith
  BY <1>1, <1>2, VersionsTail
<1>3. CASE app' = <<Stored(app)>> /\ UNCHANGED healthyWith
  BY <1>1, <1>3, VersionsOne
<1>4. ASSUME NEW x, WritesApp(x), AppWrite(x)
      PROVE  x \in App /\ Stored(app)' = x /\ Copies(app)' = Copies(app) \union {x}
  <2>1. x \in App
    BY <1>4, AppWriteTypes
  <2>2. QED BY <1>1, <1>4, <2>1, VersionsAppend DEF WritesApp
<1>5. QED BY <1>1, <1>2, <1>3, <1>4, AppVersions

-----------------------------------------------------------------------------
(* Selectors. *)

\* The selectors in the Addon's status change only to those that the running
\* reconcile of the phase has found active, or to none for a phase that is being
\* deleted: applyStatus of the Addon controller never writes older ones back.
THEOREM SelectorsOwned == Spec => SelectorsOwnedByPhase
<1> DEFINE Owned == Stored(addon)'.phaseSel # Stored(addon).phaseSel =>
                \/ /\ phaseWorker.pc = "patch"
                   /\ Stored(addon)'.phaseSel = ActiveSelectors(phaseWorker.new.rules)
                \/ phaseWorker.pc = "clear" /\ Stored(addon)'.phaseSel = {}
<1>1. ASSUME TypeInv, [Next]_vars PROVE [Owned]_vars
  <2>1. TypeOK
    BY <1>1 DEF TypeInv
  <2>2. ASSUME NEW n \in Addon, AddonWrite(n), Stored(addon)' = n PROVE Owned
    BY <2>2 DEF AddonWrite, UserWrite, FinalizerWrite, StatusWrite, RemovalWrite, SelectorWrite
  <2>3. QED BY <1>1, <2>1, <2>2, AddonFollows
<1>2. QED BY <1>1, TypeInit, TypeStep, PTL DEF Spec, SelectorsOwnedByPhase

-----------------------------------------------------------------------------
(* Finalizers. *)

\* A reconcile that may create the Application runs under the finalizer, one
\* that is to remove the finalizer has asked for the deletion of the Application,
\* and an Application that is not being deleted has an Addon with the finalizer.
FinalizerInv ==
    /\ FinalizerHistory(addon)
    /\ addonWorker.pc = "finalizer" /\ (\E y \in Copies(addon) : y.fin) =>
           Stored(addon).life # "gone"
    /\ addonWorker.pc \in {"values", "application"} => Stored(addon).fin
    /\ addonWorker.pc = "awaitApp" => Stored(app).life # "live"
    /\ Stored(app).life = "live" => Stored(addon).fin

LEMMA FinalizerInit == Init => FinalizerInv
<1> SUFFICES ASSUME Init PROVE FinalizerInv
  OBVIOUS
<1>1. addonWorker.pc = "idle"
  BY DEF Init, AddonIdle
<1>2. TypeInv
  BY TypeInit
<1>3. CASE InitNew
  <2>1. NewAddon \in Addon /\ NoApp \in App
    BY NewTypes
  <2>2. /\ Copies(addon) = {NewAddon} /\ Stored(addon) = NewAddon /\ Stored(app) = NoApp
    BY <1>3, <2>1, VersionsOne DEF InitNew
  <2>3. NewAddon.fin = FALSE /\ NewAddon.life = "live" /\ NoApp.life = "absent"
    BY DEF NewAddon, NoApp
  <2>4. QED BY <1>1, <2>2, <2>3 DEF FinalizerInv, FinalizerHistory
<1>4. CASE InitSettled
  <2> DEFINE a == [NewAddon EXCEPT !.fin = TRUE, !.hash = SettledValues, !.synced = TRUE,
                       !.healthy = TRUE, !.deployed = TRUE, !.conds = SetReady("FullyReconciled")]
  <2>1. addon = <<a>>
    BY <1>4 DEF InitSettled
  <2>2. a.life = "live" /\ a.fin
    BY DEF NewAddon
  <2> HIDE DEF a
  <2>3. Copies(addon) = {a} /\ Stored(addon) = a
    BY <2>1, VersionsOne
  <2>4. QED BY <1>1, <2>2, <2>3 DEF FinalizerInv, FinalizerHistory
<1>5. QED BY <1>3, <1>4 DEF Init

\* No write takes the finalizer away but the one that ends a deletion, and that
\* one sees the stored Addon.
LEMMA FinalizerWrites ==
    ASSUME TypeOK, FinalizerInv, NEW n \in Addon, WritesAddon(n), AddonWrite(n)
    PROVE  /\ FinalizerHistory(addon')
           /\ Stored(addon).fin => n.fin \/ (addonWorker.pc = "awaitApp" /\ n.life = "gone")
           /\ n.life = "gone" => \/ addonWorker.pc = "awaitApp"
                                 \/ Stored(addon).life = "live"
<1> DEFINE a == Stored(addon)
<1>1. /\ addon \in Versions(Addon) /\ a \in Copies(addon) /\ a.life \in {"live", "deleting", "gone"}
      /\ FinalizerHistory(addon)
  BY StateTypes DEF FinalizerInv, Addon
<1>2. (a.life = "deleting" => a.fin) /\ (a.life = "gone" => ~a.fin)
  BY <1>1 DEF FinalizerHistory
<1>3. /\ a.life # "gone"
      /\ n.life = "deleting" => n.fin
      /\ n.life = "gone" => ~n.fin
      /\ a.fin => n.fin \/ (n.life = "gone" /\ Current(addon) /\ a.life # "live" /\ addonWorker.pc = "awaitApp")
      /\ n.life = "gone" => addonWorker.pc = "awaitApp" \/ a.life = "live"
  BY <1>2 DEF AddonWrite, UserWrite, FinalizerWrite, StatusWrite, RemovalWrite, SelectorWrite
<1>4. n.life \in {"absent", "gone"} => ~n.fin
  BY <1>3 DEF Addon
<1>5. FinalizerHistory(addon')
  BY <1>1, <1>3, <1>4, FinalizerHistories DEF WritesAddon
<1>6. QED BY <1>3, <1>5

LEMMA FinalizerStep == TypeInv /\ FinalizerInv /\ [Next]_vars => FinalizerInv'
<1> SUFFICES ASSUME TypeInv, FinalizerInv, [Next]_vars PROVE FinalizerInv'
  OBVIOUS
<1> DEFINE a == Stored(addon)
           pc == addonWorker.pc
<1>1. /\ TypeOK /\ addon \in Versions(Addon) /\ a \in Copies(addon)
      /\ Cached(addon) \in Copies(addon) /\ FinalizerHistory(addon)
  BY StateTypes DEF TypeInv, FinalizerInv
<1>2. FinalizerHistory(addon')
  BY <1>1, AddonVersions, FinalizerHistories, FinalizerWrites
<1>3. \/ Stored(addon)' = a /\ Copies(addon)' \subseteq Copies(addon)
      \/ \E n \in Addon : WritesAddon(n) /\ AddonWrite(n) /\ Stored(addon)' = n
                          /\ Copies(addon)' = Copies(addon) \union {n} /\ addon' # addon
  BY <1>1, AddonFollows
<1>4. a.fin => Stored(addon)'.fin \/ (pc = "awaitApp" /\ addon' # addon)
  BY <1>1, <1>3, FinalizerWrites
<1>5. Stored(app)'.life = "live" => Stored(app).life = "live" \/ pc = "application"
  <2>1. Stored(app) \in App
    BY <1>1, StateTypes
  <2>2. ASSUME NEW x \in App, AppWrite(x), x.life = "live"
        PROVE  Stored(app).life = "live" \/ pc = "application"
    <3>1. CASE RefreshWrite(x) \/ UpdateWrite(x)
      <4>1. x.life = Stored(app).life
        BY <2>1, <3>1 DEF RefreshWrite, UpdateWrite, Compared, UpdatedApp, App
      <4>2. QED BY <2>2, <4>1
    <3>2. CASE DeletionWrite(x)
      <4>1. x.life # "live"
        BY <2>1, <3>2 DEF DeletionWrite, NoApp, App
      <4>2. QED BY <2>2, <4>1
    <3>3. QED BY <2>2, <3>1, <3>2 DEF AppWrite, CreateWrite
  <2>3. QED BY <2>2, AppFollows
<1>6. CASE addonWorker' = addonWorker
  <2>1. pc = "finalizer" /\ (\E y \in Copies(addon)' : y.fin) => Stored(addon)'.life # "gone"
    <3>1. ASSUME NEW n \in Addon, WritesAddon(n), AddonWrite(n), n.life = "gone",
                 pc = "finalizer", Stored(addon)' = n, Copies(addon)' = Copies(addon) \union {n}
          PROVE  \A y \in Copies(addon)' : ~y.fin
      <4>1. a.life = "live" /\ a \in Copies(addon)'
        BY <1>1, <3>1, FinalizerWrites
      <4>2. QED BY <1>2, <3>1, <4>1 DEF FinalizerHistory
    <3>2. QED BY <1>3, <3>1 DEF FinalizerInv
  <2>2. pc \in {"values", "application"} => Stored(addon)'.fin
    BY <1>4 DEF FinalizerInv
  <2>3. pc = "awaitApp" => Stored(app)'.life # "live"
    BY <1>5 DEF FinalizerInv
  <2>4. Stored(app)'.life = "live" => Stored(addon)'.fin
    BY <1>4, <1>5 DEF FinalizerInv
  <2>5. QED BY <1>2, <1>6, <2>1, <2>2, <2>3, <2>4 DEF FinalizerInv
<1>7. Stored(app)'.life = "live" => Stored(addon)'.fin
  BY <1>4, <1>5 DEF FinalizerInv
<1>8. ASSUME addonWorker'.pc \in {"idle", "status", "deleteApp"} PROVE FinalizerInv'
  BY <1>2, <1>7, <1>8 DEF FinalizerInv
<1>9. CASE Starts(addonWorker')
  <2>1. CASE addonWorker'.pc = "finalizer"
    <3>1. Cached(addon).life = "live" /\ UNCHANGED addon
      BY <1>9, <2>1 DEF Starts
    <3>2. (\E y \in Copies(addon) : y.fin) => Stored(addon).life # "gone"
      BY <1>1, <3>1 DEF FinalizerHistory
    <3>3. (\E y \in Copies(addon)' : y.fin) => Stored(addon)'.life # "gone"
      BY <3>1, <3>2
    <3>4. QED BY <1>2, <1>7, <2>1, <3>3 DEF FinalizerInv
  <2>2. QED BY <1>8, <1>9, <2>1 DEF Starts
<1>10. ASSUME NEW b \in Addon, StartsFrom(b, addonWorker') PROVE FinalizerInv'
  <2>1. addonWorker'.pc \in {"values", "status"}
    <3>1. addonWorker' = AddonStart("values", b)
      BY <1>10 DEF StartsFrom
    <3>2. QED BY <3>1, StartFields
  <2>2. Stored(addon)'.fin
    <3>1. CASE pc = "idle" /\ Cached(addon).life = "live" /\ Cached(addon).fin /\ UNCHANGED addon
      BY <1>1, <3>1 DEF FinalizerHistory
    <3>2. CASE pc = "finalizer" /\ Cached(addon).fin /\ UNCHANGED addon
      BY <1>1, <3>2 DEF FinalizerHistory, FinalizerInv
    <3>3. CASE Current(addon) /\ addon' = Append(addon, [a EXCEPT !.fin = TRUE])
      <4> DEFINE n == [a EXCEPT !.fin = TRUE]
      <4>1. n \in Addon /\ n.fin
        BY <1>1, StateTypes DEF Addon
      <4> HIDE DEF n
      <4>2. Stored(addon') = n
        BY <1>1, <3>3, <4>1, VersionsAppend DEF n
      <4>3. QED BY <4>1, <4>2
    <3>4. QED BY <1>10, <3>1, <3>2, <3>3 DEF StartsFrom
  <2>3. QED BY <1>2, <1>7, <2>1, <2>2 DEF FinalizerInv
<1>11. CASE Computes(addonWorker')
  <2>1. Stored(addon)'.fin /\ addonWorker'.pc \in {"status", "application"}
    BY <1>11 DEF Computes, FinalizerInv
  <2>2. QED BY <1>2, <1>7, <2>1 DEF FinalizerInv
<1>12. CASE Awaits(addonWorker')
  <2>1. Stored(app) \in App /\ app \in Versions(App)
    BY <1>1, StateTypes
  <2>2. AppAfterDelete \in App /\ AppAfterDelete.life # "live"
    BY <2>1, NewTypes DEF AppAfterDelete, DeletedApp, NoApp, App
  <2>3. Stored(Append(app, AppAfterDelete)) = AppAfterDelete
    <3>1. app \in Seq(App) /\ Len(app) \in Nat
      BY <2>1, VersionsEnds
    <3>2. QED BY <2>2, <3>1, AppendProperties DEF Stored
  <2>4. Stored(app)'.life # "live"
    BY <1>12, <2>2, <2>3 DEF Awaits, Written
  <2>5. QED BY <1>2, <1>7, <1>12, <2>4 DEF FinalizerInv, Awaits
<1>13. CASE addonWorker' = AddonIdle
  BY <1>8, <1>13 DEF AddonIdle
<1>14. CASE Applies(addonWorker')
  BY <1>8, <1>14 DEF Applies
<1>15. QED BY <1>6, <1>9, <1>10, <1>11, <1>12, <1>13, <1>14, AddonMoves

\* An Addon does not disappear while its Application is there and nobody has
\* asked for its deletion (reconcileDelete).
THEOREM NoOrphan == Spec => []NoOrphanApplication
<1>1. ASSUME TypeInv, FinalizerInv PROVE NoOrphanApplication
  <2>1. Stored(addon) \in Copies(addon)
    BY <1>1, StateTypes DEF TypeInv
  <2>2. QED BY <1>1, <2>1 DEF FinalizerInv, FinalizerHistory, NoOrphanApplication
<1>2. QED BY <1>1, TypeInit, TypeStep, FinalizerInit, FinalizerStep, PTL DEF Spec


=============================================================================
