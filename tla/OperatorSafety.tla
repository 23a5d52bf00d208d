--------------------------- MODULE OperatorSafety ---------------------------
(***************************************************************************)
(* Proofs that what the operator says is true: a rule marked Deployed and  *)
(* an Addon marked Ready rest on a report of Argo CD for the values in     *)
(* question, and when nothing is left to do all is as it should be.        *)
(***************************************************************************)
EXTENDS OperatorProofs

-----------------------------------------------------------------------------
(* Deployed rules. *)

\* Synced and Healthy together rest on a report in H for the selectors that the
\* Addon says they were computed for.
SpeaksTrue(a, H) == a.synced /\ a.healthy => \E v \in H : v.sel = a.observed

\* A rule that is marked Deployed was reported on.
RuleReported(p, H) == \A r \in Rules : p.rules[r].deployed => \E v \in H : r \in v.sel

\* That is so for every version of the Addon and of the phase and for the copies
\* that the reconciles hold; a reconcile of the Addon computes its values for the
\* selectors it will record as observed.
DeployedInv ==
    /\ \A x \in Copies(app) : x.sync /\ x.health => x.compared \in healthyWith
    /\ \A a \in Copies(addon) : SpeaksTrue(a, healthyWith)
    /\ SpeaksTrue(addonWorker.old, healthyWith) /\ SpeaksTrue(addonWorker.new, healthyWith)
    /\ addonWorker.pc \in {"values", "application"} =>
           addonWorker.new.phaseSel = addonWorker.old.phaseSel
    /\ addonWorker.pc = "application" => addonWorker.new.hash.sel = addonWorker.old.phaseSel
    /\ \A p \in Copies(phase) : RuleReported(p, healthyWith)
    /\ RuleReported(phaseWorker.old, healthyWith) /\ RuleReported(phaseWorker.new, healthyWith)

LEMMA DeployedInit == Init => DeployedInv
<1> SUFFICES ASSUME Init PROVE DeployedInv
  OBVIOUS
<1>1. /\ addonWorker.pc = "idle" /\ addonWorker.old = NewAddon /\ addonWorker.new = NewAddon
      /\ phaseWorker.old = NewPhase("live") /\ phaseWorker.new = NewPhase("live")
  BY DEF Init, AddonIdle, PhaseIdle
<1>2. /\ NewAddon.synced = FALSE /\ NoApp.sync = FALSE
      /\ \A l : NewPhase(l).rules = [r \in Rules |-> NoRuleStatus]
  BY DEF NewAddon, NoApp, NewPhase
<1>3. \A H : SpeaksTrue(NewAddon, H)
  BY <1>2 DEF SpeaksTrue
<1>4. ASSUME NEW p, NEW H, p.rules = [r \in Rules |-> NoRuleStatus] PROVE RuleReported(p, H)
  BY <1>4 DEF RuleReported, NoRuleStatus
<1>5. CASE InitNew
  <2>1. /\ Copies(addon) = {NewAddon} /\ Copies(app) = {NoApp}
        /\ Copies(phase) = {NewPhase("absent")} \/ Copies(phase) = {NewPhase("live")}
    BY <1>5, VersionsOne, NewTypes DEF InitNew
  <2>2. QED BY <1>1, <1>2, <1>3, <1>4, <2>1 DEF DeployedInv
<1>6. CASE InitSettled
  <2> DEFINE c == SetReady("FullyReconciled")
             a == [NewAddon EXCEPT !.fin = TRUE, !.hash = SettledValues, !.synced = TRUE,
                                   !.healthy = TRUE, !.deployed = TRUE, !.conds = c]
             n == NewApp(SettledValues)
             x == [n EXCEPT !.compared = SettledValues, !.sync = TRUE, !.health = TRUE]
             q == NewPhase("live")
             p == [q EXCEPT !.fin = TRUE, !.conds = c]
  <2>1. addon = <<a>> /\ app = <<x>> /\ phase = <<p>> /\ healthyWith = {SettledValues}
    BY <1>6 DEF InitSettled
  <2>2. a.observed = {} /\ SettledValues.sel = {} /\ x.compared = SettledValues
        /\ p.rules = [r \in Rules |-> NoRuleStatus]
    BY DEF NewAddon, NewApp, NoApp, NewPhase, SettledValues
  <2> HIDE DEF a, x, p
  <2>3. Copies(addon) = {a} /\ Copies(app) = {x} /\ Copies(phase) = {p}
    BY <2>1, VersionsOne
  <2>4. SpeaksTrue(a, healthyWith)
    BY <2>1, <2>2 DEF SpeaksTrue
  <2>5. QED BY <1>1, <1>2, <1>3, <1>4, <2>1, <2>2, <2>3, <2>4 DEF DeployedInv
<1>7. QED BY <1>5, <1>6 DEF Init

\* Argo CD's reports are not withdrawn, and the Applications that say Synced and
\* Healthy have one.
LEMMA ReportsStep ==
    ASSUME TypeInv, DeployedInv, [Next]_vars
    PROVE  /\ healthyWith \subseteq healthyWith'
           /\ \A x \in Copies(app)' : x.sync /\ x.health => x.compared \in healthyWith'
<1>1. /\ Stored(app) \in App /\ Stored(app) \in Copies(app)
      /\ \A x \in Copies(app) : x.sync /\ x.health => x.compared \in healthyWith
  BY StateTypes DEF TypeInv, DeployedInv
<1>2. ASSUME NEW x \in App, AppWrite(x), RefreshWrite(x) \/ UNCHANGED healthyWith
      PROVE  /\ healthyWith \subseteq healthyWith'
             /\ x.sync /\ x.health => x.compared \in healthyWith'
  <2>1. CASE RefreshWrite(x)
    <3>1. x.sync = argo.sync /\ x.health = argo.health /\ x.compared = Stored(app).spec
      BY <1>1, <2>1 DEF RefreshWrite, Compared, App
    <3>2. QED BY <2>1, <3>1 DEF RefreshWrite
  <2>2. CASE ~RefreshWrite(x)
    <3>1. \/ x.sync = FALSE
          \/ /\ x.sync = Stored(app).sync /\ x.health = Stored(app).health
             /\ x.compared = Stored(app).compared
      <4>1. CASE CreateWrite(x) \/ x = NoApp
        <5>1. NoApp.sync = FALSE /\ \A v : NewApp(v).sync = FALSE
          BY DEF NewApp, NoApp
        <5>2. x.sync = FALSE
          BY <4>1, <5>1 DEF CreateWrite
        <5>3. QED BY <5>2
      <4>2. CASE x = [Stored(app) EXCEPT !.life = "deleting"]
        BY <1>1, <4>2 DEF App
      <4>3. CASE UpdateWrite(x)
        BY <1>1, <4>3 DEF UpdateWrite, UpdatedApp, App
      <4>4. QED BY <1>2, <2>2, <4>1, <4>2, <4>3 DEF AppWrite, DeletionWrite
    <3>2. QED BY <1>1, <1>2, <2>2, <3>1
  <2>3. QED BY <2>1, <2>2
<1>3. QED BY <1>1, <1>2, AppFollows

LEMMA DeployedStep == TypeInv /\ DeployedInv /\ [Next]_vars => DeployedInv'
<1> SUFFICES ASSUME TypeInv, DeployedInv, [Next]_vars PROVE DeployedInv'
  OBVIOUS
<1> DEFINE w == addonWorker
           H == healthyWith
           G == healthyWith'
<1>1. /\ TypeOK /\ Stored(addon) \in Copies(addon) /\ Cached(addon) \in Copies(addon)
      /\ Stored(phase) \in Copies(phase) /\ Cached(phase) \in Copies(phase)
      /\ w.new \in Addon /\ w.old \in Addon /\ Cached(addon) \in Addon
  BY StateTypes DEF TypeInv
<1>2. H \subseteq G /\ \A x \in Copies(app)' : x.sync /\ x.health => x.compared \in G
  BY ReportsStep
<1>3. ASSUME NEW a, NEW b, SpeaksTrue(a, H), b.observed = a.observed, b.synced = a.synced,
             b.healthy = a.healthy
      PROVE  SpeaksTrue(b, G)
  BY <1>2, <1>3 DEF SpeaksTrue
<1>4. \A a : SpeaksTrue(a, H) => SpeaksTrue(a, G)
  BY <1>3
<1>5. ASSUME NEW a, NEW b, RuleReported(a, H), b.rules = a.rules PROVE RuleReported(b, G)
  BY <1>2, <1>5 DEF RuleReported
<1>6. \A a \in Copies(addon)' : SpeaksTrue(a, G)
  <2>1. ASSUME NEW n \in Addon, AddonWrite(n) PROVE SpeaksTrue(n, G)
    <3>1. SameStatus(n, Stored(addon)) \/ SameStatus(n, w.new)
      BY <2>1 DEF AddonWrite, UserWrite, FinalizerWrite, StatusWrite, RemovalWrite, SelectorWrite
    <3>2. SpeaksTrue(Stored(addon), H) /\ SpeaksTrue(w.new, H)
      BY <1>1 DEF DeployedInv
    <3>3. QED BY <1>3, <3>1, <3>2 DEF SameStatus
  <2>2. QED BY <1>1, <1>4, <2>1, AddonFollows DEF DeployedInv
<1>7. SpeaksTrue(NewAddon, G)
  BY DEF SpeaksTrue, NewAddon
<1>8. /\ SpeaksTrue(addonWorker'.old, G) /\ SpeaksTrue(addonWorker'.new, G)
      /\ addonWorker'.pc \in {"values", "application"} =>
             addonWorker'.new.phaseSel = addonWorker'.old.phaseSel
      /\ addonWorker'.pc = "application" => addonWorker'.new.hash.sel = addonWorker'.old.phaseSel
  <2>1. CASE addonWorker' = w
    BY <1>4, <2>1 DEF DeployedInv
  <2>2. CASE addonWorker' = AddonIdle
    BY <1>7, <2>2 DEF AddonIdle
  <2>3. CASE Starts(addonWorker')
    BY <1>1, <1>4, <1>7, <2>3 DEF Starts, DeployedInv
  <2>4. ASSUME NEW a \in Addon, StartsFrom(a, addonWorker')
        PROVE  /\ SpeaksTrue(addonWorker'.old, G) /\ SpeaksTrue(addonWorker'.new, G)
               /\ addonWorker'.new.phaseSel = addonWorker'.old.phaseSel
               /\ addonWorker'.pc # "application"
    <3>1. SpeaksTrue(a, H) /\ addonWorker' = AddonStart("values", a)
      BY <1>1, <2>4 DEF StartsFrom, DeployedInv
    <3>2. /\ addonWorker'.old = a /\ addonWorker'.pc \in {"values", "status"}
          /\ addonWorker'.new.observed = a.observed /\ addonWorker'.new.synced = a.synced
          /\ addonWorker'.new.healthy = a.healthy /\ addonWorker'.new.phaseSel = a.phaseSel
      BY <3>1, StartFields
    <3>3. SpeaksTrue(addonWorker'.new, G)
      BY <1>3, <3>1, <3>2
    <3>4. QED BY <1>4, <3>1, <3>2, <3>3
  <2>5. CASE Computes(addonWorker')
    <3>1. /\ addonWorker'.old = w.old /\ addonWorker'.new.phaseSel = w.new.phaseSel
          /\ w.new.phaseSel = w.old.phaseSel
          /\ addonWorker'.pc = "application" => addonWorker'.new.hash = ComputedValues
          /\ addonWorker'.pc \in {"status", "application"}
      BY <2>5 DEF Computes, DeployedInv
    <3>2. SpeaksTrue(addonWorker'.new, G)
      BY <1>3, <2>5 DEF Computes, DeployedInv
    <3>3. ComputedValues.sel = w.old.phaseSel
      BY DEF ComputedValues
    <3>4. QED BY <1>4, <3>1, <3>2, <3>3 DEF DeployedInv
  <2>6. CASE Applies(addonWorker')
    <3>1. /\ addonWorker'.old = w.old /\ addonWorker'.pc = "status" /\ w.pc = "application"
          /\ SpeaksTrue(w.new, H) /\ SpeaksTrue(w.old, H)
          /\ w.new.hash.sel = w.new.phaseSel
      BY <2>6 DEF Applies, DeployedInv
    <3>2. ASSUME NEW x \in App, x.spec = w.new.hash, Reported(x),
                 addonWorker'.new = Concluded(Translated(w.new, x))
          PROVE  SpeaksTrue(addonWorker'.new, H)
      <4> DEFINE t == Translated(w.new, x)
      <4>1. /\ t \in Addon /\ t.observed = w.new.phaseSel /\ t.healthy = x.health
            /\ t.synced => x.sync /\ x.compared = x.spec
        BY <1>1, TranslatedFields
      <4> HIDE DEF t
      <4>2. /\ Concluded(t).synced = t.synced /\ Concluded(t).healthy = t.healthy
            /\ Concluded(t).observed = t.observed
        BY <4>1, ConcludedFields
      <4>3. x.sync /\ x.health => x.compared \in H
        BY <3>2 DEF Reported, DeployedInv
      <4>4. Concluded(t).synced /\ Concluded(t).healthy =>
               w.new.hash \in H /\ w.new.hash.sel = Concluded(t).observed
        BY <3>1, <3>2, <4>1, <4>2, <4>3
      <4>5. QED BY <3>2, <4>4 DEF SpeaksTrue, t
    <3>3. ASSUME addonWorker'.new = Concluded(w.new) PROVE SpeaksTrue(addonWorker'.new, H)
      <4>1. /\ Concluded(w.new).synced = w.new.synced /\ Concluded(w.new).healthy = w.new.healthy
            /\ Concluded(w.new).observed = w.new.observed
        BY <1>1, ConcludedFields
      <4>2. QED BY <3>1, <3>3, <4>1 DEF SpeaksTrue
    <3>4. ASSUME addonWorker'.new = [w.new EXCEPT !.conds = SetDegraded("ApplicationFailed")]
          PROVE  SpeaksTrue(addonWorker'.new, H)
      <4>1. /\ addonWorker'.new.synced = w.new.synced /\ addonWorker'.new.healthy = w.new.healthy
            /\ addonWorker'.new.observed = w.new.observed
        BY <1>1, <3>4 DEF Addon
      <4>2. QED BY <3>1, <4>1 DEF SpeaksTrue
    <3>5. SpeaksTrue(addonWorker'.new, H)
      BY <2>6, <3>2, <3>3, <3>4 DEF Applies
    <3>6. QED BY <1>4, <3>1, <3>5
  <2>7. CASE Awaits(addonWorker')
    BY <1>4, <2>7 DEF Awaits, DeployedInv
  <2>8. QED BY <2>1, <2>2, <2>3, <2>4, <2>5, <2>6, <2>7, AddonMoves
<1>9. RuleReported(NewPhase("live"), G)
  BY DEF RuleReported, NewPhase, NoRuleStatus
<1>10. \A p \in Copies(phase)' : RuleReported(p, G)
  <2>1. \A p \in Copies(phase) : RuleReported(p, G)
    BY <1>5 DEF DeployedInv
  <2>2. phase \in Versions(Phase) /\ Stored(phase) \in Phase
    BY <1>1, StateTypes
  <2>3. CASE ~Current(phase) /\ phase' = Tail(phase)
    BY <2>1, <2>2, <2>3, VersionsTail
  <2>4. CASE phase' = <<Stored(phase)>>
    BY <1>1, <2>1, <2>2, <2>4, VersionsOne
  <2>5. ASSUME NEW p \in Phase, WritesPhase(p), PhaseWrite(p)
        PROVE  \A q \in Copies(phase)' : RuleReported(q, G)
    <3>1. Copies(phase)' = Copies(phase) \union {p}
      BY <2>2, <2>5, VersionsAppend DEF WritesPhase
    <3>2. RuleReported(p, G)
      BY <1>1, <1>5, <1>9, <2>5 DEF PhaseWrite, DeployedInv
    <3>3. QED BY <2>1, <3>1, <3>2
  <2>6. QED BY <1>1, <2>1, <2>3, <2>4, <2>5, PhaseVersions
<1>11. RuleReported(phaseWorker'.old, G) /\ RuleReported(phaseWorker'.new, G)
  <2>1. ASSUME phaseWorker'.new.rules = RulesFor(Cached(addon))
        PROVE  RuleReported(phaseWorker'.new, G)
    <3>1. \A r \in Rules : phaseWorker'.new.rules[r].deployed =>
             \/ phaseWorker.old.rules[r].deployed
             \/ Cached(addon).synced /\ Cached(addon).healthy /\ r \in Cached(addon).observed
      BY <1>1, <2>1, RulesFields
    <3>2. RuleReported(phaseWorker.old, H) /\ SpeaksTrue(Cached(addon), H)
      BY <1>1 DEF DeployedInv
    <3>3. QED BY <1>2, <3>1, <3>2 DEF RuleReported, SpeaksTrue
  <2>2. PhaseMove(phaseWorker')
    BY <1>1, PhaseMoves
  <2>3. QED BY <1>1, <1>5, <1>9, <2>1, <2>2 DEF PhaseMove, DeployedInv
<1>12. QED BY <1>2, <1>6, <1>8, <1>10, <1>11 DEF DeployedInv

\* A rule is marked Deployed only if Argo CD has reported Synced and Healthy for
\* values with that rule's selector in them (latchDeployedRules), however late
\* the status writes and the informers are.
THEOREM RulesDeployedSoundly == Spec => []RuleDeployedSound
<1>1. ASSUME TypeInv, DeployedInv PROVE RuleDeployedSound
  <2>1. Stored(phase) \in Copies(phase)
    BY <1>1, StateTypes DEF TypeInv
  <2>2. QED BY <1>1, <2>1 DEF DeployedInv, RuleReported, RuleDeployedSound
<1>2. QED BY <1>1, TypeInit, TypeStep, DeployedInit, DeployedStep, PTL DEF Spec

-----------------------------------------------------------------------------
(* Ready Addons. *)

\* Ready rests on a report in H for the values the Addon names, and an Addon is
\* not Ready and Degraded at once.
ReadyTrue(a, H) ==
    /\ a.conds.ready => a.hash \in H
    /\ a.conds.degraded => ~a.conds.ready

Out == {"deleting", "gone"}

\* As far as the cache or the running reconcile knows, the Addon is not being
\* deleted.
Fresh == \/ Cached(addon).life = "live"
         \/ addonWorker.pc \in {"finalizer", "values", "application", "status"}

\* No copy of the Addon says that its Application was Synced.
NeverSynced ==
    /\ \A a \in Copies(addon) : ~a.synced
    /\ ~addonWorker.old.synced /\ ~addonWorker.new.synced

\* Every copy of the Addon is truthful; one whose Application is not in the cache
\* yet cannot claim Synced, because a fresh Addon's Application only comes and
\* never goes: this is what makes it safe to keep the conditions of the copy
\* read when Create answers AlreadyExists.
ReadyInv ==
    /\ \A a \in Copies(addon) : ReadyTrue(a, healthyWith)
    /\ ReadyTrue(addonWorker.old, healthyWith)
    /\ addonWorker.pc \in {"values", "status"} => ReadyTrue(addonWorker.new, healthyWith)
    /\ addonWorker.pc = "application" =>
           (addonWorker.new.conds.degraded => ~addonWorker.new.conds.ready)
    /\ Absorbing(addon, Out)
    /\ addonWorker.pc \in {"deleteApp", "awaitApp"} => Cached(addon).life \in Out
    /\ Fresh => /\ Absorbing(app, {"live"})
                /\ \A x \in Copies(app) : x.life # "deleting"
                /\ Cached(app).life = "absent" => NeverSynced

\* Which conditions say Ready.
LEMMA ConditionsReady ==
    /\ \A why : /\ ~SetProgressing(why).ready /\ ~SetDegraded(why).ready
                /\ ~SetReady(why).degraded
    /\ \A cs \in Conditions :
          (cs.degraded => ~cs.ready) =>
              /\ EnsureAllConditions(cs).ready => cs.ready
              /\ SetPaused(EnsureAllConditions(cs)).ready => cs.ready
              /\ EnsureAllConditions(cs).degraded => ~EnsureAllConditions(cs).ready
              /\ SetPaused(EnsureAllConditions(cs)).degraded =>
                     ~SetPaused(EnsureAllConditions(cs)).ready
<1>1. \A why : /\ ~SetProgressing(why).ready /\ ~SetDegraded(why).ready
               /\ ~SetReady(why).degraded
  BY DEF SetProgressing, SetDegraded, SetReady, Primary
<1>2. ASSUME NEW cs \in Conditions, cs.degraded => ~cs.ready
      PROVE  /\ EnsureAllConditions(cs).ready => cs.ready
             /\ SetPaused(EnsureAllConditions(cs)).ready => cs.ready
             /\ EnsureAllConditions(cs).degraded => ~EnsureAllConditions(cs).ready
             /\ SetPaused(EnsureAllConditions(cs)).degraded =>
                    ~SetPaused(EnsureAllConditions(cs)).ready
  <2> DEFINE e == EnsureAllConditions(cs)
  <2>1. e \in Conditions
    BY ConditionTypes, ReasonTypes
  <2>2. e = cs \/ ~e.ready
    BY <1>1 DEF EnsureAllConditions
  <2>3. SetPaused(e).ready = FALSE
    BY <2>1 DEF SetPaused, Conditions
  <2> HIDE DEF e
  <2>4. /\ e.ready => cs.ready
        /\ SetPaused(e).ready => cs.ready
        /\ e.degraded => ~e.ready
        /\ SetPaused(e).degraded => ~SetPaused(e).ready
    BY <1>2, <2>2, <2>3
  <2>5. QED BY <2>4 DEF e
<1>3. QED BY <1>1, <1>2

LEMMA ReadyInit == Init => ReadyInv
<1> SUFFICES ASSUME Init PROVE ReadyInv
  OBVIOUS
<1>1. /\ addonWorker.pc = "idle" /\ addonWorker.old = NewAddon /\ addonWorker.new = NewAddon
  BY DEF Init, AddonIdle
<1>2. /\ NewAddon.synced = FALSE /\ NewAddon.life = "live" /\ NewAddon.conds.ready = FALSE
      /\ NewAddon.conds.degraded = FALSE /\ NoApp.life = "absent"
  BY DEF NewAddon, NoApp, NoConditions, Primary
<1>3. \A H : ReadyTrue(NewAddon, H)
  BY <1>2 DEF ReadyTrue
<1>4. CASE InitNew
  <2>1. /\ Copies(addon) = {NewAddon} /\ Copies(app) = {NoApp}
        /\ Len(addon) = 1 /\ addon[1] = NewAddon /\ Len(app) = 1 /\ app[1] = NoApp
    BY <1>4, VersionsOne, NewTypes DEF InitNew
  <2>2. Absorbing(addon, Out) /\ Absorbing(app, {"live"})
    BY <2>1 DEF Absorbing
  <2>3. QED BY <1>1, <1>2, <1>3, <2>1, <2>2 DEF ReadyInv, NeverSynced
<1>5. CASE InitSettled
  <2> DEFINE c == SetReady("FullyReconciled")
             a == [NewAddon EXCEPT !.fin = TRUE, !.hash = SettledValues, !.synced = TRUE,
                                   !.healthy = TRUE, !.deployed = TRUE, !.conds = c]
             n == NewApp(SettledValues)
             x == [n EXCEPT !.compared = SettledValues, !.sync = TRUE, !.health = TRUE]
  <2>1. addon = <<a>> /\ app = <<x>> /\ healthyWith = {SettledValues}
    BY <1>5 DEF InitSettled
  <2>2. a.hash = SettledValues /\ a.conds = c /\ x.life = "live"
    BY DEF NewAddon, NewApp, NoApp
  <2>3. c.degraded = FALSE
    BY DEF SetReady, Primary
  <2> HIDE DEF a, x, c
  <2>4. /\ Copies(addon) = {a} /\ Copies(app) = {x} /\ Cached(app) = x
        /\ Len(addon) = 1 /\ addon[1] = a /\ Len(app) = 1 /\ app[1] = x
    BY <2>1, VersionsOne
  <2>5. Absorbing(addon, Out) /\ Absorbing(app, {"live"})
    BY <2>4 DEF Absorbing
  <2>6. ReadyTrue(a, healthyWith)
    BY <2>1, <2>2, <2>3 DEF ReadyTrue
  <2>7. QED BY <1>1, <1>3, <2>2, <2>4, <2>5, <2>6 DEF ReadyInv
<1>6. QED BY <1>4, <1>5 DEF Init


\* Once the Addon is out, no copy says otherwise, and so the operator that takes
\* it for fresh did so before.
LEMMA FreshStep ==
    ASSUME TypeInv, ReadyInv, [Next]_vars
    PROVE  /\ Absorbing(addon', Out)
           /\ addonWorker'.pc \in {"deleteApp", "awaitApp"} => Cached(addon)'.life \in Out
           /\ Fresh' => Fresh
<1>1. /\ TypeOK /\ addon \in Versions(Addon) /\ Absorbing(addon, Out)
      /\ Cached(addon) \in Addon
      /\ addonWorker.pc \in {"deleteApp", "awaitApp"} => Cached(addon).life \in Out
  BY StateTypes DEF TypeInv, ReadyInv
<1>2. Absorbing(addon', Out) /\ (Cached(addon).life \in Out => Cached(addon)'.life \in Out)
  <2>1. CASE ~Current(addon) /\ addon' = Tail(addon)
    BY <1>1, <2>1, AbsorbingSteps
  <2>2. CASE addon' = <<Stored(addon)>>
    <3>1. Cached(addon') = Stored(addon)
      BY <1>1, <2>2, VersionsOne
    <3>2. QED BY <1>1, <2>2, <3>1, AbsorbingSteps
  <2>3. ASSUME NEW n \in Addon, WritesAddon(n), AddonWrite(n)
        PROVE  Absorbing(addon', Out) /\ Cached(addon)' = Cached(addon)
    <3>1. Stored(addon).life \in Out => n.life \in Out
      BY <2>3 DEF AddonWrite, UserWrite, FinalizerWrite, StatusWrite, RemovalWrite, SelectorWrite,
                  Out
    <3>2. Absorbing(addon', Out)
      BY <1>1, <2>3, <3>1, AbsorbingSteps DEF WritesAddon
    <3>3. Cached(addon') = Cached(addon)
      BY <1>1, <2>3, VersionsAppend DEF WritesAddon
    <3>4. QED BY <3>2, <3>3
  <2>4. QED BY <1>1, <2>1, <2>2, <2>3, AddonVersions
<1>3. Cached(addon)'.life = "live" => Cached(addon).life = "live"
  <2>1. Cached(addon).life \in {"live"} \union Out
    BY <1>1 DEF Addon, Out
  <2>2. QED BY <1>2, <2>1 DEF Out
<1>4. /\ addonWorker'.pc \in {"deleteApp", "awaitApp"} =>
             \/ addonWorker.pc \in {"deleteApp", "awaitApp"}
             \/ Cached(addon).life \in Out
      /\ addonWorker'.pc \in {"finalizer", "values", "application", "status"} => Fresh
  <2>1. CASE addonWorker' = addonWorker
    BY <2>1 DEF Fresh
  <2>2. ASSUME NEW a \in Addon, StartsFrom(a, addonWorker')
        PROVE  Fresh /\ addonWorker'.pc \in {"values", "status"}
    <3>1. addonWorker' = AddonStart("values", a) /\ Fresh
      BY <2>2 DEF StartsFrom, Fresh
    <3>2. QED BY <3>1, StartFields
  <2>3. QED BY <2>1, <2>2, AddonMoves DEF Starts, Computes, Applies, Awaits, AddonIdle, Fresh, Out
<1>5. QED BY <1>1, <1>2, <1>3, <1>4 DEF Fresh

\* The Application of a fresh Addon is not deleted.
LEMMA FreshApplication ==
    ASSUME "deleteApp" \notin Kinds, TypeInv, ReadyInv, [Next]_vars, Fresh
    PROVE  /\ Absorbing(app', {"live"})
           /\ \A x \in Copies(app)' : x.life # "deleting"
           /\ Cached(app)'.life = "absent" => Cached(app).life = "absent"
<1>1. /\ TypeOK /\ app \in Versions(App) /\ Stored(app) \in App /\ Stored(app) \in Copies(app)
      /\ Cached(app) \in App /\ Cached(app) \in Copies(app)
      /\ Absorbing(app, {"live"}) /\ \A x \in Copies(app) : x.life # "deleting"
  BY StateTypes DEF TypeInv, ReadyInv
<1>2. addonWorker.pc # "deleteApp"
  BY DEF ReadyInv, Fresh, Out
<1>3. Cached(app).life \in {"absent", "live"}
  BY <1>1 DEF App
<1>4. CASE ~Current(app) /\ app' = Tail(app)
  <2>1. Absorbing(app', {"live"}) /\ (Cached(app).life = "live" => Cached(app)'.life = "live")
    BY <1>1, <1>4, AbsorbingSteps
  <2>2. Copies(app') \subseteq Copies(app)
    BY <1>1, <1>4, VersionsTail
  <2>3. QED BY <1>1, <1>3, <2>1, <2>2
<1>5. CASE app' = <<Stored(app)>>
  <2>1. Absorbing(app', {"live"}) /\ (Cached(app).life = "live" => Stored(app).life = "live")
    BY <1>1, <1>5, AbsorbingSteps
  <2>2. Copies(app') = {Stored(app)} /\ Cached(app') = Stored(app)
    BY <1>1, <1>5, VersionsOne
  <2>3. QED BY <1>1, <1>3, <2>1, <2>2
<1>6. ASSUME NEW x, WritesApp(x), AppWrite(x)
      PROVE  /\ Absorbing(app', {"live"})
             /\ \A y \in Copies(app)' : y.life # "deleting"
             /\ Cached(app)' = Cached(app)
  <2>1. x \in App
    BY <1>6, AppWriteTypes
  <2>2. x.life = Stored(app).life \/ x.life = "live"
    <3>1. CASE RefreshWrite(x) \/ UpdateWrite(x)
      BY <1>1, <3>1 DEF RefreshWrite, UpdateWrite, Compared, UpdatedApp, App
    <3>2. CASE CreateWrite(x)
      BY <3>2 DEF CreateWrite, NewApp, NoApp
    <3>3. ~DeletionWrite(x)
      BY <1>1, <1>2 DEF DeletionWrite
    <3>4. QED BY <1>6, <3>1, <3>2, <3>3 DEF AppWrite
  <2>3. Absorbing(app', {"live"})
    BY <1>1, <1>6, <2>1, <2>2, AbsorbingSteps DEF WritesApp
  <2>4. Copies(app') = Copies(app) \union {x} /\ Cached(app') = Cached(app)
    BY <1>1, <1>6, <2>1, VersionsAppend DEF WritesApp
  <2>5. QED BY <1>1, <2>2, <2>3, <2>4
<1>7. QED BY <1>1, <1>4, <1>5, <1>6, AppVersions


\* As long as the Application is not in the cache, nothing makes the Addon Synced.
LEMMA SyncedStep ==
    ASSUME TypeInv, NeverSynced, Cached(app).life = "absent", [Next]_vars
    PROVE  NeverSynced'
<1> DEFINE w == addonWorker
<1>1. /\ TypeOK /\ Stored(addon) \in Copies(addon) /\ Cached(addon) \in Copies(addon)
      /\ w.new \in Addon /\ w.old \in Addon
      /\ \A a \in Copies(addon) : ~a.synced
      /\ ~w.old.synced /\ ~w.new.synced
  BY StateTypes DEF TypeInv, NeverSynced
<1>2. \A a \in Copies(addon)' : ~a.synced
  <2>1. ASSUME NEW n \in Addon, AddonWrite(n) PROVE ~n.synced
    <3>1. SameStatus(n, Stored(addon)) \/ SameStatus(n, w.new)
      BY <2>1 DEF AddonWrite, UserWrite, FinalizerWrite, StatusWrite, RemovalWrite, SelectorWrite
    <3>2. QED BY <1>1, <3>1 DEF SameStatus
  <2>2. QED BY <1>1, <2>1, AddonFollows
<1>3. ~NewAddon.synced
  BY DEF NewAddon
<1>4. ~addonWorker'.old.synced /\ ~addonWorker'.new.synced
  <2>1. CASE addonWorker' = w
    BY <1>1, <2>1
  <2>2. CASE addonWorker' = AddonIdle
    BY <1>3, <2>2 DEF AddonIdle
  <2>3. CASE Starts(addonWorker')
    BY <1>1, <1>3, <2>3 DEF Starts
  <2>4. ASSUME NEW a \in Addon, StartsFrom(a, addonWorker')
        PROVE  ~addonWorker'.old.synced /\ ~addonWorker'.new.synced
    <3>1. ~a.synced /\ addonWorker' = AddonStart("values", a)
      BY <1>1, <2>4 DEF StartsFrom
    <3>2. addonWorker'.old = a /\ addonWorker'.new.synced = a.synced
      BY <3>1, StartFields
    <3>3. QED BY <3>1, <3>2
  <2>5. CASE Computes(addonWorker')
    BY <1>1, <2>5 DEF Computes
  <2>6. CASE Applies(addonWorker')
    <3>1. ~addonWorker'.old.synced
      BY <1>1, <2>6 DEF Applies
    <3>2. ASSUME NEW x \in App, ~x.sync, addonWorker'.new = Concluded(Translated(w.new, x))
          PROVE  ~addonWorker'.new.synced
      <4> DEFINE t == Translated(w.new, x)
      <4>1. t \in Addon /\ ~t.synced
        BY <1>1, <3>2, TranslatedFields
      <4> HIDE DEF t
      <4>2. Concluded(t).synced = t.synced
        BY <4>1, ConcludedFields
      <4>3. addonWorker'.new = Concluded(t)
        BY <3>2 DEF t
      <4>4. QED BY <4>1, <4>2, <4>3
    <3>3. ASSUME addonWorker'.new = Concluded(w.new) PROVE ~addonWorker'.new.synced
      <4>1. Concluded(w.new).synced = w.new.synced
        BY <1>1, ConcludedFields
      <4>2. QED BY <1>1, <3>3, <4>1
    <3>4. ASSUME addonWorker'.new = [w.new EXCEPT !.conds = SetDegraded("ApplicationFailed")]
          PROVE  ~addonWorker'.new.synced
      BY <1>1, <3>4 DEF Addon
    <3>5. QED BY <2>6, <3>1, <3>2, <3>3, <3>4 DEF Applies
  <2>7. CASE Awaits(addonWorker')
    BY <1>1, <2>7 DEF Awaits
  <2>8. QED BY <2>1, <2>2, <2>3, <2>4, <2>5, <2>6, <2>7, AddonMoves
<1>5. QED BY <1>2, <1>4 DEF NeverSynced

\* What a reconcile concludes is true.
LEMMA ReadyConcluded ==
    ASSUME TypeInv, DeployedInv, ReadyInv, Applies(addonWorker')
    PROVE  ReadyTrue(addonWorker'.new, healthyWith)
<1> DEFINE w == addonWorker
<1>1. /\ TypeOK /\ w.new \in Addon /\ w.pc = "application"
      /\ w.new.conds.degraded => ~w.new.conds.ready
      /\ \A y \in Copies(app) : y.sync /\ y.health => y.compared \in healthyWith
  BY StateTypes DEF TypeInv, Applies, ReadyInv, DeployedInv
<1>2. ASSUME NEW t \in Addon, t.conds = w.new.conds, t.synced /\ t.healthy => t.hash \in healthyWith
      PROVE  ReadyTrue(Concluded(t), healthyWith)
  <2>1. /\ Concluded(t).hash = t.hash
        /\ \/ t.synced /\ t.healthy /\ Concluded(t).conds = SetReady("FullyReconciled")
           \/ Concluded(t).conds = SetProgressing("NotSynced")
           \/ Concluded(t).conds = t.conds /\ t.conds.degraded
    BY ConcludedFields
  <2>2. QED BY <1>1, <1>2, <2>1, ConditionsReady DEF ReadyTrue
<1>3. ASSUME NEW x \in App, x.spec = w.new.hash, Reported(x),
             addonWorker'.new = Concluded(Translated(w.new, x))
      PROVE  ReadyTrue(addonWorker'.new, healthyWith)
  <2> DEFINE t == Translated(w.new, x)
  <2>1. /\ t \in Addon /\ t.conds = w.new.conds /\ t.hash = w.new.hash /\ t.healthy = x.health
        /\ t.synced => x.sync /\ x.compared = x.spec
    BY <1>1, TranslatedFields
  <2> HIDE DEF t
  <2>2. t.synced /\ t.healthy => t.hash \in healthyWith
    BY <1>1, <1>3, <2>1 DEF Reported
  <2>3. ReadyTrue(Concluded(t), healthyWith)
    BY <1>2, <2>1, <2>2
  <2>4. QED BY <1>3, <2>3 DEF t
<1>4. ASSUME Cached(app).life = "absent", addonWorker'.new = Concluded(w.new)
      PROVE  ReadyTrue(addonWorker'.new, healthyWith)
  <2>1. ~w.new.synced
    BY <1>1, <1>4 DEF ReadyInv, Fresh, NeverSynced
  <2>2. QED BY <1>1, <1>2, <1>4, <2>1
<1>5. ASSUME addonWorker'.new = [w.new EXCEPT !.conds = SetDegraded("ApplicationFailed")]
      PROVE  ReadyTrue(addonWorker'.new, healthyWith)
  <2>1. addonWorker'.new.conds = SetDegraded("ApplicationFailed")
    BY <1>1, <1>5 DEF Addon
  <2>2. QED BY <2>1, ConditionsReady DEF ReadyTrue
<1>6. QED BY <1>3, <1>4, <1>5 DEF Applies

LEMMA ReadyStep ==
    ASSUME "deleteApp" \notin Kinds
    PROVE  TypeInv /\ DeployedInv /\ ReadyInv /\ [Next]_vars => ReadyInv'
<1> SUFFICES ASSUME TypeInv, DeployedInv, ReadyInv, [Next]_vars PROVE ReadyInv'
  OBVIOUS
<1> DEFINE w == addonWorker
           H == healthyWith
           G == healthyWith'
<1>1. /\ TypeOK /\ Stored(addon) \in Copies(addon) /\ Cached(addon) \in Copies(addon)
      /\ w.new \in Addon /\ w.old \in Addon /\ Cached(addon) \in Addon
      /\ H \subseteq G
  BY StateTypes, ReportsStep DEF TypeInv
<1>2. ASSUME NEW a, NEW b, ReadyTrue(a, H), b.hash = a.hash, b.conds = a.conds
      PROVE  ReadyTrue(b, G)
  BY <1>1, <1>2 DEF ReadyTrue
<1>3. \A a : ReadyTrue(a, H) => ReadyTrue(a, G)
  BY <1>2
<1>4. \A a \in Copies(addon)' : ReadyTrue(a, G)
  <2>1. ASSUME NEW n \in Addon, AddonWrite(n) PROVE ReadyTrue(n, G)
    <3>1. CASE SameStatus(n, Stored(addon))
      BY <1>1, <1>2, <3>1 DEF SameStatus, ReadyInv
    <3>2. CASE w.pc = "status" /\ SameStatus(n, w.new)
      BY <1>2, <3>2 DEF SameStatus, ReadyInv
    <3>3. QED BY <2>1, <3>1, <3>2
          DEF AddonWrite, UserWrite, FinalizerWrite, StatusWrite, RemovalWrite, SelectorWrite
  <2>2. QED BY <1>1, <1>3, <2>1, AddonFollows DEF ReadyInv
<1>5. ReadyTrue(NewAddon, G)
  BY DEF ReadyTrue, NewAddon, NoConditions, Primary
<1>6. /\ ReadyTrue(addonWorker'.old, G)
      /\ addonWorker'.pc \in {"values", "status"} => ReadyTrue(addonWorker'.new, G)
      /\ addonWorker'.pc = "application" =>
            (addonWorker'.new.conds.degraded => ~addonWorker'.new.conds.ready)
  <2>1. CASE addonWorker' = w
    BY <1>3, <2>1 DEF ReadyInv
  <2>2. CASE addonWorker' = AddonIdle
    BY <1>5, <2>2 DEF AddonIdle
  <2>3. CASE Starts(addonWorker')
    BY <1>1, <1>3, <2>3 DEF Starts, ReadyInv
  <2>4. ASSUME NEW a \in Addon, StartsFrom(a, addonWorker')
        PROVE  /\ ReadyTrue(addonWorker'.old, G) /\ ReadyTrue(addonWorker'.new, G)
               /\ addonWorker'.pc # "application"
    <3>1. ReadyTrue(a, G) /\ addonWorker' = AddonStart("values", a) /\ a.conds \in Conditions
      BY <1>1, <1>3, <2>4 DEF StartsFrom, ReadyInv, Addon
    <3>2. /\ addonWorker'.old = a /\ addonWorker'.pc \in {"values", "status"}
          /\ addonWorker'.new.hash = a.hash
          /\ \/ addonWorker'.new.conds = EnsureAllConditions(a.conds)
             \/ addonWorker'.new.conds = SetPaused(EnsureAllConditions(a.conds))
      BY <3>1, StartFields
    <3>3. ReadyTrue(addonWorker'.new, G)
      BY <3>1, <3>2, ConditionsReady DEF ReadyTrue
    <3>4. QED BY <3>1, <3>2, <3>3
  <2>5. CASE Computes(addonWorker')
    <3>1. addonWorker'.old = w.old /\ ReadyTrue(w.new, H) /\ ReadyTrue(w.old, H)
      BY <2>5 DEF Computes, ReadyInv
    <3>2. CASE addonWorker'.pc = "status"
      <4>1. ReadyTrue(addonWorker'.new, G)
        BY <2>5, <3>2, ConditionsReady DEF Computes, ReadyTrue
      <4>2. QED BY <1>3, <3>1, <3>2, <4>1
    <3>3. CASE addonWorker'.pc = "application"
      <4>1. addonWorker'.new.conds = w.new.conds
        BY <2>5, <3>3 DEF Computes
      <4>2. QED BY <1>3, <3>1, <3>3, <4>1 DEF ReadyTrue
    <3>4. QED BY <2>5, <3>2, <3>3 DEF Computes
  <2>6. CASE Applies(addonWorker')
    BY <1>3, <2>6, ReadyConcluded DEF Applies, ReadyInv
  <2>7. CASE Awaits(addonWorker')
    BY <1>3, <2>7 DEF Awaits, ReadyInv
  <2>8. QED BY <2>1, <2>2, <2>3, <2>4, <2>5, <2>6, <2>7, AddonMoves
<1>7. Fresh' => /\ Absorbing(app', {"live"})
                /\ \A x \in Copies(app)' : x.life # "deleting"
                /\ Cached(app)'.life = "absent" => NeverSynced'
  <2>1. SUFFICES ASSUME Fresh'
                 PROVE  /\ Absorbing(app', {"live"})
                        /\ \A x \in Copies(app)' : x.life # "deleting"
                        /\ Cached(app)'.life = "absent" => NeverSynced'
    OBVIOUS
  <2>2. Fresh
    BY <2>1, FreshStep
  <2>3. QED BY <2>2, FreshApplication, SyncedStep DEF ReadyInv
<1>8. QED BY <1>4, <1>6, <1>7, FreshStep DEF ReadyInv

\* A Ready Addon runs on values for which Argo CD has reported Synced and
\* Healthy, unless somebody deletes the Application behind the operator's back
\* (updateStatus, isComparedToCurrent).
THEOREM ReadySoundly ==
    ASSUME "deleteApp" \notin Kinds
    PROVE  Spec => []ReadySound
<1>1. ASSUME TypeInv, ReadyInv PROVE ReadySound
  <2>1. \A i \in 1..Len(addon) : addon[i] \in Copies(addon)
    BY DEF Copies
  <2>2. QED BY <1>1, <2>1 DEF ReadyInv, ReadyTrue, ReadySound
<1>2. TypeInv /\ DeployedInv /\ ReadyInv /\ [Next]_vars => ReadyInv'
  BY ReadyStep
<1>3. QED
  BY <1>1, <1>2, TypeInit, TypeStep, DeployedInit, DeployedStep, ReadyInit, PTL DEF Spec


-----------------------------------------------------------------------------
(* The phase at rest. *)

\* An object that is only written stays the same in the cache, and a delivery
\* that is due stays due.
LEMMA CacheKept ==
    ASSUME NEW S, NEW h \in Versions(S), NEW k, NEW o \in S,
           k = h \/ ((CanWrite(h) \/ Current(h)) /\ k = Append(h, o))
    PROVE  Cached(k) = Cached(h) /\ (~Current(h) => ~Current(k))
<1>1. CASE k = h
  BY <1>1
<1>2. CASE (CanWrite(h) \/ Current(h)) /\ k = Append(h, o)
  <2>1. Cached(Append(h, o)) = Cached(h) /\ ~Current(Append(h, o))
    BY <1>2, VersionsAppend
  <2>2. QED BY <1>2, <2>1
<1>3. QED BY <1>1, <1>2

\* Nothing that a reconcile of the phase reads changes without the phase being
\* enqueued.
LEMMA PhaseReads ==
    ASSUME TypeOK, [Next]_vars, ~phaseQueue', Cached(phase)'.life = "live"
    PROVE  /\ Cached(phase)' = Cached(phase) /\ (~Current(phase) => ~Current(phase)')
           /\ Cached(addon)' = Cached(addon) /\ (~Current(addon) => ~Current(addon)')
           /\ truth' = truth
<1>1. phase \in Versions(Phase) /\ addon \in Versions(Addon)
  BY StateTypes
<1>2. ~Restart /\ ~DeliverPhase
  BY DEF Restart, DeliverPhase
<1>3. Cached(phase)' = Cached(phase) /\ (~Current(phase) => ~Current(phase)')
  <2>1. phase' = phase \/ \E p \in Phase : WritesPhase(p)
    BY <1>2, PhaseVersions
  <2>2. QED BY <1>1, <2>1, CacheKept DEF WritesPhase
<1>4. ~DeliverAddon
  BY <1>3 DEF DeliverAddon
<1>5. Cached(addon)' = Cached(addon) /\ (~Current(addon) => ~Current(addon)')
  <2>1. addon' = addon \/ \E n \in Addon : WritesAddon(n)
    BY <1>2, <1>4, AddonVersions
  <2>2. QED BY <1>1, <2>1, CacheKept DEF WritesAddon
<1>6. truth' = truth
  <2>1. CASE UserStep
    BY <2>1 DEF UserStep, CreatePhase, DeletePhase, DeleteAddon, TogglePause, DeleteAppExternally,
                FlipCriterion, EditValues, ChangeInputs, ChangeResource, ChangeVerdict, world
  <2>2. CASE AddonStep
    BY <2>2 DEF AddonStep, ReconcileAddon, AddonEnsureFinalizer, AddonComputeValues,
                CreateApplication, ApplicationNotVisible, ApplicationUpToDate, UpdateApplication,
                AddonUpdateStatus, AddonDeleteApp, AddonRemoveFinalizer, AddonElse, world
  <2>3. CASE PhaseStep
    BY <2>3 DEF PhaseStep, ReconcilePhase, PhaseEnsureFinalizer, PhaseEvaluate, patchAddonStatus,
                PhaseUpdateStatus, PhaseUpdateError, clearAddonStatus, PhaseRemoveFinalizer,
                PhaseElse, world
  <2>4. CASE Deliver \/ ArgoStep \/ Fault \/ UNCHANGED vars
    BY <2>4 DEF Deliver, DeliverAddon, DeliverPhase, DeliverApp, ArgoStep, ArgoRefresh,
                ArgoFinishDelete, Fault, AddonFails, PhaseEvaluationFails, PhaseFails, Restart,
                world, vars
  <2>5. QED BY <2>1, <2>2, <2>3, <2>4 DEF Next
<1>7. QED BY <1>3, <1>5, <1>6

\* The rule statuses that a reconcile finds which reads phase p and Addon a now.
Evaluated(p, a) == latchDeployedRules(EvaluateRules(p.rules, Satisfied(a)), a)

\* A live phase that is not enqueued: the reconcile in progress, if any, works on
\* what is in the cache, and the rules it has evaluated are those of the cached
\* Addon; what it has patched into the Addon is still to be delivered.  When it
\* is over and its writes have been delivered, another reconcile would find and
\* write the same.
PhaseOnCourse ==
    ~phaseQueue /\ Cached(phase).life = "live" =>
        LET w == phaseWorker  p == Cached(phase)  a == Cached(addon)
        IN  /\ w.pc \notin {"clear", "remove"}
            /\ w.pc # "idle" => w.old = p
            /\ w.pc \in {"patch", "status"} => w.new.rules = Evaluated(p, a)
            /\ w.pc = "status" =>
                  \/ ~Current(addon) \/ a.life = "gone"
                  \/ a.phaseSel = ActiveSelectors(w.new.rules)
            /\ w.pc = "update" /\ w.new.conds.reason = "TargetAddonNotFound" => a.life = "gone"
            /\ w.pc = "idle" =>
                  \/ ~Current(phase) \/ ~Current(addon) \/ a.life = "gone"
                  \/ p.rules = Evaluated(p, a) /\ a.phaseSel = ActiveSelectors(p.rules)

LEMMA PhaseCourseInit == Init => PhaseOnCourse
<1> SUFFICES ASSUME Init, ~phaseQueue, Cached(phase).life = "live" PROVE FALSE
  BY DEF PhaseOnCourse
<1>1. ~InitSettled
  BY DEF InitSettled
<1>2. InitNew
  BY <1>1 DEF Init
<1>3. phase[1].life # "live" /\ Len(phase) = 1
  BY <1>2 DEF InitNew
<1>4. Cached(phase) = phase[1]
  BY <1>2, VersionsOne, NewTypes DEF InitNew
<1>5. QED BY <1>3, <1>4

\* A step that leaves the reconcile of the phase alone.
LEMMA PhaseCourseKept ==
    ASSUME TypeOK, PhaseOnCourse, [Next]_vars, UNCHANGED phaseWorker, phaseQueue => phaseQueue'
    PROVE  PhaseOnCourse'
<1> SUFFICES ASSUME ~phaseQueue', Cached(phase)'.life = "live" PROVE PhaseOnCourse'
  BY DEF PhaseOnCourse
<1>1. /\ Cached(phase)' = Cached(phase) /\ (~Current(phase) => ~Current(phase)')
      /\ Cached(addon)' = Cached(addon) /\ (~Current(addon) => ~Current(addon)')
      /\ truth' = truth
  BY PhaseReads
<1>2. \A p, a : Evaluated(p, a)' = Evaluated(p, a)
  BY <1>1 DEF Evaluated, Satisfied
<1>3. QED BY <1>1, <1>2 DEF PhaseOnCourse

LEMMA PhaseCourseStep == TypeOK /\ PhaseOnCourse /\ [Next]_vars => PhaseOnCourse'
<1> SUFFICES ASSUME TypeOK, PhaseOnCourse, [Next]_vars, ~phaseQueue', Cached(phase)'.life = "live"
             PROVE  PhaseOnCourse'
  BY DEF PhaseOnCourse
<1> DEFINE w == phaseWorker
           p == Cached(phase)
           a == Cached(addon)
<1>0. phaseQueue \in BOOLEAN
  BY DEF TypeOK
<1>1. /\ p' = p /\ p.life = "live" /\ (~Current(phase) => ~Current(phase)')
      /\ a' = a /\ (~Current(addon) => ~Current(addon)')
      /\ truth' = truth
  BY PhaseReads
<1>2. Evaluated(p, a)' = Evaluated(p, a)
  BY <1>1 DEF Evaluated, Satisfied
<1>3. /\ w \in PhaseWorker /\ w.old \in Phase /\ w.new \in Phase /\ p \in Phase /\ a \in Addon
      /\ phase \in Versions(Phase) /\ addon \in Versions(Addon)
      /\ Current(phase) => Stored(phase) = p
      /\ Current(addon) => Stored(addon) = a
  BY StateTypes
<1>4. ASSUME NEW pc \in {"evaluate", "patch", "status", "update"}, NEW n, PhaseGoesOn(pc, n)
      PROVE  /\ ~phaseQueue /\ phaseWorker'.pc = pc /\ phaseWorker'.new = n
             /\ phaseWorker'.old = w.old
  BY <1>3, <1>4 DEF PhaseGoesOn, PhaseWorker
<1>5. ~phaseQueue =>
         /\ w.pc \notin {"clear", "remove"}
         /\ w.pc # "idle" => w.old = p
         /\ w.pc \in {"patch", "status"} => w.new.rules = Evaluated(p, a)
         /\ w.pc = "status" =>
               \/ ~Current(addon) \/ a.life = "gone"
               \/ a.phaseSel = ActiveSelectors(w.new.rules)
         /\ w.pc = "update" /\ w.new.conds.reason = "TargetAddonNotFound" => a.life = "gone"
  BY <1>1 DEF PhaseOnCourse
<1>6. PhaseOnCourse' <=>
         /\ phaseWorker'.pc \notin {"clear", "remove"}
         /\ phaseWorker'.pc # "idle" => phaseWorker'.old = p
         /\ phaseWorker'.pc \in {"patch", "status"} => phaseWorker'.new.rules = Evaluated(p, a)
         /\ phaseWorker'.pc = "status" =>
               \/ ~Current(addon)' \/ a.life = "gone"
               \/ a.phaseSel = ActiveSelectors(phaseWorker'.new.rules)
         /\ phaseWorker'.pc = "update" /\ phaseWorker'.new.conds.reason = "TargetAddonNotFound" =>
               a.life = "gone"
         /\ phaseWorker'.pc = "idle" =>
               \/ ~Current(phase)' \/ ~Current(addon)' \/ a.life = "gone"
               \/ p.rules = Evaluated(p, a) /\ a.phaseSel = ActiveSelectors(p.rules)
  BY <1>1, <1>2 DEF PhaseOnCourse
<1> HIDE DEF p, a
<1>7. CASE PhaseStep
  <2>1. CASE ReconcilePhase
    <3>1. phaseWorker' \in {PhaseStart("finalizer", p), PhaseStart("evaluate", p)}
      <4>1. p.fin \in BOOLEAN
        BY <1>3 DEF Phase
      <4>2. QED BY <1>1, <2>1, <4>1 DEF ReconcilePhase, p
    <3>2. phaseWorker'.pc \in {"finalizer", "evaluate"} /\ phaseWorker'.old = p
      BY <3>1 DEF PhaseStart
    <3>3. QED BY <1>6, <3>2
  <2>2. CASE PhaseEnsureFinalizer
    <3>1. w.pc = "finalizer" /\ PhaseGoesOn("evaluate", w.new)
      BY <2>2 DEF PhaseEnsureFinalizer, PhaseReturns
    <3>2. /\ ~phaseQueue /\ phaseWorker'.pc = "evaluate" /\ phaseWorker'.old = w.old
      BY <1>4, <3>1
    <3>3. QED BY <1>5, <1>6, <3>1, <3>2
  <2>3. CASE PhaseEvaluate
    <3> DEFINE rules == RulesFor(a)
               c == SetReady("FullyReconciled")
               n == [w.new EXCEPT !.rules = rules, !.conds = c]
    <3>1. CASE a.life = "gone"
      <4>1. \E m : PhaseGoesOn("update", m)
        BY <2>3, <3>1 DEF PhaseEvaluate, a
      <4>2. ~phaseQueue /\ phaseWorker'.pc = "update" /\ phaseWorker'.old = w.old
        BY <1>4, <4>1
      <4>3. w.pc = "evaluate"
        BY <2>3 DEF PhaseEvaluate
      <4>4. QED BY <1>5, <1>6, <3>1, <4>2, <4>3
    <3>2. CASE a.life # "gone"
      <4>1. /\ w.pc = "evaluate"
            /\ \/ a.phaseSel = ActiveSelectors(rules) /\ PhaseGoesOn("status", n)
               \/ PhaseGoesOn("patch", n)
        BY <2>3, <3>2 DEF PhaseEvaluate, a
      <4>2. ~phaseQueue /\ w.old = p
        BY <1>4, <1>5, <4>1
      <4>3. rules = Evaluated(p, a)
        BY <4>2 DEF RulesFor, Evaluated
      <4>4. rules \in [Rules -> RuleStatus] /\ c \in Conditions
        BY <1>3, RulesFields, ConditionTypes, ReasonTypes DEF Phase
      <4> HIDE DEF rules, c
      <4>5. n.rules = rules
        BY <1>3, <4>4 DEF Phase
      <4> HIDE DEF n
      <4>6. CASE a.phaseSel = ActiveSelectors(rules) /\ PhaseGoesOn("status", n)
        BY <1>4, <1>6, <4>2, <4>3, <4>5, <4>6
      <4>7. CASE PhaseGoesOn("patch", n)
        BY <1>4, <1>6, <4>2, <4>3, <4>5, <4>7
      <4>8. QED BY <4>1, <4>6, <4>7
    <3>3. QED BY <3>1, <3>2
  <2>4. CASE patchAddonStatus
    <3> DEFINE s == ActiveSelectors(w.new.rules)
               n == PhasePatchFailed
    <3>1. /\ w.pc = "patch"
          /\ \/ a.life = "gone" /\ PhaseGoesOn("status", w.new)
             \/ /\ CanWrite(addon) \/ a.phaseSel = s
                /\ addon' = AfterPatch(s) /\ PhaseGoesOn("status", w.new)
             \/ PhaseGoesOn("update", n)
      BY <2>4 DEF patchAddonStatus, a
    <3>2. CASE PhaseGoesOn("status", w.new)
      <4>1. /\ ~phaseQueue /\ phaseWorker'.pc = "status" /\ phaseWorker'.new = w.new
            /\ phaseWorker'.old = w.old
        BY <1>4, <3>2
      <4>2. ASSUME CanWrite(addon) \/ a.phaseSel = s, addon' = AfterPatch(s)
            PROVE  ~Current(addon)' \/ a.phaseSel = s
        <5>1. CASE a.phaseSel # s
          <6> DEFINE o == [Stored(addon) EXCEPT !.phaseSel = s]
          <6>1. addon' = Written(addon, o)
            BY <4>2, <5>1 DEF AfterPatch, a
          <6>2. Stored(addon) \in Addon /\ s \in SUBSET Rules
            BY StateTypes DEF ActiveSelectors
          <6> HIDE DEF s
          <6>3. o \in Addon /\ o.phaseSel = s
            BY <6>2 DEF Addon
          <6> HIDE DEF o
          <6>4. CASE o = Stored(addon)
            <7>1. addon' = addon /\ ~Current(addon)
              BY <1>3, <5>1, <6>1, <6>3, <6>4 DEF Written
            <7>2. QED BY <1>1, <7>1
          <6>5. CASE o # Stored(addon)
            <7>1. addon' = Append(addon, o)
              BY <6>1, <6>5 DEF Written
            <7>2. ~Current(addon')
              BY <1>3, <4>2, <5>1, <6>3, <7>1, VersionsAppend
            <7>3. QED BY <7>2
          <6>6. QED BY <6>4, <6>5
        <5>2. QED BY <5>1
      <4>3. a.life = "gone" \/ ~Current(addon)' \/ a.phaseSel = s
        <5>1. CASE a.life = "gone"
          BY <5>1
        <5>2. CASE PhaseGoesOn("update", n)
          BY <1>4, <4>1, <5>2
        <5>3. QED BY <3>1, <4>2, <5>1, <5>2
      <4>4. QED BY <1>5, <1>6, <3>1, <4>1, <4>3
    <3>3. CASE PhaseGoesOn("update", n)
      <4>1. w.old.rules \in [Rules -> RuleStatus] /\ SetProgressing("PatchFailed") \in Conditions
        BY <1>3, ConditionTypes, ReasonTypes DEF Phase
      <4>2. n.conds = SetProgressing("PatchFailed")
        BY <1>3, <4>1 DEF Phase, PhasePatchFailed
      <4>3. n.conds.reason # "TargetAddonNotFound"
        BY <4>2 DEF SetProgressing, Primary
      <4> HIDE DEF n
      <4>4. QED BY <1>4, <1>5, <1>6, <3>1, <3>3, <4>3
    <3>4. QED BY <3>1, <3>2, <3>3
  <2>5. CASE PhaseUpdateStatus
    <3> DEFINE n == PhaseStatusAfterApply(w.new)
    <3>1. /\ w.pc = "status" /\ phaseWorker' = PhaseIdle /\ ~phaseQueue
          /\ \/ w.new = w.old
             \/ CanWrite(phase) /\ phase' = Written(phase, n)
      BY <2>5 DEF PhaseUpdateStatus, PhaseReturns
    <3>2. phaseWorker'.pc = "idle"
      BY <3>1 DEF PhaseIdle
    <3>3. ~Current(phase)' \/ p.rules = w.new.rules
      <4>1. CASE w.new = w.old
        BY <1>5, <3>1, <4>1
      <4>2. CASE CanWrite(phase) /\ phase' = Written(phase, n)
        <5>1. n \in Phase /\ n.rules = w.new.rules
          <6>1. Stored(phase) \in Phase
            BY StateTypes
          <6>2. QED BY <1>3, <6>1 DEF PhaseStatusAfterApply, Phase
        <5> HIDE DEF n
        <5>2. CASE n = Stored(phase)
          BY <1>1, <1>3, <4>2, <5>1, <5>2 DEF Written
        <5>3. CASE n # Stored(phase)
          <6>1. phase' = Append(phase, n)
            BY <4>2, <5>3 DEF Written
          <6>2. ~Current(phase')
            BY <1>3, <4>2, <5>1, <6>1, VersionsAppend
          <6>3. QED BY <6>2
        <5>4. QED BY <5>2, <5>3
      <4>3. QED BY <3>1, <4>1, <4>2
    <3>4. QED BY <1>1, <1>5, <1>6, <3>1, <3>2, <3>3
  <2>6. CASE PhaseUpdateError
    <3>1. /\ w.pc = "update" /\ phaseWorker' = PhaseIdle /\ ~phaseQueue
          /\ w.new.conds.reason = "TargetAddonNotFound"
      BY <2>6 DEF PhaseUpdateError, PhaseReturns
    <3>2. phaseWorker'.pc = "idle"
      BY <3>1 DEF PhaseIdle
    <3>3. QED BY <1>5, <1>6, <3>1, <3>2
  <2>7. CASE clearAddonStatus \/ PhaseRemoveFinalizer
    <3>1. w.pc \in {"clear", "remove"} /\ ~phaseQueue
      BY <1>0, <2>7 DEF clearAddonStatus, PhaseRemoveFinalizer, PhaseReturns, PhaseGoesOn
    <3>2. QED BY <1>5, <3>1
  <2>8. QED BY <1>7, <2>1, <2>2, <2>3, <2>4, <2>5, <2>6, <2>7 DEF PhaseStep
<1>8. CASE PhaseEvaluationFails
  <2> DEFINE n == [w.new EXCEPT !.conds = SetProgressing("EvaluationFailed")]
  <2>1. w.pc = "evaluate" /\ PhaseGoesOn("update", n)
    BY <1>8 DEF PhaseEvaluationFails
  <2>2. SetProgressing("EvaluationFailed") \in Conditions
    BY <1>3, ConditionTypes, ReasonTypes DEF Phase
  <2>3. n.conds = SetProgressing("EvaluationFailed")
    BY <1>3, <2>2 DEF Phase
  <2>4. n.conds.reason # "TargetAddonNotFound"
    BY <2>3 DEF SetProgressing, Primary
  <2> HIDE DEF n
  <2>5. QED BY <1>4, <1>5, <1>6, <2>1, <2>4
<1>9. CASE PhaseFails \/ Restart
  <2>1. ~Restart
    BY DEF Restart
  <2>2. w.pc = "patch" /\ PhaseGoesOn("update", PhasePatchFailed)
    BY <1>9, <2>1 DEF PhaseFails, PhaseReturns
  <2>3. w.old.rules \in [Rules -> RuleStatus] /\ SetProgressing("PatchFailed") \in Conditions
    BY <1>3, ConditionTypes, ReasonTypes DEF Phase
  <2>4. PhasePatchFailed.conds = SetProgressing("PatchFailed")
    BY <1>3, <2>3 DEF Phase, PhasePatchFailed
  <2>5. PhasePatchFailed.conds.reason # "TargetAddonNotFound"
    BY <2>4 DEF SetProgressing, Primary
  <2>6. QED BY <1>4, <1>5, <1>6, <2>2, <2>5
<1>10. CASE UNCHANGED phaseWorker /\ (phaseQueue => phaseQueue')
  BY <1>10, PhaseCourseKept
<1>11. CASE Deliver \/ UserStep \/ ArgoStep \/ AddonFails \/ UNCHANGED vars
  <2>1. CASE DeliverAddon \/ DeliverPhase \/ FlipCriterion
    <3>1. UNCHANGED phaseWorker
      BY <2>1 DEF DeliverAddon, DeliverPhase, FlipCriterion, Change
    <3>2. phaseQueue => phaseQueue'
      BY <1>0, <2>1 DEF DeliverAddon, DeliverPhase, FlipCriterion
    <3>3. QED BY <1>10, <3>1, <3>2
  <2>2. CASE ~DeliverAddon /\ ~DeliverPhase /\ ~FlipCriterion
    <3>1. UNCHANGED <<phaseWorker, phaseQueue>>
      BY <1>11, <2>2
      DEF Deliver, DeliverApp, UserStep, CreatePhase, DeletePhase, DeleteAddon, TogglePause,
          DeleteAppExternally, EditValues, ChangeInputs, ChangeResource, ChangeVerdict, Change,
          ArgoStep, ArgoRefresh, ArgoFinishDelete, AddonFails, vars
    <3>2. QED BY <1>10, <3>1
  <2>3. QED BY <2>1, <2>2
<1>12. CASE AddonStep
  <2>1. UNCHANGED <<phaseWorker, phaseQueue>>
    BY <1>12 DEF AddonStep, ReconcileAddon, AddonEnsureFinalizer, AddonComputeValues,
                 CreateApplication, ApplicationNotVisible, ApplicationUpToDate, UpdateApplication,
                 AddonUpdateStatus, AddonDeleteApp, AddonRemoveFinalizer, AddonElse
  <2>2. QED BY <1>10, <2>1
<1>13. QED BY <1>7, <1>8, <1>9, <1>11, <1>12 DEF Next, Fault

-----------------------------------------------------------------------------
(* The Addon at rest. *)

\* Nothing that a reconcile of the Addon reads changes without the Addon being
\* enqueued, but for the objects its dependencies read.
LEMMA AddonReads ==
    ASSUME TypeInv, [Next]_vars, ~addonQueue'
    PROVE  /\ Cached(addon)' = Cached(addon) /\ (~Current(addon) => ~Current(addon)')
           /\ Cached(app)' = Cached(app) /\ (~Current(app) => ~Current(app)')
           /\ version' = version /\ (inputs' = inputs \/ "resource" \in Kinds)
<1>1. TypeOK /\ app \in Versions(App) /\ addon \in Versions(Addon)
  BY StateTypes DEF TypeInv
<1>2. ~Restart /\ ~DeliverAddon /\ ~DeliverApp
  BY DEF Restart, DeliverAddon, DeliverApp
<1>3. Cached(addon)' = Cached(addon) /\ (~Current(addon) => ~Current(addon)')
  <2>1. addon' = addon \/ \E n \in Addon : WritesAddon(n)
    BY <1>1, <1>2, AddonVersions
  <2>2. QED BY <1>1, <2>1, CacheKept DEF WritesAddon
<1>4. Cached(app)' = Cached(app) /\ (~Current(app) => ~Current(app)')
  <2>1. app' = app \/ \E x \in App : WritesApp(x)
    BY <1>1, <1>2, AppVersions, AppWriteTypes
  <2>2. QED BY <1>1, <2>1, CacheKept DEF WritesApp
<1>5. version' = version /\ (inputs' = inputs \/ "resource" \in Kinds)
  <2>1. CASE UserStep
    BY <2>1 DEF UserStep, CreatePhase, DeletePhase, DeleteAddon, TogglePause, DeleteAppExternally,
                FlipCriterion, EditValues, ChangeInputs, ChangeResource, ChangeVerdict, Change,
                world
  <2>2. CASE AddonStep
    BY <2>2 DEF AddonStep, ReconcileAddon, AddonEnsureFinalizer, AddonComputeValues,
                CreateApplication, ApplicationNotVisible, ApplicationUpToDate, UpdateApplication,
                AddonUpdateStatus, AddonDeleteApp, AddonRemoveFinalizer, AddonElse, world
  <2>3. CASE PhaseStep
    BY <2>3 DEF PhaseStep, ReconcilePhase, PhaseEnsureFinalizer, PhaseEvaluate, patchAddonStatus,
                PhaseUpdateStatus, PhaseUpdateError, clearAddonStatus, PhaseRemoveFinalizer,
                PhaseElse, world
  <2>4. CASE Deliver \/ ArgoStep \/ Fault \/ UNCHANGED vars
    BY <2>4 DEF Deliver, DeliverAddon, DeliverPhase, DeliverApp, ArgoStep, ArgoRefresh,
                ArgoFinishDelete, Fault, AddonFails, PhaseEvaluationFails, PhaseFails, Restart,
                world, vars
  <2>5. QED BY <2>1, <2>2, <2>3, <2>4 DEF Next
<1>6. QED BY <1>3, <1>4, <1>5

LEMMA FaultsGrow ==
    ASSUME TypeOK, [Next]_vars
    PROVE  faults \in Nat /\ faults' \in Nat /\ faults' >= faults
<1>1. faults \in Nat
  BY ConstantsAssumption DEF TypeOK
<1>2. faults' = faults \/ faults' = faults + 1
  <2>1. CASE UserStep \/ Deliver \/ ArgoStep \/ Fault \/ UNCHANGED vars
    BY <2>1 DEF UserStep, CreatePhase, DeletePhase, DeleteAddon, TogglePause, DeleteAppExternally,
                FlipCriterion, EditValues, ChangeInputs, ChangeResource, ChangeVerdict, Change,
                Deliver, DeliverAddon, DeliverPhase, DeliverApp, ArgoStep, ArgoRefresh,
                ArgoFinishDelete, Fault, AddonFails, PhaseEvaluationFails, PhaseFails, Restart, vars
  <2>2. CASE AddonStep
    BY <2>2 DEF AddonStep, ReconcileAddon, AddonEnsureFinalizer, AddonComputeValues,
                CreateApplication, ApplicationNotVisible, ApplicationUpToDate, UpdateApplication,
                AddonUpdateStatus, AddonDeleteApp, AddonRemoveFinalizer, AddonElse
  <2>3. CASE PhaseStep
    BY <2>3 DEF PhaseStep, ReconcilePhase, PhaseEnsureFinalizer, PhaseEvaluate, patchAddonStatus,
                PhaseUpdateStatus, PhaseUpdateError, clearAddonStatus, PhaseRemoveFinalizer,
                PhaseElse
  <2>4. QED BY <2>1, <2>2, <2>3 DEF Next
<1>3. QED BY <1>1, <1>2

-----------------------------------------------------------------------------
(* Failed dependency checks. *)

\* Conditions that tell of a failed check were written after k faults, at least one.
Accounted(c, k) == c.reason = "DependencyCheckFailed" => ~c.ready /\ ~c.degraded /\ k >= 1

\* That is so for every copy of the Addon; a reconcile that read of a failed check
\* and has met another one has met the second.
CheckInv ==
    /\ \A a \in Copies(addon) : Accounted(a.conds, faults)
    /\ Accounted(addonWorker.old.conds, faults) /\ Accounted(addonWorker.new.conds, faults)
    /\ /\ addonWorker.pc = "status"
       /\ addonWorker.old.conds.reason = "DependencyCheckFailed"
       /\ addonWorker.new.conds.reason = "DependencyCheckFailed"
       => faults >= 2

LEMMA CheckInit == Init => CheckInv
<1> SUFFICES ASSUME Init PROVE CheckInv
  OBVIOUS
<1>1. /\ addonWorker.pc = "idle" /\ addonWorker.old = NewAddon /\ addonWorker.new = NewAddon
  BY DEF Init, AddonIdle
<1>2. NewAddon.conds.reason = ""
  BY DEF NewAddon, NoConditions, Primary
<1>3. PICK a : addon = <<a>> /\ a.conds.reason # "DependencyCheckFailed"
  <2>1. CASE InitNew
    BY <1>2, <2>1 DEF InitNew
  <2>2. CASE InitSettled
    <3> DEFINE c == SetReady("FullyReconciled")
               b == [NewAddon EXCEPT !.fin = TRUE, !.hash = SettledValues, !.synced = TRUE,
                                     !.healthy = TRUE, !.deployed = TRUE, !.conds = c]
    <3>1. addon = <<b>>
      BY <2>2 DEF InitSettled
    <3>2. b.conds = c
      BY DEF NewAddon
    <3>3. c.reason = "FullyReconciled"
      BY DEF SetReady, Primary
    <3> HIDE DEF b, c
    <3>4. QED BY <3>1, <3>2, <3>3
  <2>3. QED BY <2>1, <2>2 DEF Init
<1>4. Copies(addon) = {a}
  BY <1>3, VersionsOne
<1>5. QED BY <1>1, <1>2, <1>3, <1>4 DEF CheckInv, Accounted

LEMMA CheckStep == TypeInv /\ CheckInv /\ [Next]_vars => CheckInv'
<1> SUFFICES ASSUME TypeInv, CheckInv, [Next]_vars PROVE CheckInv'
  OBVIOUS
<1> DEFINE w == addonWorker
           v == addonWorker'
           k == faults
           l == faults'
           Failed(a) == a.conds.reason = "DependencyCheckFailed"
<1>1. /\ TypeOK /\ Stored(addon) \in Copies(addon) /\ Cached(addon) \in Copies(addon)
      /\ w.new \in Addon /\ w.old \in Addon /\ Cached(addon) \in Addon
      /\ k \in Nat /\ l \in Nat /\ l >= k
  BY StateTypes, FaultsGrow DEF TypeInv
<1>2. \A c : Accounted(c, k) => Accounted(c, l)
  BY <1>1 DEF Accounted
<1>3. \A a \in Copies(addon)' : Accounted(a.conds, l)
  <2>1. ASSUME NEW n \in Addon, AddonWrite(n) PROVE Accounted(n.conds, l)
    <3>1. CASE SameStatus(n, Stored(addon))
      BY <1>1, <1>2, <3>1 DEF SameStatus, CheckInv
    <3>2. CASE SameStatus(n, w.new)
      BY <1>2, <3>2 DEF SameStatus, CheckInv
    <3>3. QED BY <2>1, <3>1, <3>2
          DEF AddonWrite, UserWrite, FinalizerWrite, StatusWrite, RemovalWrite, SelectorWrite
  <2>2. QED BY <1>1, <1>2, <2>1, AddonFollows DEF CheckInv
<1>4. Accounted(NewAddon.conds, l)
  BY DEF Accounted, NewAddon, NoConditions, Primary
<1> DEFINE Goal == /\ Accounted(v.old.conds, l) /\ Accounted(v.new.conds, l)
                   /\ v.pc = "status" /\ Failed(v.old) /\ Failed(v.new) => l >= 2
<1>5. Goal
  <2>0. Accounted(w.old.conds, l) /\ Accounted(w.new.conds, l) /\ Accounted(Cached(addon).conds, l)
    BY <1>1, <1>2 DEF CheckInv
  <2>1. CASE v = w
    BY <1>1, <2>0, <2>1 DEF CheckInv
  <2>2. CASE v = AddonIdle
    BY <1>4, <2>2 DEF AddonIdle
  <2>3. CASE Starts(v)
    BY <1>4, <2>0, <2>3 DEF Starts
  <2>4. ASSUME NEW a \in Addon, StartsFrom(a, v) PROVE Goal
    <3> DEFINE e == EnsureAllConditions(a.conds)
    <3>1. v = AddonStart("values", a) /\ (a = Cached(addon) \/ a = w.old) /\ a.conds \in Conditions
      BY <2>4 DEF StartsFrom, Addon
    <3>2. Accounted(a.conds, l)
      BY <2>0, <3>1
    <3>3. /\ v.old = a /\ v.pc \in {"values", "status"}
          /\ v.pc = "status" => v.new.conds = SetPaused(e)
          /\ v.new.conds = e \/ v.new.conds = SetPaused(e)
      BY <3>1, StartFields
    <3>4. e \in Conditions /\ Accounted(e, l)
      <4>1. e \in Conditions
        BY <3>1, ConditionTypes, ReasonTypes
      <4>2. e = a.conds \/ e.reason = "Initializing"
        BY DEF EnsureAllConditions, SetProgressing, Primary
      <4>3. QED BY <3>2, <4>1, <4>2 DEF Accounted
    <3> HIDE DEF e
    <3>5. SetPaused(e).reason = "Paused"
      BY <3>4 DEF SetPaused, Conditions
    <3>6. QED BY <3>2, <3>3, <3>4, <3>5 DEF Accounted
  <2>5. CASE Computes(v)
    <3>1. v.old = w.old /\ (v.pc = "application" => v.new.conds = w.new.conds)
      BY <2>5 DEF Computes
    <3>2. CASE v.pc = "status"
      <4>1. PICK why \in Reasons :
                /\ v.new.conds \in {SetProgressing(why), SetDegraded(why)}
                /\ why = "DependencyCheckFailed" => v.new.conds = SetProgressing(why) /\ l = k + 1
        BY <2>5, <3>2 DEF Computes
      <4>2. v.new.conds.reason = why
        BY <4>1 DEF SetProgressing, SetDegraded, Primary
      <4>3. CASE why # "DependencyCheckFailed"
        BY <2>0, <3>1, <4>2, <4>3 DEF Accounted
      <4>4. CASE why = "DependencyCheckFailed"
        <5>1. ~v.new.conds.ready /\ ~v.new.conds.degraded /\ l >= 1
          BY <1>1, <4>1, <4>4 DEF SetProgressing, Primary
        <5>2. Failed(w.old) => k >= 1
          BY DEF CheckInv, Accounted
        <5>3. Failed(v.old) => l >= 2
          BY <1>1, <3>1, <4>1, <4>4, <5>2
        <5>4. QED BY <2>0, <3>1, <5>1, <5>3 DEF Accounted
      <4>5. QED BY <4>3, <4>4
    <3>3. CASE v.pc = "application"
      BY <2>0, <3>1, <3>3
    <3>4. QED BY <2>5, <3>2, <3>3 DEF Computes
  <2>6. CASE Applies(v)
    <3>1. v.old = w.old
      BY <2>6 DEF Applies
    <3>2. ASSUME NEW t \in Addon, t.conds = w.new.conds, v.new = Concluded(t)
          PROVE  ~Failed(v.new)
      <4>1. \/ v.new.conds = SetReady("FullyReconciled")
            \/ v.new.conds = SetProgressing("NotSynced")
            \/ v.new.conds = w.new.conds /\ w.new.conds.degraded
        BY <3>2, ConcludedFields
      <4>2. QED BY <2>0, <4>1 DEF Accounted, SetReady, SetProgressing, Primary
    <3>3. CASE v.new = [w.new EXCEPT !.conds = SetDegraded("ApplicationFailed")]
      <4>1. v.new.conds = SetDegraded("ApplicationFailed")
        BY <1>1, <3>3 DEF Addon
      <4>2. ~Failed(v.new)
        BY <4>1 DEF SetDegraded, Primary
      <4>3. QED BY <2>0, <3>1, <4>2 DEF Accounted
    <3>4. CASE v.new = Concluded(w.new)
      BY <1>1, <2>0, <3>1, <3>2, <3>4 DEF Accounted
    <3>5. ASSUME NEW x \in App, v.new = Concluded(Translated(w.new, x)) PROVE Goal
      <4>1. Translated(w.new, x) \in Addon /\ Translated(w.new, x).conds = w.new.conds
        BY <1>1, TranslatedFields
      <4>2. ~Failed(v.new)
        BY <3>2, <3>5, <4>1
      <4>3. QED BY <2>0, <3>1, <4>2 DEF Accounted
    <3>6. QED BY <2>6, <3>3, <3>4, <3>5 DEF Applies
  <2>7. CASE Awaits(v)
    BY <2>0, <2>7 DEF Awaits
  <2>8. QED BY <2>1, <2>2, <2>3, <2>4, <2>5, <2>6, <2>7, AddonMoves
<1>6. QED BY <1>3, <1>5 DEF CheckInv

-----------------------------------------------------------------------------
(* The course of an Addon. *)

\* The values that are due for selectors s, and an Addon that says why it has none:
\* its dependencies are not met, or were not when it looked and are not watched;
\* or their check has failed.
Due(s) == [sel |-> s, ver |-> version]
Blocked(n) ==
    /\ ~n.conds.ready /\ n.conds.reason = "DependenciesNotMet"
    /\ inputs = "unmet" \/ "resource" \in Kinds
Unchecked(n) == ~n.conds.ready /\ n.conds.reason = "DependencyCheckFailed"

\* Status n was drawn from Application x, which has the values that are due.
Tells(n, x) ==
    /\ x.life # "absent" /\ x.spec = n.hash /\ n.hash = Due(n.phaseSel)
    /\ n.observed = n.phaseSel
    /\ n.synced <=> (x.sync /\ x.compared = x.spec /\ x.compared # NoValues)
    /\ n.healthy = x.health
    /\ n.conds.degraded \/ (n.conds.ready <=> (n.synced /\ n.healthy))

\* A live Addon that is neither enqueued nor paused: the reconcile in progress, if
\* any, works on what is in the cache; when it has a status to write, it has asked
\* for a requeue or will, or a version of the Application is still to be delivered,
\* or the dependencies are not met or could not be checked, or the status tells of
\* the cached Application.  When it is over and its writes have been delivered,
\* that is the status of the Addon, and only a second failed check can have left it
\* unchecked: the first one wrote a status, which brought the Addon back.
AddonOnCourse ==
    ~addonQueue /\ Cached(addon).life = "live" /\ ~Cached(addon).paused =>
        LET w == addonWorker  a == Cached(addon)  x == Cached(app)
        IN  /\ w.pc \notin {"deleteApp", "awaitApp"}
            /\ w.pc # "idle" => w.old = a
            /\ w.pc \in {"values", "application", "status"} => w.new.phaseSel = a.phaseSel
            /\ w.pc = "application" => w.new.hash = Due(a.phaseSel)
            /\ w.pc = "status" =>
                  \/ w.requeue \/ w.new.conds.degraded \/ ~Current(app)
                  \/ Blocked(w.new) \/ Unchecked(w.new) \/ Tells(w.new, x)
            /\ w.pc = "idle" =>
                  \/ ~Current(addon) \/ ~Current(app)
                  \/ Blocked(a) \/ (Unchecked(a) /\ faults >= 2)
                  \/ Tells(a, x) /\ ~a.conds.degraded

LEMMA AddonCourseInit == Init => AddonOnCourse
<1> SUFFICES ASSUME Init, ~addonQueue PROVE AddonOnCourse
  BY DEF AddonOnCourse
<1>1. ~InitNew
  BY DEF InitNew
<1>2. InitSettled /\ version = 1 /\ addonWorker.pc = "idle"
  BY <1>1 DEF Init, AddonIdle
<1> DEFINE c == SetReady("FullyReconciled")
           a == [NewAddon EXCEPT !.fin = TRUE, !.hash = SettledValues, !.synced = TRUE,
                                 !.healthy = TRUE, !.deployed = TRUE, !.conds = c]
           n == NewApp(SettledValues)
           x == [n EXCEPT !.compared = SettledValues, !.sync = TRUE, !.health = TRUE]
<1>3. addon = <<a>> /\ app = <<x>>
  BY <1>2 DEF InitSettled
<1>4. /\ a.hash = SettledValues /\ a.conds = c /\ a.synced = TRUE /\ a.healthy = TRUE
      /\ a.observed = {} /\ a.phaseSel = {}
  BY DEF NewAddon
<1>5. /\ x.life = "live" /\ x.spec = SettledValues /\ x.compared = SettledValues
      /\ x.sync = TRUE /\ x.health = TRUE
  BY DEF NewApp, NoApp
<1>6. c.ready = TRUE /\ c.degraded = FALSE
  BY DEF SetReady, Primary
<1> HIDE DEF a, x, c, n
<1>7. Cached(addon) = a /\ Cached(app) = x
  BY <1>3, VersionsOne
<1>8. SettledValues = Due({}) /\ SettledValues # NoValues
  BY <1>2 DEF SettledValues, Due, NoValues
<1>9. Tells(a, x) /\ ~a.conds.degraded
  BY <1>4, <1>5, <1>6, <1>8 DEF Tells
<1>10. QED BY <1>2, <1>7, <1>9 DEF AddonOnCourse

\* A step that leaves the reconcile of the Addon alone.
LEMMA AddonCourseKept ==
    ASSUME TypeInv, AddonOnCourse, [Next]_vars, UNCHANGED addonWorker, addonQueue => addonQueue'
    PROVE  AddonOnCourse'
<1> SUFFICES ASSUME ~addonQueue' PROVE AddonOnCourse'
  BY DEF AddonOnCourse
<1>1. /\ Cached(addon)' = Cached(addon) /\ (~Current(addon) => ~Current(addon)')
      /\ Cached(app)' = Cached(app) /\ (~Current(app) => ~Current(app)')
      /\ version' = version /\ (inputs' = inputs \/ "resource" \in Kinds)
  BY AddonReads
<1>2. /\ \A n, x : Tells(n, x)' <=> Tells(n, x)
      /\ \A n : Blocked(n) => Blocked(n)'
      /\ \A s : Due(s)' = Due(s)
  BY <1>1 DEF Tells, Blocked, Due
<1>3. faults >= 2 => faults' >= 2
  BY FaultsGrow DEF TypeInv
<1>4. QED BY <1>1, <1>2, <1>3 DEF AddonOnCourse, Unchecked

\* The status drawn from an Application with the values that are due tells of it.
LEMMA ConclusionTells ==
    ASSUME NEW n \in Addon, NEW x \in App, x.life # "absent", x.spec = n.hash,
           n.hash = Due(n.phaseSel)
    PROVE  LET m == Concluded(Translated(n, x))
           IN  Tells(m, x) /\ m.phaseSel = n.phaseSel
<1> DEFINE t == Translated(n, x)
           m == Concluded(t)
<1>1. /\ t \in Addon /\ t.hash = n.hash /\ t.phaseSel = n.phaseSel /\ t.observed = n.phaseSel
      /\ t.synced <=> (x.sync /\ x.compared = x.spec /\ x.compared # NoValues)
      /\ t.healthy = x.health
  BY TranslatedFields
<1> HIDE DEF t
<1>2. /\ m.hash = t.hash /\ m.observed = t.observed /\ m.synced = t.synced
      /\ m.healthy = t.healthy /\ m.phaseSel = t.phaseSel
      /\ \/ t.synced /\ t.healthy /\ m.conds = SetReady("FullyReconciled")
         \/ ~(t.synced /\ t.healthy) /\ m.conds = SetProgressing("NotSynced")
         \/ ~(t.synced /\ t.healthy) /\ m.conds = t.conds /\ t.conds.degraded
  BY <1>1, ConcludedFields
<1> HIDE DEF m
<1>3. SetReady("FullyReconciled").ready = TRUE /\ SetProgressing("NotSynced").ready = FALSE
  BY DEF SetReady, SetProgressing, Primary
<1>4. m.conds.degraded \/ (m.conds.ready <=> (m.synced /\ m.healthy))
  BY <1>2, <1>3
<1>5. Tells(m, x) /\ m.phaseSel = n.phaseSel
  BY <1>1, <1>2, <1>4 DEF Tells
<1>6. QED BY <1>5 DEF m, t

LEMMA AddonCourseStep == TypeInv /\ CheckInv /\ AddonOnCourse /\ [Next]_vars => AddonOnCourse'
<1> SUFFICES ASSUME TypeInv, CheckInv, AddonOnCourse, [Next]_vars, ~addonQueue',
                    Cached(addon)'.life = "live", ~Cached(addon)'.paused
             PROVE  AddonOnCourse'
  BY DEF AddonOnCourse
<1> DEFINE w == addonWorker
           v == addonWorker'
           a == Cached(addon)
           x == Cached(app)
<1>0. TypeOK /\ addonQueue \in BOOLEAN
  BY DEF TypeInv, TypeOK
<1>1. /\ a' = a /\ a.life = "live" /\ a.paused = FALSE /\ (~Current(addon) => ~Current(addon)')
      /\ x' = x /\ (~Current(app) => ~Current(app)')
      /\ version' = version /\ (inputs' = inputs \/ "resource" \in Kinds)
      /\ faults >= 2 => faults' >= 2
  <2>1. /\ a' = a /\ (~Current(addon) => ~Current(addon)')
        /\ x' = x /\ (~Current(app) => ~Current(app)')
        /\ version' = version /\ (inputs' = inputs \/ "resource" \in Kinds)
        /\ faults >= 2 => faults' >= 2
    BY <1>0, AddonReads, FaultsGrow
  <2>2. a.paused \in BOOLEAN
    BY <1>0, StateTypes DEF Addon
  <2>3. QED BY <2>1, <2>2
<1>2. /\ \A n, y : Tells(n, y)' <=> Tells(n, y)
      /\ \A n : Blocked(n) => Blocked(n)'
      /\ \A s : Due(s)' = Due(s)
  BY <1>1 DEF Tells, Blocked, Due
<1>3. /\ w \in AddonWorker /\ w.old \in Addon /\ w.new \in Addon /\ a \in Addon /\ x \in App
      /\ addon \in Versions(Addon) /\ app \in Versions(App)
      /\ Stored(addon) \in Addon /\ Stored(app) \in App
      /\ Current(app) => Stored(app) = x
      /\ Current(addon) => Stored(addon) = a
  BY <1>0, StateTypes
<1>4. ASSUME NEW pc \in {"application", "status"}, NEW n \in Addon, AddonGoesOn(pc, n)
      PROVE  ~addonQueue /\ v.pc = pc /\ v.new = n /\ v.old = w.old
  BY <1>3, <1>4 DEF AddonGoesOn, AddonWorker
<1>5. ~addonQueue =>
         /\ w.pc \notin {"deleteApp", "awaitApp"}
         /\ w.pc # "idle" => w.old = a
         /\ w.pc \in {"values", "application", "status"} => w.new.phaseSel = a.phaseSel
         /\ w.pc = "application" => w.new.hash = Due(a.phaseSel)
         /\ w.pc = "status" =>
               \/ w.requeue \/ w.new.conds.degraded \/ ~Current(app)
               \/ Blocked(w.new) \/ Unchecked(w.new) \/ Tells(w.new, x)
  BY <1>1 DEF AddonOnCourse
<1> DEFINE Goal == /\ v.pc \notin {"deleteApp", "awaitApp"}
                   /\ v.pc # "idle" => v.old = a
                   /\ v.pc \in {"values", "application", "status"} => v.new.phaseSel = a.phaseSel
                   /\ v.pc = "application" => v.new.hash = Due(a.phaseSel)
                   /\ v.pc = "status" =>
                         \/ v.requeue \/ v.new.conds.degraded \/ ~Current(app)'
                         \/ Blocked(v.new) \/ Unchecked(v.new) \/ Tells(v.new, x)
                   /\ v.pc = "idle" =>
                         \/ ~Current(addon)' \/ ~Current(app)'
                         \/ Blocked(a) \/ (Unchecked(a) /\ faults >= 2)
                         \/ Tells(a, x) /\ ~a.conds.degraded
<1>6. Goal => AddonOnCourse'
  <2>1. /\ Blocked(v.new) => Blocked(addonWorker.new)'
        /\ Blocked(a) => Blocked(Cached(addon))'
        /\ Unchecked(addonWorker.new)' <=> Unchecked(v.new)
        /\ Unchecked(Cached(addon))' <=> Unchecked(a)
    BY <1>1 DEF Blocked, Unchecked
  <2>2. /\ Tells(addonWorker.new, Cached(app))' <=> Tells(v.new, x)
        /\ Tells(Cached(addon), Cached(app))' <=> Tells(a, x)
        /\ Due(Cached(addon).phaseSel)' = Due(a.phaseSel)
    BY <1>1 DEF Tells, Due
  <2>3. QED BY <1>1, <2>1, <2>2 DEF AddonOnCourse
<1> HIDE DEF a, x, v
<1>7. CASE AddonStep
  <2>1. ASSUME v = AddonStart("values", a) PROVE Goal
    <3>1. v.pc = "values" /\ v.old = a /\ v.new.phaseSel = a.phaseSel
      BY <1>1, <1>3, <2>1, StartFields
    <3>2. QED BY <3>1
  <2>2. ASSUME NEW n \in Addon, AddonGoesOn("status", n), n.phaseSel = a.phaseSel,
               w.pc \in {"values", "application"},
               ~Current(app)' \/ n.conds.degraded \/ Blocked(n) \/ Unchecked(n) \/ Tells(n, x)
        PROVE  Goal
    <3>1. v.pc = "status" /\ v.new = n /\ v.old = w.old /\ ~addonQueue
      BY <1>4, <2>2
    <3>2. QED BY <1>5, <2>2, <3>1
  <2> HIDE DEF Goal
  <2>3. CASE ReconcileAddon
    <3>1. a.fin \in BOOLEAN
      BY <1>3 DEF Addon
    <3>2. v \in {[AddonIdle EXCEPT !.pc = "finalizer", !.old = a], AddonStart("values", a)}
      BY <1>1, <2>3, <3>1 DEF ReconcileAddon, a, v
    <3>3. CASE v = [AddonIdle EXCEPT !.pc = "finalizer", !.old = a]
      <4>1. v.pc = "finalizer" /\ v.old = a
        BY <3>3 DEF AddonIdle
      <4>2. QED BY <1>6, <4>1 DEF Goal
    <3>4. QED BY <1>6, <2>1, <3>2, <3>3
  <2>4. CASE AddonEnsureFinalizer
    <3>1. w.pc = "finalizer" /\ v = AddonStart("values", w.old) /\ ~addonQueue
      BY <1>0, <2>4 DEF AddonEnsureFinalizer, AddonReturns, v
    <3>2. w.old = a
      BY <1>5, <3>1
    <3>3. QED BY <1>6, <2>1, <3>1, <3>2
  <2>5. CASE AddonComputeValues
    <3> DEFINE n == w.new
               h == [n EXCEPT !.hash = ComputedValues]
               d == [n EXCEPT !.conds = SetProgressing("DependenciesNotMet")]
               u == [n EXCEPT !.conds = SetDegraded("ValuesNotResolved")]
               s == [h EXCEPT !.conds = SetProgressing("WaitingForStableValues")]
    <3>1. /\ w.pc = "values"
          /\ \/ inputs = "unmet" /\ AddonGoesOn("status", d)
             \/ inputs = "unresolved" /\ AddonGoesOn("status", u)
             \/ /\ addonWorker' = [w EXCEPT !.pc = "status", !.requeue = TRUE, !.new = s]
                /\ UNCHANGED addonQueue
             \/ AddonGoesOn("application", h)
      BY <2>5 DEF AddonComputeValues, DependenciesMet
    <3>2. ~addonQueue /\ w.old = a /\ n.phaseSel = a.phaseSel
      <4>1. ~addonQueue
        BY <3>1 DEF AddonGoesOn
      <4>2. QED BY <1>5, <3>1, <4>1
    <3>3. ComputedValues \in Values /\ ComputedValues = Due(a.phaseSel)
      BY <1>0, <1>3, <3>2 DEF ComputedValues, Values, Addon, TypeOK, Due
    <3>4. h \in Addon /\ h.hash = ComputedValues /\ h.phaseSel = n.phaseSel
      BY <1>3, <3>3 DEF Addon
    <3>5. /\ SetProgressing("DependenciesNotMet") \in Conditions
          /\ SetDegraded("ValuesNotResolved") \in Conditions
          /\ SetProgressing("WaitingForStableValues") \in Conditions
      BY <1>3, ConditionTypes, ReasonTypes DEF Addon
    <3>6. CASE inputs = "unmet" /\ AddonGoesOn("status", d)
      <4>1. d \in Addon /\ d.phaseSel = n.phaseSel /\ d.conds = SetProgressing("DependenciesNotMet")
        BY <1>3, <3>5 DEF Addon
      <4>2. Blocked(d)
        BY <3>6, <4>1 DEF Blocked, SetProgressing, Primary
      <4> HIDE DEF d
      <4>3. QED BY <1>6, <2>2, <3>1, <3>2, <3>6, <4>1, <4>2
    <3>7. CASE inputs = "unresolved" /\ AddonGoesOn("status", u)
      <4>1. u \in Addon /\ u.phaseSel = n.phaseSel /\ u.conds = SetDegraded("ValuesNotResolved")
        BY <1>3, <3>5 DEF Addon
      <4>2. u.conds.degraded
        BY <4>1 DEF SetDegraded, Primary
      <4> HIDE DEF u
      <4>3. QED BY <1>6, <2>2, <3>1, <3>2, <3>7, <4>1, <4>2
    <3>8. CASE addonWorker' = [w EXCEPT !.pc = "status", !.requeue = TRUE, !.new = s]
      <4> HIDE DEF h
      <4>1. s.phaseSel = n.phaseSel
        BY <3>4, <3>5 DEF Addon
      <4> HIDE DEF s
      <4>2. v.pc = "status" /\ v.new = s /\ v.old = w.old /\ v.requeue = TRUE
        BY <1>3, <3>8 DEF AddonWorker, v
      <4>3. QED BY <1>6, <3>2, <4>1, <4>2 DEF Goal
    <3>9. CASE AddonGoesOn("application", h)
      <4> HIDE DEF h
      <4>1. v.pc = "application" /\ v.new = h /\ v.old = w.old
        BY <1>4, <3>4, <3>9
      <4>2. QED BY <1>6, <3>2, <3>3, <3>4, <4>1 DEF Goal
    <3>10. QED BY <3>1, <3>6, <3>7, <3>8, <3>9
  <2>6. ASSUME w.pc = "application", UNCHANGED addonQueue
        PROVE  w.old = a /\ w.new.phaseSel = a.phaseSel /\ w.new.hash = Due(w.new.phaseSel)
    BY <1>5, <2>6
  <2>7. ASSUME NEW y \in App, w.pc = "application", ~Current(app)',
               AddonGoesOn("status", Concluded(Translated(w.new, y)))
        PROVE  Goal
    <3> DEFINE t == Translated(w.new, y)
               m == Concluded(t)
    <3>1. t \in Addon /\ t.phaseSel = w.new.phaseSel
      BY <1>3, TranslatedFields
    <3> HIDE DEF t
    <3>2. m \in Addon /\ m.phaseSel = t.phaseSel
      BY <3>1, ConcludedFields
    <3>3. w.new.phaseSel = a.phaseSel
      BY <2>6, <2>7 DEF AddonGoesOn
    <3>4. AddonGoesOn("status", m)
      BY <2>7 DEF t
    <3> HIDE DEF m
    <3>5. QED BY <2>2, <2>7, <3>1, <3>2, <3>3, <3>4
  <2>8. CASE CreateApplication
    <3> DEFINE y == NewApp(w.new.hash)
    <3>1. /\ w.pc = "application" /\ CanWrite(app) /\ app' = Append(app, y)
          /\ AddonGoesOn("status", Concluded(Translated(w.new, y)))
      BY <2>8 DEF CreateApplication
    <3>2. y \in App
      BY <3>1, NewTypes DEF TypeInv, HasValues
    <3> HIDE DEF y
    <3>3. ~Current(app')
      BY <1>3, <3>1, <3>2, VersionsAppend
    <3>4. QED BY <1>6, <2>7, <3>1, <3>2, <3>3
  <2>9. CASE ApplicationNotVisible
    <3>1. /\ w.pc = "application" /\ x.life = "absent" /\ Stored(app).life # "absent"
          /\ AddonGoesOn("status", Concluded(w.new))
      BY <2>9 DEF ApplicationNotVisible, x
    <3>2. ~Current(app)'
      BY <1>1, <1>3, <3>1
    <3>3. Concluded(w.new) \in Addon /\ Concluded(w.new).phaseSel = w.new.phaseSel
      BY <1>3, ConcludedFields
    <3>4. w.new.phaseSel = a.phaseSel
      BY <2>6, <3>1 DEF AddonGoesOn
    <3>5. QED BY <1>6, <2>2, <3>1, <3>2, <3>3, <3>4
  <2>10. CASE ApplicationUpToDate
    <3> DEFINE m == Concluded(Translated(w.new, x))
    <3>1. /\ w.pc = "application" /\ x.life # "absent" /\ x.spec = w.new.hash
          /\ AddonGoesOn("status", m)
      BY <2>10 DEF ApplicationUpToDate, x
    <3>2. w.new.phaseSel = a.phaseSel /\ w.new.hash = Due(w.new.phaseSel)
      BY <2>6, <3>1 DEF AddonGoesOn
    <3>3. Tells(m, x) /\ m.phaseSel = w.new.phaseSel
      BY <1>3, <3>1, <3>2, ConclusionTells
    <3>4. m \in Addon
      BY <1>3, TranslatedFields, ConcludedFields
    <3> HIDE DEF m
    <3>5. QED BY <1>6, <2>2, <3>1, <3>2, <3>3, <3>4
  <2>11. CASE UpdateApplication
    <3> DEFINE n == [w.new EXCEPT !.conds = SetDegraded("ApplicationFailed")]
    <3>1. /\ w.pc = "application"
          /\ \/ /\ Current(app) /\ app' = Append(app, UpdatedApp)
                /\ AddonGoesOn("status", Concluded(Translated(w.new, UpdatedApp)))
             \/ ~Current(app) /\ AddonGoesOn("status", n)
      BY <2>11 DEF UpdateApplication
    <3>2. CASE /\ Current(app) /\ app' = Append(app, UpdatedApp)
               /\ AddonGoesOn("status", Concluded(Translated(w.new, UpdatedApp)))
      <4>1. w.new.hash \in Values \union {NoValues}
        BY <1>3 DEF Addon
      <4>2. UpdatedApp \in App
        BY <1>3, <4>1 DEF UpdatedApp, App
      <4>3. ~Current(app')
        BY <1>3, <3>2, <4>2, VersionsAppend
      <4>4. QED BY <1>6, <2>7, <3>1, <3>2, <4>2, <4>3
    <3>3. CASE ~Current(app) /\ AddonGoesOn("status", n)
      <4>1. SetDegraded("ApplicationFailed") \in Conditions
        BY <1>3, ConditionTypes, ReasonTypes DEF Addon
      <4>2. n \in Addon /\ n.phaseSel = w.new.phaseSel
        BY <1>3, <4>1 DEF Addon
      <4>3. w.new.phaseSel = a.phaseSel
        BY <2>6, <3>1, <3>3 DEF AddonGoesOn
      <4> HIDE DEF n
      <4>4. QED BY <1>1, <1>6, <2>2, <3>1, <3>3, <4>2, <4>3
    <3>4. QED BY <3>1, <3>2, <3>3
  <2>12. CASE AddonUpdateStatus
    <3> DEFINE n == StatusAfterApply(w.new)
    <3>1. /\ w.pc = "status" /\ v = AddonIdle /\ ~addonQueue /\ ~w.requeue /\ ~w.new.conds.degraded
          /\ \/ w.new = w.old
             \/ CanWrite(addon) /\ addon' = Written(addon, n)
      <4>1. w.requeue \in BOOLEAN /\ w.new.conds.degraded \in BOOLEAN
        BY <1>3 DEF AddonWorker, Addon, Conditions
      <4>2. QED BY <1>0, <2>12, <4>1 DEF AddonUpdateStatus, AddonReturns, v
    <3>2. v.pc = "idle"
      BY <3>1 DEF AddonIdle
    <3>3. ~Current(addon)' \/ SameStatus(a, w.new)
      <4>1. CASE w.new = w.old
        BY <1>5, <3>1, <4>1 DEF SameStatus
      <4>2. CASE CanWrite(addon) /\ addon' = Written(addon, n)
        <5>1. n \in Addon /\ SameStatus(n, w.new)
          BY <1>0, <1>3, AppliedFields
        <5> HIDE DEF n
        <5>2. CASE n = Stored(addon)
          BY <1>1, <1>3, <5>1, <5>2
        <5>3. CASE n # Stored(addon)
          <6>1. addon' = Append(addon, n)
            BY <4>2, <5>3 DEF Written
          <6>2. ~Current(addon')
            BY <1>3, <4>2, <5>1, <6>1, VersionsAppend
          <6>3. QED BY <6>2
        <5>4. QED BY <5>2, <5>3
      <4>3. QED BY <3>1, <4>1, <4>2
    <3>4. /\ w.new.phaseSel = a.phaseSel /\ w.old = a
          /\ \/ ~Current(app) \/ Blocked(w.new) \/ Unchecked(w.new) \/ Tells(w.new, x)
      BY <1>5, <3>1
    <3>5. ASSUME SameStatus(a, w.new)
          PROVE  /\ Blocked(w.new) => Blocked(a)
                 /\ Unchecked(w.new) => Unchecked(a) /\ faults >= 2
                 /\ Tells(w.new, x) => Tells(a, x)
                 /\ ~a.conds.degraded
      <4>1. Unchecked(w.new) => Unchecked(a) /\ faults >= 2
        BY <3>1, <3>4, <3>5 DEF SameStatus, Unchecked, CheckInv
      <4>2. QED BY <3>1, <3>4, <3>5, <4>1 DEF SameStatus, Blocked, Tells
    <3>6. QED BY <1>1, <1>6, <3>2, <3>3, <3>4, <3>5 DEF Goal
  <2>13. CASE AddonDeleteApp \/ AddonRemoveFinalizer
    <3>1. w.pc \in {"deleteApp", "awaitApp"} /\ ~addonQueue
      BY <1>0, <2>13 DEF AddonDeleteApp, AddonRemoveFinalizer, AddonReturns, AddonGoesOn
    <3>2. QED BY <1>5, <3>1
  <2>14. QED BY <1>7, <2>3, <2>4, <2>5, <2>8, <2>9, <2>10, <2>11, <2>12, <2>13 DEF AddonStep
<1>8. CASE AddonFails \/ Restart
  <2> DEFINE d == [w.new EXCEPT !.conds = SetProgressing("DependencyCheckFailed")]
             u == [w.new EXCEPT !.conds = SetDegraded("ValuesNotResolved")]
             f == [w.new EXCEPT !.conds = SetDegraded("ApplicationFailed")]
  <2>1. ~Restart
    BY DEF Restart
  <2>2. /\ w.pc \in {"values", "application"}
        /\ AddonGoesOn("status", d) \/ AddonGoesOn("status", u) \/ AddonGoesOn("status", f)
    BY <1>8, <2>1 DEF AddonFails, AddonReturns
  <2>3. /\ SetProgressing("DependencyCheckFailed") \in Conditions
        /\ SetDegraded("ValuesNotResolved") \in Conditions
        /\ SetDegraded("ApplicationFailed") \in Conditions
    BY <1>3, ConditionTypes, ReasonTypes DEF Addon
  <2>4. /\ d \in Addon /\ d.phaseSel = w.new.phaseSel /\ Unchecked(d)
        /\ u \in Addon /\ u.phaseSel = w.new.phaseSel /\ u.conds.degraded
        /\ f \in Addon /\ f.phaseSel = w.new.phaseSel /\ f.conds.degraded
    <3>1. ASSUME NEW c \in Conditions
          PROVE  LET k == [w.new EXCEPT !.conds = c]
                 IN  k \in Addon /\ k.phaseSel = w.new.phaseSel /\ k.conds = c
      BY <1>3 DEF Addon
    <3>2. /\ d \in Addon /\ d.phaseSel = w.new.phaseSel
          /\ d.conds = SetProgressing("DependencyCheckFailed")
      BY <2>3, <3>1
    <3>3. /\ u \in Addon /\ u.phaseSel = w.new.phaseSel
          /\ u.conds = SetDegraded("ValuesNotResolved")
      BY <2>3, <3>1
    <3>4. /\ f \in Addon /\ f.phaseSel = w.new.phaseSel
          /\ f.conds = SetDegraded("ApplicationFailed")
      BY <2>3, <3>1
    <3> HIDE DEF d, u, f
    <3>5. QED BY <3>2, <3>3, <3>4 DEF Unchecked, SetProgressing, SetDegraded, Primary
  <2> HIDE DEF d, u, f
  <2>5. PICK n \in {d, u, f} : AddonGoesOn("status", n)
    BY <2>2
  <2>6. v.pc = "status" /\ v.new = n /\ v.old = w.old /\ ~addonQueue
    BY <1>4, <2>4, <2>5
  <2>7. n.phaseSel = w.new.phaseSel /\ (Unchecked(n) \/ n.conds.degraded)
    BY <2>4, <2>5
  <2>8. QED BY <1>5, <1>6, <2>2, <2>6, <2>7
<1>9. CASE UNCHANGED addonWorker /\ (addonQueue => addonQueue')
  BY <1>9, AddonCourseKept
<1>10. CASE Deliver \/ UserStep \/ ArgoStep \/ PhaseEvaluationFails \/ PhaseFails \/ UNCHANGED vars
  <2>1. CASE DeliverAddon \/ DeliverApp \/ EditValues \/ ChangeInputs
    <3>1. UNCHANGED addonWorker
      BY <2>1 DEF DeliverAddon, DeliverApp, EditValues, ChangeInputs, Change
    <3>2. addonQueue => addonQueue'
      BY <2>1 DEF DeliverAddon, DeliverApp, EditValues, ChangeInputs
    <3>3. QED BY <1>9, <3>1, <3>2
  <2>2. CASE ~DeliverAddon /\ ~DeliverApp /\ ~EditValues /\ ~ChangeInputs
    <3>1. UNCHANGED <<addonWorker, addonQueue>>
      BY <1>10, <2>2
      DEF Deliver, DeliverPhase, UserStep, CreatePhase, DeletePhase, DeleteAddon, TogglePause,
          DeleteAppExternally, FlipCriterion, ChangeResource, ChangeVerdict, Change, ArgoStep,
          ArgoRefresh, ArgoFinishDelete, PhaseEvaluationFails, PhaseFails, vars
    <3>2. QED BY <1>9, <3>1
  <2>3. QED BY <2>1, <2>2
<1>11. CASE PhaseStep
  <2>1. UNCHANGED <<addonWorker, addonQueue>>
    BY <1>11 DEF PhaseStep, ReconcilePhase, PhaseEnsureFinalizer, PhaseEvaluate, patchAddonStatus,
                 PhaseUpdateStatus, PhaseUpdateError, clearAddonStatus, PhaseRemoveFinalizer,
                 PhaseElse
  <2>2. QED BY <1>9, <2>1
<1>12. QED BY <1>7, <1>8, <1>10, <1>11 DEF Next, Fault

-----------------------------------------------------------------------------
(* All at rest. *)

\* An Addon at rest that is not blocked tells of its Application.
LEMMA AddonSettled ==
    ASSUME TypeInv, AddonOnCourse, Quiescent, Stored(addon).life = "live", ~Stored(addon).paused
    PROVE  \/ Blocked(Stored(addon)) \/ (Unchecked(Stored(addon)) /\ faults >= 2)
           \/ Tells(Stored(addon), Stored(app)) /\ ~Stored(addon).conds.degraded
BY StateTypes DEF TypeInv, Quiescent, AddonOnCourse

\* Rules that another evaluation would leave as they are match what their criteria
\* say now, and those of an Addon that speaks of them are marked Deployed.
LEMMA FixedRules ==
    ASSUME NEW p \in Phase, NEW a \in Addon, p.rules = Evaluated(p, a)
    PROVE  /\ \A r \in Rules :
                 p.rules[r].matched = evaluateRule(r, Satisfied(a), p.rules[r].latched)
           /\ SpeaksOf(a, ActiveSelectors(p.rules)) =>
                 \A r \in ActiveSelectors(p.rules) : p.rules[r].deployed
<1> DEFINE e == EvaluateRules(p.rules, Satisfied(a))
           b(r) == e[r].deployed \/ (e[r].matched /\ SpeaksOf(a, ActiveSelectors(e)))
<1>1. p.rules \in [Rules -> RuleStatus]
  BY DEF Phase
<1>2. \A r \in Rules : /\ e[r] \in RuleStatus
                       /\ e[r].matched = evaluateRule(r, Satisfied(a), p.rules[r].latched)
  BY <1>1 DEF EvaluateRules, RuleStatus, evaluateRule, hasKeepableCriteria
<1>3. \A r \in Rules : p.rules[r] = [e[r] EXCEPT !.deployed = b(r)]
  BY DEF Evaluated, latchDeployedRules
<1> HIDE DEF e
<1>4. \A r \in Rules : b(r) \in BOOLEAN
  OBVIOUS
<1>5. \A r \in Rules : p.rules[r].matched = e[r].matched
  <2> HIDE DEF b
  <2>1. QED BY <1>2, <1>3, <1>4 DEF RuleStatus
<1>6. \A r \in Rules : p.rules[r].deployed = b(r)
  <2> HIDE DEF b
  <2>1. QED BY <1>2, <1>3, <1>4 DEF RuleStatus
<1>7. ActiveSelectors(e) = ActiveSelectors(p.rules)
  BY <1>5 DEF ActiveSelectors
<1>8. ASSUME NEW r \in ActiveSelectors(p.rules), SpeaksOf(a, ActiveSelectors(p.rules))
      PROVE  p.rules[r].deployed
  <2>1. r \in Rules /\ p.rules[r].matched
    BY DEF ActiveSelectors
  <2>2. b(r)
    BY <1>5, <1>7, <1>8, <2>1
  <2>3. QED BY <1>6, <2>1, <2>2
<1>9. QED BY <1>2, <1>5, <1>8

\* When the operator has come to rest, no event was lost: the Addon's selectors,
\* the phase's rules, the Application's values and the Ready condition are what
\* both controllers would compute now.  This holds whatever users and Argo CD did,
\* in whichever order the reconciles, the writes and the informers' deliveries
\* came, and whichever calls failed, but for an Addon that waits for an object
\* nobody watches or whose dependency check failed twice (the watches of
\* SetupWithManager, the requeues of both Reconcile).
THEOREM RestConsistently == Spec => []RestIsConsistent
<1>1. ASSUME TypeInv, CheckInv, PhaseOnCourse, AddonOnCourse PROVE RestIsConsistent
  <2> SUFFICES ASSUME Quiescent, Stored(addon).life = "live", ~Stored(addon).paused
               PROVE  RestIsConsistent
    BY DEF RestIsConsistent
  <2> DEFINE a == Stored(addon)
             p == Stored(phase)
             x == Stored(app)
  <2>1. /\ TypeOK /\ a \in Addon /\ p \in Phase /\ x \in App
        /\ Cached(addon) = a /\ Cached(phase) = p /\ Cached(app) = x
    BY <1>1, StateTypes DEF TypeInv, Quiescent
  <2>2. Blocked(a) \/ (Unchecked(a) /\ faults >= 2) \/ (Tells(a, x) /\ ~a.conds.degraded)
    BY <1>1, AddonSettled
  <2>3. p.life = "live" => p.rules = Evaluated(p, a) /\ a.phaseSel = ActiveSelectors(p.rules)
    BY <1>1, <2>1 DEF PhaseOnCourse, Quiescent
  <2>4. a.conds.ready => a.observed = a.phaseSel /\ a.synced /\ a.healthy
    BY <2>2 DEF Blocked, Unchecked, Tells
  <2>5. x.life = "absent" \/ (x.life = "live" /\ Compared = x)
    BY <1>1 DEF Quiescent
  <2> HIDE DEF a, p, x
  <2>6. ASSUME p.life = "live"
        PROVE  /\ a.phaseSel = ActiveSelectors(p.rules)
               /\ \A r \in Rules :
                     p.rules[r].matched = evaluateRule(r, Satisfied(a), p.rules[r].latched)
               /\ a.conds.ready => \A r \in a.phaseSel : p.rules[r].deployed
    <3>1. p.rules = Evaluated(p, a) /\ a.phaseSel = ActiveSelectors(p.rules)
      BY <2>3, <2>6
    <3>2. /\ \A r \in Rules :
                p.rules[r].matched = evaluateRule(r, Satisfied(a), p.rules[r].latched)
          /\ SpeaksOf(a, ActiveSelectors(p.rules)) =>
                \A r \in ActiveSelectors(p.rules) : p.rules[r].deployed
      BY <2>1, <3>1, FixedRules
    <3>3. ASSUME a.conds.ready, NEW r \in a.phaseSel PROVE p.rules[r].deployed
      <4>1. SpeaksOf(a, ActiveSelectors(p.rules))
        BY <2>4, <3>1, <3>3 DEF SpeaksOf
      <4>2. QED BY <3>1, <3>2, <3>3, <4>1
    <3>4. QED BY <3>1, <3>2, <3>3
  <2>7. ASSUME inputs = "ok", ~MayBeStale(a)
        PROVE  /\ x.life = "live" /\ x.spec = [sel |-> a.phaseSel, ver |-> version]
               /\ a.hash = x.spec
               /\ a.conds.ready = (argo.sync /\ argo.health)
    <3>1. Tells(a, x) /\ ~a.conds.degraded
      BY <2>2, <2>7 DEF Blocked, Unchecked, MayBeStale
    <3>2. x.life = "live" /\ x.spec = a.hash /\ a.hash = [sel |-> a.phaseSel, ver |-> version]
      BY <2>5, <3>1 DEF Tells, Due
    <3>3. a.conds.ready \in BOOLEAN /\ argo.sync \in BOOLEAN /\ argo.health \in BOOLEAN
      BY <2>1 DEF Addon, Conditions, TypeOK, Verdicts
    <3>4. x.compared = x.spec /\ x.sync = argo.sync /\ x.health = argo.health
      <4>1. x = [x EXCEPT !.compared = x.spec, !.sync = argo.sync, !.health = argo.health]
        BY <2>5, <3>2 DEF Compared, x
      <4>2. x.spec \in Values \union {NoValues}
        BY <2>1 DEF App
      <4>3. QED BY <2>1, <3>3, <4>1, <4>2 DEF App
    <3>5. x.spec # NoValues
      <4>1. x.spec.ver = version /\ version \in 1..MaxVersion
        BY <2>1, <3>2 DEF TypeOK
      <4>2. NoValues.ver = 0
        BY DEF NoValues
      <4>3. version # 0
        BY <4>1, ConstantsAssumption
      <4>4. QED BY <4>1, <4>2, <4>3
    <3>6. a.conds.ready <=> (argo.sync /\ argo.health)
      BY <3>1, <3>4, <3>5 DEF Tells
    <3>7. QED BY <3>2, <3>3, <3>6
  <2>8. QED BY <2>6, <2>7 DEF RestIsConsistent, a, p, x
<1>2. TypeInv => TypeOK
  BY DEF TypeInv
<1>3. QED
  BY <1>1, <1>2, TypeInit, TypeStep, PhaseCourseInit, PhaseCourseStep, AddonCourseInit,
     AddonCourseStep, CheckInit, CheckStep, PTL DEF Spec

=============================================================================
