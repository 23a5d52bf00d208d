---------------------------- MODULE RolloutProofs ----------------------------
(***************************************************************************)
(* Proofs about Rollout, for any Addons, dependencies, selectors, values   *)
(* and criteria: where criteria are evaluated as they are documented, type *)
(* correctness, that no Addon gets ahead of its dependencies, and that     *)
(* every Addon at rest waits for one or runs with the values it should     *)
(* have.                                                                   *)
(***************************************************************************)
EXTENDS Rollout, ObjectVersionsProofs, HelmValuesProofs

-----------------------------------------------------------------------------
(* Criteria. *)

\* The equality of pkg/criteria, of Go values or else of numbers (deepEqual), is
\* the one that is meant.
LEMMA EqualityExact ==
    ASSUME NEW v, NEW e, IsJson(v), IsJson(e)
    PROVE  deepEqual(v, e) <=> Same(v, e)
<1>1. v.num \in Nat \union {-1} /\ e.num \in Nat \union {-1}
  BY DEF IsJson, NotNumeric
<1>2. {v.num} \cap {e.num} \cap Nat # {} <=> v.num = e.num /\ v.num \in Nat
  OBVIOUS
<1>3. deepEqual(v, e) <=> v = e \/ (v.num # -1 /\ e.num # -1 /\ v.num = e.num)
  BY DEF deepEqual, IsNumeric, NotNumeric
<1>4. QED BY <1>1, <1>2, <1>3 DEF Same

\* Null and a value that is left out are known by their types.
LEMMA NullTypes ==
    ASSUME NEW v, IsJson(v)
    PROVE  /\ (v = JsonNull) <=> (v.t = "null")
           /\ (v = Missing) <=> (v.t = "missing")
<1>1. JsonNull.t = "null" /\ Missing.t = "missing"
  BY DEF JsonNull, Missing
<1>2. QED BY <1>1 DEF IsJson

\* For every operator, value found and expected value, of whatever types, the
\* dependency checker takes a criterion for satisfied exactly if it is fulfilled by
\* the documented meaning, but for the contested cases, in all of which it decides
\* the other way: a path that is not there satisfies no operator, and a null does
\* not exist.  Everywhere else the negating operators turn no error into a success,
\* texts that denote numbers compare as numbers on both sides, and a value that is
\* left out is a null (evaluateCriterion, compareValues and the operators of
\* pkg/criteria).
THEOREM CriteriaExact ==
    ASSUME NEW object, NEW c, WellFormed(c),
           \A p \in DOMAIN object : IsJson(object[p]) /\ object[p].t # "missing"
    PROVE  evaluateCriterion(object, c) = "true" <=>
               IF Contested(object, c) THEN ~Fulfilled(object, c) ELSE Fulfilled(object, c)
<1> DEFINE v == object[c.path]
<1>1. CASE c.path \notin DOMAIN object
  BY <1>1 DEF evaluateCriterion, Fulfilled, Contested
<1>2. CASE c.path \in DOMAIN object
  <2>0. /\ Fulfilled(object, c) <=> Related(v, c.operator, c.value)
        /\ Contested(object, c) <=> v.t = "null" /\ c.operator \in {"Exists", "NotExists"}
    BY <1>2 DEF Fulfilled, Contested
  <2>1. IsJson(v) /\ v.t # "missing" /\ IsJson(c.value)
    BY <1>2 DEF WellFormed
  <2>2. /\ evaluateCriterion(object, c) = compareValues(v, c.operator, c.value)
        /\ IsJson(JsonNull) /\ IsJson(Given(c.value))
    BY <1>2, <2>1 DEF evaluateCriterion, Given, IsJson, JsonNull, NotNumeric, Missing
  <2>3. /\ EvalEqual(v, c.value) \in {"true", "false"}
        /\ EvalEqual(v, c.value) = "true" <=> Same(v, Given(c.value))
    <3>1. c.value = Missing <=> c.value.t = "missing"
      BY <2>1, NullTypes
    <3>2. deepEqual(v, JsonNull) <=> v = JsonNull
      BY DEF deepEqual, IsNumeric, JsonNull
    <3>3. deepEqual(v, Given(c.value)) <=> Same(v, Given(c.value))
      BY <2>1, <2>2, EqualityExact
    <3>4. QED BY <3>1, <3>2, <3>3 DEF EvalEqual, Given, Outcome
  <2>4. /\ EvalIn(v, c.value) \in {"true", "false", "error"}
        /\ EvalIn(v, c.value) = "true" <=> \E i \in c.value.items : Same(v, i)
        /\ EvalIn(v, c.value) = "false" <=>
               Given(c.value).t \in {"list", "null"} /\ \A i \in c.value.items : ~Same(v, i)
    <3>1. \A i \in c.value.items : deepEqual(v, i) <=> Same(v, i)
      BY <2>1, EqualityExact DEF WellFormed
    <3>2. c.value.t # "list" => c.value.items = {}
      BY <2>1 DEF IsJson
    <3>3. Given(c.value).t \in {"list", "null"} <=> c.value.t \in {"list", "null", "missing"}
      BY DEF Given, JsonNull
    <3>4. QED BY <3>1, <3>2, <3>3 DEF EvalIn, Outcome
  <2>5. (v = JsonNull) <=> (v.t = "null")
    BY <2>1, NullTypes
  <2>6. /\ v.num \in Nat \union {-1} /\ c.value.num \in Nat \union {-1}
        /\ IsNumeric(v) <=> v.num \in Nat
        /\ IsNumeric(c.value) <=> c.value.num \in Nat
    BY <2>1 DEF IsJson, IsNumeric, NotNumeric
  <2>7. EvalMatches(v, c.value) = "true" <=>
            v.t = "string" /\ c.value.id \notin BadPatterns /\ v.id \in Regex[c.value.id]
    BY DEF EvalMatches, Outcome
  <2>8. CASE c.operator \in {"Equal", "NotEqual"}
    BY <2>0, <2>2, <2>3, <2>8 DEF compareValues, Related, Negated
  <2>9. CASE c.operator \in {"In", "NotIn"}
    BY <2>0, <2>2, <2>4, <2>9 DEF compareValues, Related, Negated
  <2>10. CASE c.operator \in {"Exists", "NotExists"}
    BY <2>0, <2>2, <2>5, <2>10 DEF compareValues, Related, Outcome
  <2>11. CASE c.operator = "Matches"
    BY <2>0, <2>2, <2>7, <2>11 DEF compareValues, Related
  <2>12. CASE c.operator \in {"GreaterThan", "GreaterOrEqual", "LessThan", "LessOrEqual"}
    <3> DEFINE n == v.num
               e == c.value.num
               numbers == n \in Nat /\ e \in Nat
    <3>1. CASE c.operator = "GreaterThan"
      <4>1. compareValues(v, c.operator, c.value) = "true" <=> numbers /\ n > e
        BY <2>6, <3>1 DEF compareValues, EvalNumeric, Outcome
      <4>2. Fulfilled(object, c) <=> numbers /\ n > e
        BY <2>0, <3>1 DEF Related
      <4>3. QED BY <2>0, <2>2, <3>1, <4>1, <4>2
    <3>2. CASE c.operator = "GreaterOrEqual"
      <4>1. compareValues(v, c.operator, c.value) = "true" <=> numbers /\ n >= e
        BY <2>6, <3>2 DEF compareValues, EvalNumeric, Outcome
      <4>2. Fulfilled(object, c) <=> numbers /\ ~(n < e)
        BY <2>0, <3>2 DEF Related
      <4> HIDE DEF n, e
      <4>3. numbers => ((n >= e) <=> ~(n < e))
        OBVIOUS
      <4>4. QED BY <2>0, <2>2, <3>2, <4>1, <4>2, <4>3
    <3>3. CASE c.operator = "LessThan"
      <4>1. compareValues(v, c.operator, c.value) = "true" <=> numbers /\ n < e
        BY <2>6, <3>3 DEF compareValues, EvalNumeric, Outcome
      <4>2. Fulfilled(object, c) <=> numbers /\ n < e
        BY <2>0, <3>3 DEF Related
      <4>3. QED BY <2>0, <2>2, <3>3, <4>1, <4>2
    <3>4. CASE c.operator = "LessOrEqual"
      <4>1. compareValues(v, c.operator, c.value) = "true" <=> numbers /\ n <= e
        BY <2>6, <3>4 DEF compareValues, EvalNumeric, Outcome
      <4>2. Fulfilled(object, c) <=> numbers /\ ~(n > e)
        BY <2>0, <3>4 DEF Related
      <4> HIDE DEF n, e
      <4>3. numbers => ((n <= e) <=> ~(n > e))
        OBVIOUS
      <4>4. QED BY <2>0, <2>2, <3>4, <4>1, <4>2, <4>3
    <3>5. QED BY <2>12, <3>1, <3>2, <3>3, <3>4
  <2>13. QED BY <2>8, <2>9, <2>10, <2>11, <2>12 DEF WellFormed, Operators
<1>3. QED BY <1>1, <1>2

-----------------------------------------------------------------------------
(* Objects. *)

IsAddon(a, o) ==
    o \in [life : {"absent", "live"}, phaseSel : {<<>>, PhaseSelectors[a]}, hash : {o.hash},
           good : BOOLEAN, deployed : BOOLEAN, conds : Conditions]

IsApp(x) ==
    /\ x \in [life : {"absent", "live"}, spec : {x.spec}, good : BOOLEAN]
    /\ x.life = "live" => x.spec.known

LEMMA RolloutReasons ==
    /\ "FullyReconciled" \in Reasons /\ "DependenciesNotMet" \in Reasons
    /\ "ValuesNotResolved" \in Reasons /\ "WaitingForStableValues" \in Reasons
    /\ "ApplicationFailed" \in Reasons /\ "NotSynced" \in Reasons
BY DEF Reasons

LEMMA NewObjects ==
    /\ \A a \in Addons, l \in {"absent", "live"} :
          IsAddon(a, NewAddon(l)) /\ NewAddon(l).life = l
    /\ IsApp(NoApp) /\ NoApp.life = "absent"
    /\ \A m : m.known => IsApp(NewApp(m)) /\ NewApp(m).life = "live"
<1>1. NoConditions \in Conditions
  BY DEF NoConditions, Primary, Conditions, Reasons
<1>2. QED BY <1>1 DEF IsAddon, IsApp, NewAddon, NoApp, NewApp

\* What the phase controller and the reconcile change of an Addon.
LEMMA SelectorsWrite ==
    ASSUME NEW a \in Addons, NEW o, IsAddon(a, o), NEW s \in {<<>>, PhaseSelectors[a]}
    PROVE  IsAddon(a, [o EXCEPT !.phaseSel = s]) /\ [o EXCEPT !.phaseSel = s].life = o.life
BY DEF IsAddon

LEMMA ConditionsWrite ==
    ASSUME NEW a \in Addons, NEW o, IsAddon(a, o), NEW c \in Conditions
    PROVE  /\ IsAddon(a, [o EXCEPT !.conds = c]) /\ [o EXCEPT !.conds = c].life = o.life
           /\ IsAddon(a, [o EXCEPT !.conds = c, !.deployed = TRUE])
           /\ [o EXCEPT !.conds = c, !.deployed = TRUE].life = o.life
BY DEF IsAddon

LEMMA HashWrite ==
    ASSUME NEW a \in Addons, NEW o, IsAddon(a, o), NEW m
    PROVE  /\ IsAddon(a, [o EXCEPT !.hash = m])
           /\ [o EXCEPT !.hash = m].life = o.life /\ [o EXCEPT !.hash = m].hash = m
BY DEF IsAddon

LEMMA GoodWrite ==
    ASSUME NEW a \in Addons, NEW o, IsAddon(a, o), NEW g \in BOOLEAN
    PROVE  IsAddon(a, [o EXCEPT !.good = g]) /\ [o EXCEPT !.good = g].life = o.life
BY DEF IsAddon

LEMMA ConcludedTypes ==
    ASSUME NEW a \in Addons, NEW o, IsAddon(a, o)
    PROVE  IsAddon(a, Concluded(o)) /\ Concluded(o).life = o.life
<1>1. SetReady("FullyReconciled") \in Conditions /\ SetProgressing("NotSynced") \in Conditions
  BY RolloutReasons, ConditionTypes DEF IsAddon
<1> DEFINE ready == [o EXCEPT !.conds = SetReady("FullyReconciled"), !.deployed = TRUE]
           waits == [o EXCEPT !.conds = SetProgressing("NotSynced")]
<1>2. IsAddon(a, ready) /\ ready.life = o.life
  BY <1>1, ConditionsWrite
<1>3. IsAddon(a, waits) /\ waits.life = o.life
  BY <1>1, ConditionsWrite
<1>4. Concluded(o) \in {ready, waits, o}
  BY DEF Concluded
<1> HIDE DEF ready, waits
<1>5. QED BY <1>2, <1>3, <1>4


-----------------------------------------------------------------------------
(* Type correctness. *)

\* Every version of an object is one, and what is live stays so.
AddonHistory(a, h) ==
    /\ h \in Versions(Copies(h)) /\ Absorbing(h, {"live"})
    /\ \A o \in Copies(h) : IsAddon(a, o)

AppHistory(h) ==
    /\ h \in Versions(Copies(h)) /\ Absorbing(h, {"live"})
    /\ \A x \in Copies(h) : IsApp(x)

WorkerInv(a, w, h) ==
    /\ w \in [pc : {"idle", "apply", "status"}, old : {w.old}, new : {w.new}, requeue : BOOLEAN]
    /\ w.pc # "idle" => Stored(h).life = "live" /\ IsAddon(a, w.new) /\ w.new.life = "live"
    /\ w.pc = "apply" => w.new.hash.known

\* TypeOK speaks of the stored objects.  Reconciles start from cached ones and
\* write what they made of them later: so every version has its type, what a
\* worker is about to write has it too, and a worker that was started for a live
\* Addon finds a live one.
TypeInv ==
    /\ DOMAIN addon = Addons /\ DOMAIN app = Addons /\ DOMAIN worker = Addons
    /\ \A a \in Addons : AddonHistory(a, addon[a])
    /\ \A a \in Addons : AppHistory(app[a])
    /\ \A a \in Addons : WorkerInv(a, worker[a], addon[a])
    /\ store \in Versions(Copies(store))
    /\ scenario \in Scenarios /\ queue \subseteq Addons
    /\ changes \in 0..scenario.changes /\ fulfilled \subseteq Addons

\* A history is one of its own versions, whatever they are.
LEMMA OwnVersions ==
    ASSUME NEW S, NEW h \in Versions(S)
    PROVE  h \in Versions(Copies(h))
<1>1. h \in Seq(S) /\ Len(h) \in 1..(MaxLag + 1)
  BY DEF Versions
<1>2. Len(h) \in Nat /\ h \in [1..Len(h) -> S]
  BY <1>1, LenProperties
<1>3. h \in [1..Len(h) -> Copies(h)]
  BY <1>2 DEF Copies
<1>4. h \in Seq(Copies(h))
  BY <1>2, <1>3, SeqDef, Zenon
<1>5. QED BY <1>1, <1>4 DEF Versions

\* The versions that a history has after a write or a delivery.
LEMMA HistoryAppend ==
    ASSUME NEW h, h \in Versions(Copies(h)), NEW o, CanWrite(h) \/ Current(h)
    PROVE  /\ Append(h, o) \in Versions(Copies(Append(h, o)))
           /\ Copies(Append(h, o)) = Copies(h) \union {o}
           /\ Stored(Append(h, o)) = o
           /\ Absorbing(h, {"live"}) /\ (Stored(h).life = "live" => o.life = "live")
                  => Absorbing(Append(h, o), {"live"})
<1> DEFINE S == Copies(h) \union {o}
<1>1. h \in Versions(S) /\ o \in S
  BY DEF Versions
<1> HIDE DEF S
<1>2. /\ Append(h, o) \in Versions(S) /\ Stored(Append(h, o)) = o
      /\ Copies(Append(h, o)) = Copies(h) \union {o}
  BY <1>1, VersionsAppend
<1>3. S = Copies(Append(h, o))
  BY <1>2 DEF S
<1>4. Absorbing(h, {"live"}) /\ (Stored(h).life = "live" => o.life = "live")
          => Absorbing(Append(h, o), {"live"})
  BY <1>1, AbsorbingSteps
<1>5. QED BY <1>2, <1>3, <1>4

LEMMA HistoryTail ==
    ASSUME NEW h, h \in Versions(Copies(h)), ~Current(h)
    PROVE  /\ Tail(h) \in Versions(Copies(Tail(h)))
           /\ Copies(Tail(h)) \subseteq Copies(h)
           /\ Stored(Tail(h)) = Stored(h)
           /\ Absorbing(h, {"live"}) => Absorbing(Tail(h), {"live"})
<1>1. /\ Tail(h) \in Versions(Copies(h)) /\ Stored(Tail(h)) = Stored(h)
      /\ Copies(Tail(h)) \subseteq Copies(h)
  BY VersionsTail
<1>2. Tail(h) \in Versions(Copies(Tail(h)))
  BY <1>1, OwnVersions
<1>3. Absorbing(h, {"live"}) => Absorbing(Tail(h), {"live"})
  BY AbsorbingSteps
<1>4. QED BY <1>1, <1>2, <1>3

LEMMA HistoryOne ==
    ASSUME NEW o
    PROVE  /\ <<o>> \in Versions(Copies(<<o>>)) /\ Copies(<<o>>) = {o}
           /\ Stored(<<o>>) = o /\ Cached(<<o>>) = o /\ Absorbing(<<o>>, {"live"})
<1>1. /\ <<o>> \in Versions({o}) /\ Copies(<<o>>) = {o}
      /\ Stored(<<o>>) = o /\ Cached(<<o>>) = o
  BY VersionsOne
<1>2. Absorbing(<<o>>, {"live"})
  <2>1. \A i, j \in 1..Len(<<o>>) : i = j
    OBVIOUS
  <2>2. QED BY <2>1 DEF Absorbing
<1>3. QED BY <1>1, <1>2


\* What a step makes of the versions of an Addon and of an Application: at most
\* one new one, and none that has been live is not.
Moved(h, k) ==
    /\ Copies(k) \subseteq Copies(h) \union {Stored(k)}
    /\ Stored(h).life = "live" => Stored(k).life = "live"

LEMMA AddonAppended ==
    ASSUME NEW a \in Addons, NEW h, AddonHistory(a, h), NEW o, IsAddon(a, o),
           CanWrite(h), Stored(h).life = "live" => o.life = "live"
    PROVE  AddonHistory(a, Append(h, o)) /\ Moved(h, Append(h, o))
<1>1. h \in Versions(Copies(h)) /\ Absorbing(h, {"live"})
  BY DEF AddonHistory
<1>2. /\ Append(h, o) \in Versions(Copies(Append(h, o))) /\ Absorbing(Append(h, o), {"live"})
      /\ Copies(Append(h, o)) = Copies(h) \union {o} /\ Stored(Append(h, o)) = o
  BY <1>1, HistoryAppend
<1>3. QED BY <1>2 DEF AddonHistory, Moved

LEMMA AppAppended ==
    ASSUME NEW h, AppHistory(h), NEW x, IsApp(x),
           CanWrite(h) \/ Current(h), x.life = "live"
    PROVE  AppHistory(Append(h, x)) /\ Moved(h, Append(h, x)) /\ Stored(Append(h, x)) = x
<1>1. h \in Versions(Copies(h)) /\ Absorbing(h, {"live"})
  BY DEF AppHistory
<1>2. /\ Append(h, x) \in Versions(Copies(Append(h, x))) /\ Absorbing(Append(h, x), {"live"})
      /\ Copies(Append(h, x)) = Copies(h) \union {x} /\ Stored(Append(h, x)) = x
  BY <1>1, HistoryAppend
<1>3. QED BY <1>2 DEF AppHistory, Moved

LEMMA StoredAndCached ==
    ASSUME TypeInv, NEW a \in Addons
    PROVE  /\ AddonHistory(a, addon[a]) /\ AppHistory(app[a])
           /\ Stored(addon[a]) \in Copies(addon[a]) /\ Cached(addon[a]) \in Copies(addon[a])
           /\ IsAddon(a, Stored(addon[a])) /\ IsAddon(a, Cached(addon[a]))
           /\ IsApp(Stored(app[a])) /\ IsApp(Cached(app[a]))
           /\ Cached(addon[a]).life = "live" => Stored(addon[a]).life = "live"
           /\ Cached(app[a]).life = "live" => Stored(app[a]).life = "live"
           /\ \A o \in Copies(addon[a]) : o.life = "live" => Stored(addon[a]).life = "live"
<1>1. AddonHistory(a, addon[a]) /\ AppHistory(app[a])
  BY DEF TypeInv
<1>2. addon[a] \in Versions(Copies(addon[a])) /\ app[a] \in Versions(Copies(app[a]))
  BY <1>1 DEF AddonHistory, AppHistory
<1>3. /\ Stored(addon[a]) \in Copies(addon[a]) /\ Cached(addon[a]) \in Copies(addon[a])
      /\ Stored(app[a]) \in Copies(app[a]) /\ Cached(app[a]) \in Copies(app[a])
      /\ Len(addon[a]) \in Nat /\ Len(addon[a]) >= 1
  BY <1>2, VersionsEnds
<1>4. /\ Cached(addon[a]).life = "live" => Stored(addon[a]).life = "live"
      /\ Cached(app[a]).life = "live" => Stored(app[a]).life = "live"
  <2>1. Absorbing(addon[a], {"live"}) /\ Absorbing(app[a], {"live"})
    BY <1>1 DEF AddonHistory, AppHistory
  <2>2. Cached(addon[a]).life \in {"live"} => Stored(addon[a]).life \in {"live"}
    BY <1>2, <2>1, AbsorbingSteps
  <2>3. Cached(app[a]).life \in {"live"} => Stored(app[a]).life \in {"live"}
    BY <1>2, <2>1, AbsorbingSteps
  <2>4. QED BY <2>2, <2>3
<1>5. ASSUME NEW o \in Copies(addon[a]), o.life = "live"
      PROVE  Stored(addon[a]).life = "live"
  <2> DEFINE h == addon[a]
             l == Len(h)
  <2>1. PICK i \in 1..l : o = h[i]
    BY DEF Copies
  <2>2. l \in Nat /\ l >= 1 /\ Absorbing(h, {"live"}) /\ Stored(h) = h[l]
    BY <1>1, <1>3 DEF AddonHistory, Stored
  <2>3. \A j \in 1..l : i <= j /\ h[i].life \in {"live"} => h[j].life \in {"live"}
    BY <2>2 DEF Absorbing
  <2> HIDE DEF h, l
  <2>4. l \in 1..l /\ i <= l
    BY <2>2
  <2>5. QED BY <1>5, <2>1, <2>2, <2>3, <2>4 DEF h
<1>6. QED BY <1>1, <1>3, <1>4, <1>5 DEF AddonHistory, AppHistory

LEMMA AddonSteps ==
    ASSUME TypeInv, Step
    PROVE  /\ DOMAIN addon' = Addons
           /\ \A b \in Addons : AddonHistory(b, addon'[b]) /\ Moved(addon[b], addon'[b])
<1> DEFINE Done(b) == AddonHistory(b, addon'[b]) /\ Moved(addon[b], addon'[b])
           All == DOMAIN addon' = Addons /\ \A b \in Addons : Done(b)
<1>1. DOMAIN addon = Addons /\ \A b \in Addons : AddonHistory(b, addon[b])
  BY DEF TypeInv
<1>2. ASSUME UNCHANGED addon PROVE All
  BY <1>1, <1>2 DEF Moved
<1>3. ASSUME NEW a \in Addons, NEW h, addon' = [addon EXCEPT ![a] = h],
             AddonHistory(a, h), Moved(addon[a], h)
      PROVE  All
  BY <1>1, <1>3 DEF Moved
<1>4. ASSUME NEW a \in Addons, CreateAddon(a) PROVE All
  <2>1. IsAddon(a, NewAddon("live")) /\ NewAddon("live").life = "live"
    BY NewObjects
  <2>2. /\ AddonHistory(a, Append(addon[a], NewAddon("live")))
        /\ Moved(addon[a], Append(addon[a], NewAddon("live")))
    BY <1>1, <1>4, <2>1, AddonAppended DEF CreateAddon
  <2>3. addon' = [addon EXCEPT ![a] = Append(addon[a], NewAddon("live"))]
    BY <1>4 DEF CreateAddon
  <2> HIDE DEF All
  <2>4. QED BY <1>3, <2>2, <2>3
<1>5. ASSUME NEW a \in Addons, PatchSelectors(a) PROVE All
  <2> DEFINE o == Stored(addon[a])
  <2>1. PICK s \in {<<>>, PhaseSelectors[a]} :
            addon' = [addon EXCEPT ![a] = Append(addon[a], [o EXCEPT !.phaseSel = s])]
    BY <1>5 DEF PatchSelectors
  <2>2. IsAddon(a, o)
    BY StoredAndCached
  <2> DEFINE n == [o EXCEPT !.phaseSel = s]
  <2>3. IsAddon(a, n) /\ n.life = o.life
    BY <2>2, SelectorsWrite
  <2>4. AddonHistory(a, Append(addon[a], n)) /\ Moved(addon[a], Append(addon[a], n))
    <3> HIDE DEF n
    <3>1. QED BY <1>1, <1>5, <2>3, AddonAppended DEF PatchSelectors
  <2> HIDE DEF All
  <2>5. QED BY <1>3, <2>1, <2>4
<1>6. ASSUME NEW a \in Addons, DeliverAddon(a) PROVE All
  <2>1. ~Current(addon[a]) /\ addon' = [addon EXCEPT ![a] = Tail(addon[a])]
    BY <1>6 DEF DeliverAddon
  <2>2. AddonHistory(a, Tail(addon[a])) /\ Moved(addon[a], Tail(addon[a]))
    BY <1>1, <2>1, HistoryTail DEF AddonHistory, Moved
  <2> HIDE DEF All
  <2>3. QED BY <1>3, <2>1, <2>2
<1>7. ASSUME NEW a \in Addons, UpdateStatus(a) PROVE All
  <2> DEFINE w == worker[a]
             n == [w.new EXCEPT !.phaseSel = Stored(addon[a]).phaseSel]
  <2>1. CASE UNCHANGED addon
    BY <1>2, <2>1
  <2>2. CASE CanWrite(addon[a]) /\ addon' = [addon EXCEPT ![a] = Written(addon[a], n)]
    <3>1. IsAddon(a, w.new) /\ w.new.life = "live"
      BY <1>7 DEF TypeInv, WorkerInv, UpdateStatus
    <3>2. Stored(addon[a]).phaseSel \in {<<>>, PhaseSelectors[a]}
      BY StoredAndCached DEF IsAddon
    <3>3. IsAddon(a, n) /\ n.life = "live"
      BY <3>1, <3>2, SelectorsWrite
    <3> HIDE DEF n, All
    <3>4. AddonHistory(a, Append(addon[a], n)) /\ Moved(addon[a], Append(addon[a], n))
      BY <1>1, <2>2, <3>3, AddonAppended
    <3>5. AddonHistory(a, addon[a]) /\ Moved(addon[a], addon[a])
      BY <1>1 DEF Moved
    <3>6. QED BY <1>3, <2>2, <3>4, <3>5 DEF Written
  <2>3. QED BY <1>7, <2>1, <2>2 DEF UpdateStatus
<1>8. ASSUME \E v \in AddonValues : WriteValue(v) \/ RelabelValue(v) \/ RemoveValue(v)
      PROVE  All
  <2>1. UNCHANGED addon
    BY <1>8 DEF WriteValue, RelabelValue, RemoveValue, ChangeStore
  <2>2. QED BY <1>2, <2>1
<1>9. ASSUME NEW a \in Addons, ArgoSyncs(a) \/ Reconcile(a) \/ Apply(a) \/ DeliverApp(a)
      PROVE  All
  <2>1. UNCHANGED addon
    BY <1>9 DEF ArgoSyncs, Reconcile, Apply, DeliverApp
  <2>2. QED BY <1>2, <2>1
<1>10. ASSUME DeliverStore \/ ChangeExternal PROVE All
  <2>1. UNCHANGED addon
    BY <1>10 DEF DeliverStore, ChangeExternal
  <2>2. QED BY <1>2, <2>1
<1> HIDE DEF All
<1>11. All
  BY <1>4, <1>5, <1>6, <1>7, <1>8, <1>9, <1>10 DEF Step, WorkerStep, Deliver
<1>12. QED BY <1>11 DEF All


LEMMA AppSteps ==
    ASSUME TypeInv, Step
    PROVE  /\ DOMAIN app' = Addons
           /\ \A b \in Addons :
                 /\ AppHistory(app'[b]) /\ Moved(app[b], app'[b])
                 /\ Stored(app'[b]).life = "live" =>
                        Stored(app[b]).life = "live" \/ worker[b].pc = "apply"
<1> DEFINE Fits(b, h) == /\ AppHistory(h) /\ Moved(app[b], h)
                         /\ Stored(h).life = "live" =>
                                Stored(app[b]).life = "live" \/ worker[b].pc = "apply"
           All == DOMAIN app' = Addons /\ \A b \in Addons : Fits(b, app'[b])
<1>1. DOMAIN app = Addons /\ \A b \in Addons : AppHistory(app[b])
  BY DEF TypeInv
<1>2. ASSUME UNCHANGED app PROVE All
  BY <1>1, <1>2 DEF Moved
<1>3. ASSUME NEW a \in Addons, NEW h, app' = [app EXCEPT ![a] = h], Fits(a, h)
      PROVE  All
  <2>1. \A b \in Addons : b # a => app'[b] = app[b] /\ Moved(app[b], app[b])
    BY <1>1, <1>3 DEF Moved
  <2>2. app'[a] = h /\ DOMAIN app' = Addons
    BY <1>1, <1>3
  <2>3. QED BY <1>1, <1>3, <2>1, <2>2
<1>4. ASSUME NEW a \in Addons, ArgoSyncs(a) PROVE All
  <2> DEFINE x == Stored(app[a])
             y == [x EXCEPT !.good = TRUE]
  <2>1. x.life = "live" /\ CanWrite(app[a]) /\ app' = [app EXCEPT ![a] = Append(app[a], y)]
    BY <1>4 DEF ArgoSyncs
  <2>2. IsApp(y) /\ y.life = "live"
    BY <2>1, StoredAndCached DEF IsApp
  <2> HIDE DEF y
  <2>3. Fits(a, Append(app[a], y))
    BY <1>1, <2>1, <2>2, AppAppended
  <2> HIDE DEF All, Fits
  <2>4. QED BY <1>3, <2>1, <2>3
<1>5. ASSUME NEW a \in Addons, DeliverApp(a) PROVE All
  <2>1. ~Current(app[a]) /\ app' = [app EXCEPT ![a] = Tail(app[a])]
    BY <1>5 DEF DeliverApp
  <2>2. Fits(a, Tail(app[a]))
    BY <1>1, <2>1, HistoryTail DEF AppHistory, Moved
  <2> HIDE DEF All, Fits
  <2>3. QED BY <1>3, <2>1, <2>2
<1>6. ASSUME NEW a \in Addons, Apply(a) PROVE All
  <2> DEFINE x == NewApp(worker[a].new.hash)
  <2>1. CASE UNCHANGED app
    BY <1>2, <2>1
  <2>2. CASE /\ CanWrite(app[a]) \/ Current(app[a])
             /\ app' = [app EXCEPT ![a] = Append(app[a], x)]
    <3>1. worker[a].pc = "apply" /\ worker[a].new.hash.known
      BY <1>6 DEF Apply, TypeInv, WorkerInv
    <3>2. IsApp(x) /\ x.life = "live"
      BY <3>1, NewObjects
    <3> HIDE DEF x
    <3>3. Fits(a, Append(app[a], x))
      BY <1>1, <2>2, <3>1, <3>2, AppAppended
    <3> HIDE DEF All, Fits
    <3>4. QED BY <1>3, <2>2, <3>3
  <2>3. QED BY <1>6, <2>1, <2>2 DEF Apply
<1>7. ASSUME \E v \in AddonValues : WriteValue(v) \/ RelabelValue(v) \/ RemoveValue(v)
      PROVE  All
  <2>1. UNCHANGED app
    BY <1>7 DEF WriteValue, RelabelValue, RemoveValue, ChangeStore, Change
  <2>2. QED BY <1>2, <2>1
<1>8. ASSUME NEW a \in Addons,
             CreateAddon(a) \/ PatchSelectors(a) \/ Reconcile(a) \/ UpdateStatus(a) \/ DeliverAddon(a)
      PROVE  All
  <2>1. UNCHANGED app
    BY <1>8 DEF CreateAddon, PatchSelectors, Change, Reconcile, UpdateStatus, DeliverAddon
  <2>2. QED BY <1>2, <2>1
<1>9. ASSUME DeliverStore \/ ChangeExternal PROVE All
  <2>1. UNCHANGED app
    BY <1>9 DEF DeliverStore, ChangeExternal, Change
  <2>2. QED BY <1>2, <2>1
<1> HIDE DEF All
<1>10. All
  BY <1>4, <1>5, <1>6, <1>7, <1>8, <1>9 DEF Step, WorkerStep, Deliver
<1>11. QED BY <1>10 DEF All

\* A reconcile goes on to the Application only past the gate.
LEMMA WorkerSteps ==
    ASSUME TypeInv, Step
    PROVE  /\ DOMAIN worker' = Addons
           /\ \A b \in Addons :
                 /\ WorkerInv(b, worker'[b], addon'[b])
                 /\ worker'[b].pc = "apply" => worker[b].pc = "apply" \/ CheckDependencies(b)
<1> DEFINE Fits(b, w) == /\ WorkerInv(b, w, addon'[b])
                         /\ w.pc = "apply" => worker[b].pc = "apply" \/ CheckDependencies(b)
           All == DOMAIN worker' = Addons /\ \A b \in Addons : Fits(b, worker'[b])
<1>1. DOMAIN worker = Addons /\ \A b \in Addons : WorkerInv(b, worker[b], addon[b])
  BY DEF TypeInv
<1>2. \A b \in Addons : Stored(addon[b]).life = "live" => Stored(addon'[b]).life = "live"
  BY AddonSteps DEF Moved
<1>3. \A b \in Addons : Fits(b, worker[b])
  BY <1>1, <1>2 DEF WorkerInv
<1>4. ASSUME UNCHANGED worker PROVE All
  BY <1>1, <1>3, <1>4
<1>5. ASSUME NEW a \in Addons, NEW w, worker' = [worker EXCEPT ![a] = w], Fits(a, w)
      PROVE  All
  <2>1. \A b \in Addons : b # a => worker'[b] = worker[b]
    BY <1>1, <1>5
  <2>2. worker'[a] = w /\ DOMAIN worker' = Addons
    BY <1>1, <1>5
  <2> HIDE DEF Fits
  <2>3. QED BY <1>3, <1>5, <2>1, <2>2
<1>6. ASSUME NEW a \in Addons, UpdateStatus(a) PROVE All
  <2>1. Fits(a, Idle)
    BY DEF Idle, WorkerInv
  <2> HIDE DEF All, Fits
  <2>2. QED BY <1>5, <1>6, <2>1 DEF UpdateStatus
<1>7. ASSUME NEW a \in Addons, Reconcile(a) PROVE All
  <2> DEFINE o      == Cached(addon[a])
             n      == [o EXCEPT !.conds = EnsureAllConditions(@)]
             m      == Aggregated(a, o)
             hashed == [n EXCEPT !.hash = m]
             W(pc, new, requeue) == [pc |-> pc, old |-> o, new |-> new, requeue |-> requeue]
             Unmet    == [n EXCEPT !.conds = SetProgressing("DependenciesNotMet")]
             Failed   == [n EXCEPT !.conds = SetDegraded("ValuesNotResolved")]
             Unstable == [hashed EXCEPT !.conds = SetProgressing("WaitingForStableValues")]
  <2>1. IsAddon(a, o) /\ (o.life = "live" => Stored(addon[a]).life = "live")
    BY StoredAndCached
  <2>2. /\ EnsureAllConditions(o.conds) \in Conditions
        /\ SetProgressing("DependenciesNotMet") \in Conditions
        /\ SetDegraded("ValuesNotResolved") \in Conditions
        /\ SetProgressing("WaitingForStableValues") \in Conditions
    BY <2>1, RolloutReasons, ConditionTypes DEF IsAddon
  <2>3. m.known
    BY DEF Aggregated, Known
  <2> HIDE DEF o, m
  <2>4. IsAddon(a, n) /\ n.life = o.life
    BY <2>1, <2>2, ConditionsWrite
  <2> HIDE DEF n
  <2>5. IsAddon(a, hashed) /\ hashed.life = o.life /\ hashed.hash = m
    BY <2>4, HashWrite
  <2> HIDE DEF hashed
  <2>6. IsAddon(a, Unmet) /\ Unmet.life = o.life
    BY <2>2, <2>4, ConditionsWrite
  <2>7. IsAddon(a, Failed) /\ Failed.life = o.life
    BY <2>2, <2>4, ConditionsWrite
  <2>8. IsAddon(a, Unstable) /\ Unstable.life = o.life
    BY <2>2, <2>5, ConditionsWrite
  <2> HIDE DEF Unmet, Failed, Unstable
  <2>9. ASSUME o.life = "live",
               NEW new \in {Unmet, Failed, Unstable}, NEW requeue \in BOOLEAN
        PROVE  Fits(a, W("status", new, requeue))
    BY <1>2, <2>1, <2>6, <2>7, <2>8, <2>9 DEF WorkerInv
  <2>10. ASSUME o.life = "live", CheckDependencies(a)
         PROVE  Fits(a, W("apply", hashed, FALSE))
    BY <1>2, <2>1, <2>3, <2>5, <2>10 DEF WorkerInv
  <2>11. \/ UNCHANGED worker
         \/ o.life = "live" /\ worker' = [worker EXCEPT ![a] = W("status", Unmet, FALSE)]
         \/ o.life = "live" /\ worker' = [worker EXCEPT ![a] = W("status", Failed, FALSE)]
         \/ o.life = "live" /\ worker' = [worker EXCEPT ![a] = W("status", Unstable, TRUE)]
         \/ /\ o.life = "live" /\ CheckDependencies(a)
            /\ worker' = [worker EXCEPT ![a] = W("apply", hashed, FALSE)]
    BY <1>7 DEF Reconcile, o, m, n, hashed, Unmet, Failed, Unstable
  <2> HIDE DEF W, All, Fits
  <2>12. QED BY <1>4, <1>5, <2>9, <2>10, <2>11
<1>8. ASSUME NEW a \in Addons, Apply(a) PROVE All
  <2> DEFINE w == worker[a]
             n == w.new
             x == Cached(app[a])
             W(new) == [w EXCEPT !.pc = "status", !.new = new]
             Failed == [n EXCEPT !.conds = SetDegraded("ApplicationFailed")]
  <2>1. /\ w.pc = "apply" /\ WorkerInv(a, w, addon'[a]) /\ IsAddon(a, n) /\ n.life = "live"
        /\ Stored(addon'[a]).life = "live"
    BY <1>1, <1>2, <1>8 DEF Apply, WorkerInv
  <2>2. x.good \in BOOLEAN
    BY StoredAndCached DEF IsApp
  <2>3. SetDegraded("ApplicationFailed") \in Conditions
    BY <2>1, RolloutReasons, ConditionTypes DEF IsAddon
  <2> HIDE DEF n, x
  <2>4. ASSUME NEW new, IsAddon(a, new), new.life = "live"
        PROVE  Fits(a, W(new))
    BY <2>1, <2>4 DEF WorkerInv
  <2>5. \A g \in BOOLEAN : IsAddon(a, [n EXCEPT !.good = g]) /\ [n EXCEPT !.good = g].life = "live"
    BY <2>1, GoodWrite
  <2>6. \A g \in BOOLEAN : Fits(a, W(Concluded([n EXCEPT !.good = g])))
    <3> TAKE g \in BOOLEAN
    <3> DEFINE p == [n EXCEPT !.good = g]
    <3>1. IsAddon(a, p) /\ p.life = "live"
      BY <2>5
    <3> HIDE DEF p, Fits, W
    <3>2. QED BY <2>4, <3>1, ConcludedTypes DEF p
  <2>7. Fits(a, W(Concluded(n)))
    <3> HIDE DEF Fits, W
    <3>1. QED BY <2>1, <2>4, ConcludedTypes
  <2>8. Fits(a, W(Failed))
    <3>1. IsAddon(a, Failed) /\ Failed.life = "live"
      BY <2>1, <2>3, ConditionsWrite
    <3> HIDE DEF Fits, W, Failed
    <3>2. QED BY <2>4, <3>1
  <2>9. PICK new \in {Concluded([n EXCEPT !.good = FALSE]), Concluded(n),
                      Concluded([n EXCEPT !.good = x.good]), Failed} :
            worker' = [worker EXCEPT ![a].pc = "status", ![a].new = new]
    BY <1>8 DEF Apply, n, x
  <2>10. worker' = [worker EXCEPT ![a] = W(new)]
    BY <1>1, <2>9
  <2> HIDE DEF Fits, W, Failed, All
  <2>11. Fits(a, W(new))
    BY <2>2, <2>6, <2>7, <2>8, <2>9
  <2>12. QED BY <1>5, <2>10, <2>11
<1>9. ASSUME \E v \in AddonValues : WriteValue(v) \/ RelabelValue(v) \/ RemoveValue(v)
      PROVE  All
  <2>1. UNCHANGED worker
    BY <1>9 DEF WriteValue, RelabelValue, RemoveValue, ChangeStore, Change
  <2>2. QED BY <1>4, <2>1
<1>10. ASSUME NEW a \in Addons,
              CreateAddon(a) \/ PatchSelectors(a) \/ ArgoSyncs(a) \/ DeliverAddon(a) \/ DeliverApp(a)
       PROVE  All
  <2>1. UNCHANGED worker
    BY <1>10 DEF CreateAddon, PatchSelectors, Change, ArgoSyncs, DeliverAddon, DeliverApp
  <2>2. QED BY <1>4, <2>1
<1>11. ASSUME DeliverStore \/ ChangeExternal PROVE All
  <2>1. UNCHANGED worker
    BY <1>11 DEF DeliverStore, ChangeExternal, Change
  <2>2. QED BY <1>4, <2>1
<1> HIDE DEF All
<1>12. All
  BY <1>6, <1>7, <1>8, <1>9, <1>10, <1>11 DEF Step, WorkerStep, Deliver
<1>13. QED BY <1>12 DEF All


LEMMA TypeInit == Init => TypeInv
<1> SUFFICES ASSUME Init PROVE TypeInv
  OBVIOUS
<1>1. \A a \in Addons : addon[a] \in {<<NewAddon("live")>>, <<NewAddon("absent")>>}
  BY DEF Init
<1>2. \A a \in Addons : AddonHistory(a, addon[a])
  <2> TAKE a \in Addons
  <2>1. ASSUME NEW l \in {"absent", "live"} PROVE AddonHistory(a, <<NewAddon(l)>>)
    <3>1. IsAddon(a, NewAddon(l))
      BY NewObjects
    <3> DEFINE o == NewAddon(l)
    <3> HIDE DEF o
    <3>2. QED BY <3>1, HistoryOne DEF AddonHistory, o
  <2>2. QED BY <1>1, <2>1
<1>3. \A a \in Addons : AppHistory(app[a])
  <2>1. AppHistory(<<NoApp>>)
    <3>1. IsApp(NoApp)
      BY NewObjects
    <3>2. QED BY <3>1, HistoryOne DEF AppHistory
  <2>2. QED BY <2>1 DEF Init
<1>4. \A a \in Addons : WorkerInv(a, worker[a], addon[a])
  BY DEF Init, Idle, WorkerInv
<1>5. store \in Versions(Copies(store))
  BY HistoryOne DEF Init
<1>6. scenario \in Scenarios /\ changes \in 0..scenario.changes
  <2>1. scenario \in Scenarios /\ changes = 0
    BY DEF Init
  <2>2. scenario.changes \in Nat
    BY <2>1, RolloutAssumption
  <2>3. QED BY <2>1, <2>2
<1>7. DOMAIN addon = Addons /\ DOMAIN app = Addons /\ DOMAIN worker = Addons
  BY DEF Init
<1>8. queue \subseteq Addons /\ fulfilled \subseteq Addons
  BY DEF Init
<1>9. QED BY <1>2, <1>3, <1>4, <1>5, <1>6, <1>7, <1>8 DEF TypeInv

LEMMA OtherSteps ==
    ASSUME TypeInv, Step
    PROVE  /\ store' \in Versions(Copies(store'))
           /\ scenario' = scenario /\ queue' \subseteq Addons
           /\ changes' \in 0..scenario.changes
<1>1. scenario' = scenario
  BY DEF Step, WorkerStep, Deliver, CreateAddon, PatchSelectors, ArgoSyncs, Reconcile, Apply,
         UpdateStatus, WriteValue, RelabelValue, RemoveValue, ChangeStore, Change, ChangeExternal,
         DeliverAddon, DeliverApp, DeliverStore
<1>2. queue' \subseteq Addons
  <2>1. queue \subseteq Addons
    BY DEF TypeInv
  <2>2. ASSUME NEW v \in AddonValues, WriteValue(v) \/ RelabelValue(v) \/ RemoveValue(v)
        PROVE  queue' = queue
    BY <2>2 DEF WriteValue, RelabelValue, RemoveValue, ChangeStore, Change
  <2>3. ASSUME NEW a \in Addons, CreateAddon(a) \/ PatchSelectors(a) \/ ArgoSyncs(a) \/ Apply(a)
        PROVE  queue' = queue
    BY <2>3 DEF CreateAddon, PatchSelectors, Change, ArgoSyncs, Apply
  <2>4. ASSUME NEW a \in Addons, Reconcile(a) \/ UpdateStatus(a)
        PROVE  queue' \subseteq Addons
    BY <2>1, <2>4 DEF Reconcile, UpdateStatus
  <2>5. ASSUME NEW a \in Addons, DeliverAddon(a) \/ DeliverApp(a)
        PROVE  queue' \subseteq Addons
    BY <2>1, <2>5 DEF DeliverAddon, DeliverApp, findDependentAddons
  <2>6. ASSUME DeliverStore PROVE queue' \subseteq Addons
    BY <2>1, <2>6 DEF DeliverStore, FindAddonsForAddonValue
  <2>7. ASSUME ChangeExternal PROVE queue' = queue
    BY <2>7 DEF ChangeExternal, Change
  <2>8. QED BY <2>1, <2>2, <2>3, <2>4, <2>5, <2>6, <2>7 DEF Step, WorkerStep, Deliver
<1>3. changes' \in 0..scenario.changes
  <2>1. scenario.changes \in Nat /\ changes \in 0..scenario.changes
    BY RolloutAssumption DEF TypeInv
  <2>2. \A kind : Change(kind) => changes' \in 0..scenario.changes
    <3> DEFINE max == scenario.changes
    <3>1. max \in Nat /\ changes \in 0..max
      BY <2>1
    <3>2. \A kind : Change(kind) => changes < max /\ changes' = changes + 1
      BY DEF Change
    <3> HIDE DEF max
    <3>3. changes < max /\ changes' = changes + 1 => changes' \in 0..max
      BY <3>1
    <3>4. QED BY <3>2, <3>3 DEF max
  <2>3. \/ changes' = changes
        \/ \E kind : Change(kind)
    BY ZenonT(60)
    DEF Step, WorkerStep, Deliver, CreateAddon, PatchSelectors, ArgoSyncs, Reconcile, Apply,
        UpdateStatus, WriteValue, RelabelValue, RemoveValue, ChangeStore, ChangeExternal,
        DeliverAddon, DeliverApp, DeliverStore
  <2>4. QED BY <2>1, <2>2, <2>3
<1>4. store' \in Versions(Copies(store'))
  <2>1. store \in Versions(Copies(store))
    BY DEF TypeInv
  <2>2. ASSUME NEW new, NEW kind, ChangeStore(new, kind)
        PROVE  store' \in Versions(Copies(store'))
    BY <2>1, <2>2, HistoryAppend DEF ChangeStore
  <2>3. ASSUME DeliverStore PROVE store' \in Versions(Copies(store'))
    BY <2>1, <2>3, HistoryTail DEF DeliverStore
  <2>4. \/ store' = store
        \/ DeliverStore
        \/ \E new, kind : ChangeStore(new, kind)
    BY ZenonT(60)
    DEF Step, WorkerStep, Deliver, CreateAddon, PatchSelectors, ArgoSyncs, Reconcile, Apply,
        UpdateStatus, WriteValue, RelabelValue, RemoveValue, ChangeExternal,
        DeliverAddon, DeliverApp
  <2>5. CASE store' = store
    BY <2>1, <2>5
  <2>6. QED BY <2>2, <2>3, <2>4, <2>5, Zenon
<1>5. QED BY <1>1, <1>2, <1>3, <1>4, ZenonT(60)

LEMMA TypeStep == TypeInv /\ [Next]_vars => TypeInv'
<1>1. ASSUME TypeInv, UNCHANGED vars PROVE TypeInv'
  BY <1>1 DEF TypeInv, vars
<1>2. ASSUME TypeInv, Next PROVE TypeInv'
  <2>1. Step /\ fulfilled' \subseteq fulfilled \union Addons /\ fulfilled \subseteq Addons
    BY <1>2 DEF Next, Remember, TypeInv
  <2>2. /\ DOMAIN addon' = Addons /\ DOMAIN app' = Addons /\ DOMAIN worker' = Addons
        /\ \A a \in Addons : AddonHistory(a, addon'[a]) /\ AppHistory(app'[a])
        /\ \A a \in Addons : WorkerInv(a, worker'[a], addon'[a])
    BY <1>2, <2>1, AddonSteps, AppSteps, WorkerSteps
  <2>3. /\ store' \in Versions(Copies(store')) /\ scenario' = scenario /\ scenario \in Scenarios
        /\ queue' \subseteq Addons /\ changes' \in 0..scenario.changes
    BY <1>2, <2>1, OtherSteps DEF TypeInv
  <2>4. QED BY <2>1, <2>2, <2>3 DEF TypeInv
<1>3. QED BY <1>1, <1>2

LEMMA TypeInvTypeOK == TypeInv => TypeOK
<1> SUFFICES ASSUME TypeInv PROVE TypeOK
  OBVIOUS
<1>1. ASSUME NEW a \in Addons
      PROVE  /\ Len(addon[a]) \in 1..(MaxLag + 1) /\ Len(app[a]) \in 1..(MaxLag + 1)
             /\ Stored(addon[a]).conds \in Conditions
             /\ Stored(addon[a]).phaseSel \in {<<>>, PhaseSelectors[a]}
             /\ worker[a].pc \in {"idle", "apply", "status"}
             /\ worker[a].pc # "idle" => Stored(addon[a]).life = "live"
             /\ Stored(app[a]).life = "live" => Stored(app[a]).spec.known
  <2>1. Len(addon[a]) \in 1..(MaxLag + 1) /\ Len(app[a]) \in 1..(MaxLag + 1)
    BY DEF TypeInv, AddonHistory, AppHistory, Versions
  <2>2. IsAddon(a, Stored(addon[a])) /\ IsApp(Stored(app[a]))
    BY StoredAndCached
  <2>3. WorkerInv(a, worker[a], addon[a])
    BY DEF TypeInv
  <2>4. /\ Stored(addon[a]).conds \in Conditions
        /\ Stored(addon[a]).phaseSel \in {<<>>, PhaseSelectors[a]}
    BY <2>2 DEF IsAddon
  <2>5. QED BY <2>1, <2>2, <2>3, <2>4 DEF IsApp, WorkerInv
<1>2. Len(store) \in 1..(MaxLag + 1)
  BY DEF TypeInv, Versions
<1>3. QED BY <1>1, <1>2 DEF TypeInv, TypeOK

\* Whatever caches lag behind, statuses hold conditions that the condition
\* manager can set and selectors of the Addon's own phase, only live Addons are
\* at work, and no Application is made or updated without aggregated values
\* (Reconcile, reconcileApplication, updateStatus).
THEOREM RolloutTypeCorrect == Spec => []TypeOK
<1>1. Spec => []TypeInv
  BY TypeInit, TypeStep, PTL DEF Spec
<1>2. QED BY <1>1, TypeInvTypeOK, PTL


-----------------------------------------------------------------------------
(* The gate. *)

\* GateSound is about what is stored, the gate about what is cached, and the
\* Application is made a step later.  So: whoever fulfils the criterion in any
\* version that a cache may still show has fulfilled it, and a worker that is on
\* its way to the Application has passed the gate or there is one already.
GateInv ==
    /\ \A b \in Addons : \A o \in Copies(addon[b]) :
          Meets(scenario.criterion, o) => b \in fulfilled
    /\ \A a \in Addons : worker[a].pc = "apply" =>
          Dependencies[a] \subseteq fulfilled \/ Stored(app[a]).life = "live"
    /\ GateSound

\* What a criterion finds in an object is a JSON value, and no null.
LEMMA ObjectValues ==
    ASSUME NEW c, NEW o
    PROVE  \A p \in DOMAIN Object(c, o) :
              IsJson(Object(c, o)[p]) /\ Object(c, o)[p].t \notin {"missing", "null"}
<1>1. /\ \A s : IsJson(JsonString(s)) /\ JsonString(s).t \notin {"missing", "null"}
      /\ IsJson(JsonNumber(1)) /\ JsonNumber(1).t \notin {"missing", "null"}
      /\ IsJson(JsonBool("true")) /\ JsonBool("true").t \notin {"missing", "null"}
  BY DEF IsJson, JsonString, JsonNumber, JsonBool, NotNumeric
<1>2. CASE c.source = "addon"
  <2>1. ASSUME NEW p \in DOMAIN Json(o)
        PROVE  IsJson(Json(o)[p]) /\ Json(o)[p].t \notin {"missing", "null"}
    <3>1. p \in {"generation", "ready", "deployed"}
      BY DEF Json
    <3>2. Json(o)[p] \in {JsonNumber(1), JsonString("True"), JsonString("False"), JsonBool("true")}
      BY <3>1 DEF Json
    <3>3. QED BY <1>1, <3>2
  <2>2. QED BY <1>2, <2>1 DEF Object
<1>3. CASE c.source # "addon"
  BY <1>1, <1>3 DEF Object
<1>4. QED BY <1>2, <1>3

\* The gate lets through only who fulfils the criterion in the cached version, and
\* everybody of whom that is not contested.
LEMMA CheckExact ==
    ASSUME TypeInv, NEW b \in Addons
    PROVE  /\ checkDependency(b) => Meets(scenario.criterion, Cached(addon[b]))
           /\ SurelyMeets(scenario.criterion, Cached(addon[b])) => checkDependency(b)
<1> DEFINE c == scenario.criterion
           object == Object(c, Cached(addon[b]))
<1>1. WellFormed(c)
  BY RolloutAssumption DEF TypeInv
<1>2. \A p \in DOMAIN object : IsJson(object[p]) /\ object[p].t \notin {"missing", "null"}
  BY ObjectValues
<1>3. /\ evaluateCriterion(object, c) = "true" => Fulfilled(object, c)
      /\ Fulfilled(object, c) /\ ~Contested(object, c) => evaluateCriterion(object, c) = "true"
  <2> HIDE DEF c, object
  <2>1. evaluateCriterion(object, c) = "true" <=>
            IF Contested(object, c) THEN ~Fulfilled(object, c) ELSE Fulfilled(object, c)
    BY <1>1, <1>2, CriteriaExact
  <2>2. Contested(object, c) => evaluateCriterion(object, c) # "true"
    BY <1>2 DEF Contested, evaluateCriterion
  <2>3. QED BY <2>1, <2>2
<1>4. QED BY <1>3 DEF checkDependency, Meets, SurelyMeets

LiveStored ==
    \A b \in Addons : \A x \in Copies(addon[b]) :
        x.life = "live" => Stored(addon[b]).life = "live"

LEMMA LiveStays == TypeInv => LiveStored
BY StoredAndCached DEF LiveStored

\* Whoever fulfils the criterion after a step, in any version, has fulfilled it.
LEMMA RememberedAll ==
    ASSUME TypeInv, TypeInv', GateInv, Next, NEW b \in Addons, NEW o \in Copies(addon'[b]),
           Meets(scenario.criterion, o)'
    PROVE  b \in fulfilled'
<1> DEFINE c == scenario.criterion
           new == Stored(addon[b])'
<1>1. /\ scenario' = scenario /\ c.source \in {"addon", "external"}
      /\ o \in Copies(addon[b]) \/ o = new
  BY OtherSteps, AddonSteps, RolloutAssumption DEF Next, TypeInv, Moved
<1>2. /\ fulfilled \subseteq fulfilled'
      /\ Meets(c, Stored(addon[b]))' => b \in fulfilled'
  BY DEF Next, Remember
<1>3. CASE o = new
  BY <1>2, <1>3
<1>4. CASE c.source = "addon" /\ o \in Copies(addon[b])
  <2>1. Meets(c, o)' <=> Meets(c, o)
    BY <1>1, <1>4 DEF Meets, Object
  <2>2. QED BY <1>2, <1>4, <2>1 DEF GateInv
<1>5. CASE c.source = "external"
  <2>1. o.life = "live" /\ Meets(c, o)'
    BY DEF Meets
  <2>2. new.life = "live"
    <3>1. LiveStored'
      BY LiveStays, PTL
    <3>2. QED BY <2>1, <3>1 DEF LiveStored
  <2>3. Meets(c, Stored(addon[b]))'
    BY <1>1, <1>5, <2>1, <2>2 DEF Meets, Object
  <2>4. QED BY <1>2, <2>3
<1>6. QED BY <1>1, <1>3, <1>4, <1>5

LEMMA GateStep == TypeInv /\ TypeInv' /\ GateInv /\ [Next]_vars => GateInv'
<1>1. ASSUME GateInv, UNCHANGED vars PROVE GateInv'
  BY <1>1 DEF GateInv, GateSound, Meets, Object, vars
<1>2. ASSUME TypeInv, TypeInv', GateInv, Next PROVE GateInv'
  <2>1. Step /\ fulfilled \subseteq fulfilled'
    BY <1>2 DEF Next, Remember
  <2>2. \A b \in Addons : \A o \in Copies(addon'[b]) :
            Meets(scenario.criterion, o)' => b \in fulfilled'
    BY <1>2, RememberedAll
  <2>3. ASSUME NEW a \in Addons
        PROVE  /\ worker'[a].pc = "apply" =>
                      Dependencies[a] \subseteq fulfilled' \/ Stored(app'[a]).life = "live"
               /\ Stored(app'[a]).life = "live" => Dependencies[a] \subseteq fulfilled'
    <3>1. /\ Stored(app[a]).life = "live" => Stored(app'[a]).life = "live"
          /\ Stored(app'[a]).life = "live" =>
                 Stored(app[a]).life = "live" \/ worker[a].pc = "apply"
          /\ worker'[a].pc = "apply" => worker[a].pc = "apply" \/ CheckDependencies(a)
      BY <1>2, <2>1, AppSteps, WorkerSteps DEF Moved
    <3>2. Cached(app[a]).life = "live" => Stored(app[a]).life = "live"
      BY <1>2, StoredAndCached
    <3>3. CheckDependencies(a) =>
              Dependencies[a] \subseteq fulfilled \/ Stored(app[a]).life = "live"
      <4>1. Dependencies[a] \subseteq Addons
        BY RolloutAssumption
      <4>2. \A b \in Addons : checkDependency(b) => b \in fulfilled
        BY <1>2, CheckExact, StoredAndCached DEF GateInv
      <4>3. QED BY <3>2, <4>1, <4>2 DEF CheckDependencies
    <3>4. QED BY <1>2, <2>1, <3>1, <3>3 DEF GateInv, GateSound
  <2>4. QED BY <2>2, <2>3 DEF GateInv, GateSound
<1>3. QED BY <1>1, <1>2

LEMMA GateInit == Init => GateInv
<1> SUFFICES ASSUME Init PROVE GateInv
  OBVIOUS
<1>1. \A b \in Addons : Copies(addon[b]) = {Stored(addon[b])}
  <2>1. \A b \in Addons : \E o : addon[b] = <<o>>
    BY DEF Init
  <2>2. QED BY <2>1, HistoryOne
<1>2. \A b \in Addons : \A o \in Copies(addon[b]) : Meets(scenario.criterion, o) => b \in fulfilled
  BY <1>1 DEF Init
<1>3. \A a \in Addons : worker[a].pc = "idle"
  BY DEF Init, Idle
<1>4. \A a \in Addons : Stored(app[a]).life = "absent"
  <2>1. \A a \in Addons : app[a] = <<NoApp>>
    BY DEF Init
  <2>2. NoApp.life = "absent" /\ Stored(<<NoApp>>) = NoApp
    BY NewObjects, HistoryOne
  <2>3. QED BY <2>1, <2>2
<1>5. QED BY <1>2, <1>3, <1>4 DEF GateInv, GateSound

\* For any graph of dependencies, any criterion and any lag of the caches: no
\* Addon gets an Application before each Addon it depends on has really
\* fulfilled the criterion, as documented (CheckDependencies, evaluateCriterion,
\* reconcileApplication).
THEOREM DependenciesGate == Spec => []GateSound
<1>1. Spec => []TypeInv
  BY TypeInit, TypeStep, PTL DEF Spec
<1>2. Spec => []GateInv
  BY <1>1, GateInit, GateStep, PTL DEF Spec
<1>3. GateInv => GateSound
  BY DEF GateInv
<1>4. QED BY <1>2, <1>3, PTL

-----------------------------------------------------------------------------
(* AddonValues. *)

\* AddonValues are records.
Records(s) == s = [v \in DOMAIN s |-> [labels |-> s[v].labels, content |-> s[v].content]]

\* This is so in every version of the AddonValues, and all are finite.
ValuesInv == \A s \in Copies(store) : IsStore(s) /\ Records(s)

LEMMA ValueWritten ==
    ASSUME NEW s, IsStore(s), NEW r, DOMAIN r = DOMAIN s, r = [v \in DOMAIN r |-> r[v]],
           \A v \in DOMAIN s : \E l, m : r[v] = [labels |-> l, content |-> m] /\ IsContent(m)
    PROVE  IsStore(r) /\ Records(r)
<1>1. \A v \in DOMAIN r : /\ IsContent(r[v].content)
                          /\ r[v] = [labels |-> r[v].labels, content |-> r[v].content]
  <2> TAKE v \in DOMAIN r
  <2>1. PICK l, m : r[v] = [labels |-> l, content |-> m] /\ IsContent(m)
    OBVIOUS
  <2>2. r[v].labels = l /\ r[v].content = m
    BY <2>1
  <2>3. QED BY <2>1, <2>2
<1>2. IsStore(r)
  BY <1>1 DEF IsStore
<1>3. Records(r)
  BY <1>1 DEF Records
<1>4. QED BY <1>2, <1>3

LEMMA ValuesStep == TypeInv /\ ValuesInv /\ [Next]_vars => ValuesInv'
<1>1. ASSUME ValuesInv, UNCHANGED store PROVE ValuesInv'
  BY <1>1 DEF ValuesInv
<1>2. ASSUME TypeInv, ValuesInv, Step PROVE ValuesInv'
  <2> DEFINE s == Stored(store)
             Fits(r) == IsStore(r) /\ Records(r)
  <2>1. store \in Versions(Copies(store))
    BY <1>2 DEF TypeInv
  <2>2. Fits(s)
    BY <1>2, <2>1, VersionsEnds DEF ValuesInv
  <2>3. ASSUME NEW new, NEW kind, ChangeStore(new, kind), Fits(new) PROVE ValuesInv'
    <3>1. Copies(store') = Copies(store) \union {new}
      BY <2>1, <2>3, HistoryAppend DEF ChangeStore
    <3>2. QED BY <1>2, <2>3, <3>1 DEF ValuesInv
  <2>4. ASSUME DeliverStore PROVE ValuesInv'
    <3>1. Copies(store') \subseteq Copies(store)
      BY <2>1, <2>4, HistoryTail DEF DeliverStore
    <3>2. QED BY <1>2, <3>1 DEF ValuesInv
  <2>5. ASSUME NEW v \in AddonValues, WriteValue(v) PROVE ValuesInv'
    <3>1. PICK m \in Contents \union {Broken} : ChangeStore([s EXCEPT ![v].content = m], "value")
      BY <2>5 DEF WriteValue
    <3> DEFINE r == [s EXCEPT ![v].content = m]
    <3>2. v \in DOMAIN s
      BY <2>5 DEF WriteValue
    <3>3. IsContent(m)
      <4>1. IsContent(Broken)
        BY DEF Broken, ScalarOf, IsContent
      <4>2. QED BY <4>1, ValuesAssumption
    <3>4. DOMAIN r = DOMAIN s /\ r = [w \in DOMAIN r |-> r[w]]
      BY <2>2 DEF Records
    <3>5. ASSUME NEW w \in DOMAIN s
          PROVE  \E l, c : r[w] = [labels |-> l, content |-> c] /\ IsContent(c)
      <4>1. s[w] = [labels |-> s[w].labels, content |-> s[w].content] /\ IsContent(s[w].content)
        BY <2>2, Zenon DEF IsStore, Records
      <4>2. CASE w # v
        BY <3>2, <4>1, <4>2
      <4>3. CASE w = v
        <5>1. r[w] = [s[w] EXCEPT !.content = m]
          BY <3>2, <4>3
        <5>2. r[w] = [labels |-> s[w].labels, content |-> m]
          BY <4>1, <5>1
        <5>3. QED BY <3>3, <5>2
      <4>4. QED BY <4>2, <4>3
    <3> HIDE DEF r, s
    <3>6. Fits(r)
      BY <2>2, <3>4, <3>5, ValueWritten
    <3> HIDE DEF Fits
    <3>7. QED BY <2>3, <3>1, <3>6 DEF r, s
  <2>6. ASSUME NEW v \in AddonValues, RelabelValue(v) PROVE ValuesInv'
    <3>1. PICK l \in Labels : ChangeStore([s EXCEPT ![v].labels = l], "relabel")
      BY <2>6 DEF RelabelValue
    <3> DEFINE r == [s EXCEPT ![v].labels = l]
    <3>2. v \in DOMAIN s
      BY <2>6 DEF RelabelValue
    <3>3. DOMAIN r = DOMAIN s /\ r = [w \in DOMAIN r |-> r[w]]
      BY <2>2 DEF Records
    <3>4. ASSUME NEW w \in DOMAIN s
          PROVE  \E k, c : r[w] = [labels |-> k, content |-> c] /\ IsContent(c)
      <4>1. s[w] = [labels |-> s[w].labels, content |-> s[w].content] /\ IsContent(s[w].content)
        BY <2>2, Zenon DEF IsStore, Records
      <4>2. CASE w # v
        BY <3>2, <4>1, <4>2
      <4>3. CASE w = v
        <5>1. r[w] = [s[w] EXCEPT !.labels = l]
          BY <3>2, <4>3
        <5>2. r[w] = [labels |-> l, content |-> s[w].content]
          BY <4>1, <5>1
        <5>3. QED BY <4>1, <5>2
      <4>4. QED BY <4>2, <4>3
    <3> HIDE DEF r, s
    <3>5. Fits(r)
      BY <2>2, <3>3, <3>4, ValueWritten
    <3> HIDE DEF Fits
    <3>6. QED BY <2>3, <3>1, <3>5 DEF r, s
  <2>7. ASSUME NEW v \in AddonValues, RemoveValue(v) PROVE ValuesInv'
    <3> DEFINE r == [w \in DOMAIN s \ {v} |-> s[w]]
    <3>1. ChangeStore(r, "remove")
      BY <2>7 DEF RemoveValue
    <3>2. DOMAIN r \in SUBSET DOMAIN s /\ \A w \in DOMAIN r : r[w] = s[w]
      OBVIOUS
    <3>3. IsStore(r)
      <4> HIDE DEF r
      <4>1. IsFiniteSet(DOMAIN r)
        BY <2>2, <3>2, FS_Subset DEF IsStore
      <4>2. QED BY <2>2, <3>2, <4>1 DEF IsStore
    <3>4. Records(r)
      <4>1. \A w \in DOMAIN s : s[w] = [labels |-> s[w].labels, content |-> s[w].content]
        BY <2>2, Zenon DEF Records
      <4>2. r = [w \in DOMAIN r |-> r[w]]
        OBVIOUS
      <4> HIDE DEF r
      <4>3. QED BY <3>2, <4>1, <4>2 DEF Records
    <3> HIDE DEF r
    <3>5. QED BY <2>3, <3>1, <3>3, <3>4
  <2>8. \/ store' = store
        \/ DeliverStore
        \/ \E v \in AddonValues : WriteValue(v) \/ RelabelValue(v) \/ RemoveValue(v)
    BY <1>2, ZenonT(60)
    DEF Step, WorkerStep, Deliver, CreateAddon, PatchSelectors, ArgoSyncs, Reconcile, Apply,
        UpdateStatus, ChangeExternal, DeliverAddon, DeliverApp
  <2>9. QED BY <1>1, <1>2, <2>4, <2>5, <2>6, <2>7, <2>8
<1>3. QED BY <1>1, <1>2 DEF Next, vars

LEMMA ValuesInit == Init => ValuesInv
<1> SUFFICES ASSUME Init PROVE ValuesInv
  OBVIOUS
<1>1. Copies(store) = {FirstValues}
  BY HistoryOne DEF Init
<1>2. QED BY <1>1, ValuesAssumption DEF ValuesInv, Records

\* The selectors of an Addon are a list.
LEMMA SelectorsListed ==
    ASSUME NEW a \in Addons, NEW o, IsAddon(a, o)
    PROVE  IsSelectors(collectSelectors(a, o))
<1> DEFINE s == SpecSelectors[a]
           t == o.phaseSel
           S == Range(s) \union Range(t)
           c == s \o t
<1>1. IsSelectors(s) /\ IsSelectors(t)
  <2>1. IsSelectors(<<>>)
    BY DEF IsSelectors
  <2>2. t \in {<<>>, PhaseSelectors[a]}
    BY DEF IsAddon
  <2>3. QED BY <2>1, <2>2, ValuesAssumption
<1>2. s \in Seq(S) /\ t \in Seq(S)
  <2>1. s \in Seq(Range(s)) /\ t \in Seq(Range(t))
    BY <1>1 DEF IsSelectors
  <2> DEFINE A == Range(s)
             B == Range(t)
  <2> HIDE DEF A, B, s, t
  <2>2. A \subseteq A \union B /\ B \subseteq A \union B
    OBVIOUS
  <2>3. QED BY <2>1 DEF A, B
<1>3. \A x \in S : x.priority \in Int
  BY <1>1 DEF IsSelectors, Range
<1> HIDE DEF s, t, S
<1>4. c \in Seq(S) /\ \A i \in DOMAIN c : c[i] \in S
  <2>1. c \in Seq(S)
    BY <1>2
  <2> HIDE DEF c
  <2>2. QED BY <2>1
<1>5. c \in Seq(Range(c))
  <2> HIDE DEF c
  <2>1. Len(c) \in Nat /\ c \in [1..Len(c) -> S]
    BY <1>4, LenProperties
  <2>2. c \in [1..Len(c) -> Range(c)]
    BY <2>1 DEF Range
  <2>3. QED BY <2>1, <2>2, SeqDef, Zenon
<1>6. IsSelectors(c)
  BY <1>3, <1>4, <1>5 DEF IsSelectors
<1>7. QED BY <1>6 DEF collectSelectors, c, s, t


-----------------------------------------------------------------------------
(* What a reconcile reads. *)

\* An Addon that waits for others, or for something that nobody watches.
Blocked(a) ==
    \/ scenario.criterion.source = "external" /\ Dependencies[a] # {}
    \/ \E b \in Dependencies[a] : ~checkDependency(b)

\* The Addon is only written, or its informer delivers.
LEMMA AddonViews ==
    ASSUME TypeInv, Step, NEW b \in Addons
    PROVE  \/ DeliverAddon(b)
           \/ Cached(addon[b])' = Cached(addon[b]) /\ (~Current(addon[b]) => ~Current(addon[b])')
<1> DEFINE h == addon[b]
           Kept == Cached(h)' = Cached(h) /\ (~Current(h) => ~Current(h)')
<1>1. DOMAIN addon = Addons /\ h \in Versions(Copies(h))
  BY DEF TypeInv, AddonHistory
<1>2. ASSUME addon' = addon PROVE Kept
  BY <1>2 DEF Cached, Current
<1>3. ASSUME NEW o, CanWrite(h), h' = Append(h, o) PROVE Kept
  <2> DEFINE S == Copies(h) \union {o}
  <2>1. h \in Versions(S) /\ o \in S
    BY <1>1 DEF Versions
  <2> HIDE DEF S, h
  <2>2. Cached(Append(h, o)) = Cached(h) /\ ~Current(Append(h, o))
    BY <1>3, <2>1, VersionsAppend
  <2>3. Cached(h)' = Cached(Append(h, o)) /\ (Current(h)' <=> Current(Append(h, o)))
    BY <1>3 DEF Cached, Current
  <2>4. QED BY <2>2, <2>3
<1>4. ASSUME h' = h PROVE Kept
  BY <1>4 DEF Cached, Current
<1>5. ASSUME NEW a \in Addons, CreateAddon(a) PROVE Kept
  <2>1. CanWrite(addon[a]) /\ addon' = [addon EXCEPT ![a] = Append(addon[a], NewAddon("live"))]
    BY <1>5 DEF CreateAddon
  <2>2. CASE a = b
    BY <1>1, <1>3, <2>1, <2>2
  <2>3. CASE a # b
    BY <1>1, <1>4, <2>1, <2>3
  <2>4. QED BY <2>2, <2>3
<1>6. ASSUME NEW a \in Addons, PatchSelectors(a) PROVE Kept
  <2>1. PICK o : CanWrite(addon[a]) /\ addon' = [addon EXCEPT ![a] = Append(addon[a], o)]
    BY <1>6 DEF PatchSelectors
  <2>2. CASE a = b
    BY <1>1, <1>3, <2>1, <2>2
  <2>3. CASE a # b
    BY <1>1, <1>4, <2>1, <2>3
  <2>4. QED BY <2>2, <2>3
<1>7. ASSUME NEW a \in Addons, UpdateStatus(a) PROVE Kept
  <2>1. CASE addon' = addon
    BY <1>2, <2>1
  <2>2. ASSUME NEW o, CanWrite(addon[a]), addon' = [addon EXCEPT ![a] = Written(addon[a], o)]
        PROVE  Kept
    <3>1. CASE a = b /\ o # Stored(h)
      BY <1>1, <1>3, <2>2, <3>1 DEF Written
    <3>2. CASE a # b \/ o = Stored(h)
      BY <1>1, <1>4, <2>2, <3>2 DEF Written
    <3>3. QED BY <3>1, <3>2
  <2> HIDE DEF Kept
  <2>3. QED BY <1>7, <2>1, <2>2 DEF UpdateStatus
<1>8. ASSUME NEW a \in Addons, DeliverAddon(a), a # b PROVE Kept
  BY <1>1, <1>4, <1>8 DEF DeliverAddon
<1>9. ASSUME \E v \in AddonValues : WriteValue(v) \/ RelabelValue(v) \/ RemoveValue(v)
      PROVE  Kept
  BY <1>2, <1>9 DEF WriteValue, RelabelValue, RemoveValue, ChangeStore
<1>10. ASSUME NEW a \in Addons, ArgoSyncs(a) \/ Reconcile(a) \/ Apply(a) \/ DeliverApp(a)
       PROVE  Kept
  <2>1. addon' = addon
    BY <1>10 DEF ArgoSyncs, Reconcile, Apply, DeliverApp
  <2>2. QED BY <1>2, <2>1
<1>11. ASSUME DeliverStore \/ ChangeExternal PROVE Kept
  BY <1>2, <1>11 DEF DeliverStore, ChangeExternal
<1> HIDE DEF Kept
<1>12. DeliverAddon(b) \/ Kept
  BY <1>5, <1>6, <1>7, <1>8, <1>9, <1>10, <1>11 DEF Step, WorkerStep, Deliver
<1>13. QED BY <1>12 DEF Kept

LEMMA AppViews ==
    ASSUME TypeInv, Step, NEW b \in Addons
    PROVE  \/ DeliverApp(b)
           \/ Cached(app[b])' = Cached(app[b]) /\ (~Current(app[b]) => ~Current(app[b])')
<1> DEFINE h == app[b]
           Kept == Cached(h)' = Cached(h) /\ (~Current(h) => ~Current(h)')
<1>1. DOMAIN app = Addons /\ h \in Versions(Copies(h))
  BY DEF TypeInv, AppHistory
<1>2. ASSUME h' = h PROVE Kept
  BY <1>2 DEF Cached, Current
<1>3. ASSUME NEW o, CanWrite(h) \/ Current(h), h' = Append(h, o) PROVE Kept
  <2> DEFINE S == Copies(h) \union {o}
  <2>1. h \in Versions(S) /\ o \in S
    BY <1>1 DEF Versions
  <2> HIDE DEF S, h
  <2>2. Cached(Append(h, o)) = Cached(h) /\ ~Current(Append(h, o))
    BY <1>3, <2>1, VersionsAppend
  <2>3. Cached(h)' = Cached(Append(h, o)) /\ (Current(h)' <=> Current(Append(h, o)))
    BY <1>3 DEF Cached, Current
  <2>4. QED BY <2>2, <2>3
<1>4. ASSUME NEW a \in Addons, NEW o, CanWrite(app[a]) \/ Current(app[a]),
             app' = [app EXCEPT ![a] = Append(app[a], o)]
      PROVE  Kept
  <2>1. CASE a = b
    BY <1>1, <1>3, <1>4, <2>1
  <2>2. CASE a # b
    BY <1>1, <1>2, <1>4, <2>2
  <2>3. QED BY <2>1, <2>2
<1>5. ASSUME NEW a \in Addons, ArgoSyncs(a) PROVE Kept
  <2>1. PICK o : CanWrite(app[a]) /\ app' = [app EXCEPT ![a] = Append(app[a], o)]
    BY <1>5 DEF ArgoSyncs
  <2> HIDE DEF Kept
  <2>2. QED BY <1>4, <2>1
<1>6. ASSUME NEW a \in Addons, Apply(a) PROVE Kept
  <2>1. \/ app' = app
        \/ \E o : /\ CanWrite(app[a]) \/ Current(app[a])
                  /\ app' = [app EXCEPT ![a] = Append(app[a], o)]
    BY <1>6 DEF Apply
  <2>2. CASE app' = app
    BY <1>2, <2>2
  <2> HIDE DEF Kept
  <2>3. QED BY <1>4, <2>1, <2>2
<1>7. ASSUME NEW a \in Addons, DeliverApp(a), a # b PROVE Kept
  BY <1>1, <1>2, <1>7 DEF DeliverApp
<1>8. ASSUME NEW a \in Addons,
             CreateAddon(a) \/ PatchSelectors(a) \/ Reconcile(a) \/ UpdateStatus(a) \/ DeliverAddon(a)
      PROVE  Kept
  <2>1. app' = app
    BY <1>8 DEF CreateAddon, PatchSelectors, Change, Reconcile, UpdateStatus, DeliverAddon
  <2>2. QED BY <1>2, <2>1
<1>9. ASSUME \/ \E v \in AddonValues : WriteValue(v) \/ RelabelValue(v) \/ RemoveValue(v)
             \/ DeliverStore \/ ChangeExternal
      PROVE  Kept
  <2>1. app' = app
    BY <1>9 DEF WriteValue, RelabelValue, RemoveValue, ChangeStore, Change, DeliverStore, ChangeExternal
  <2>2. QED BY <1>2, <2>1
<1> HIDE DEF Kept
<1>10. DeliverApp(b) \/ Kept
  BY <1>5, <1>6, <1>7, <1>8, <1>9 DEF Step, WorkerStep, Deliver
<1>11. QED BY <1>10 DEF Kept

LEMMA StoreViews ==
    ASSUME TypeInv, Step
    PROVE  DeliverStore \/ Cached(store)' = Cached(store)
<1>1. store \in Versions(Copies(store))
  BY DEF TypeInv
<1>2. ASSUME NEW new, NEW kind, ChangeStore(new, kind) PROVE Cached(store)' = Cached(store)
  <2> DEFINE S == Copies(store) \union {new}
  <2>1. store \in Versions(S) /\ new \in S
    BY <1>1 DEF Versions
  <2>2. CanWrite(store) /\ store' = Append(store, new)
    BY <1>2 DEF ChangeStore
  <2> HIDE DEF S
  <2>3. Cached(Append(store, new)) = Cached(store)
    BY <2>1, <2>2, VersionsAppend
  <2>4. QED BY <2>2, <2>3 DEF Cached
<1>3. \/ store' = store
      \/ DeliverStore
      \/ \E new, kind : ChangeStore(new, kind)
  BY ZenonT(60)
  DEF Step, WorkerStep, Deliver, CreateAddon, PatchSelectors, ArgoSyncs, Reconcile, Apply,
      UpdateStatus, WriteValue, RelabelValue, RemoveValue, ChangeExternal,
      DeliverAddon, DeliverApp
<1>4. CASE store' = store
  BY <1>4 DEF Cached
<1>5. QED BY <1>2, <1>3, <1>4, Zenon


\* A delivery of AddonValues that leaves an Addon alone leaves its values alone.
LEMMA DeliveredElsewhere ==
    ASSUME TypeInv, DeliverStore, NEW a \in Addons, a \notin queue',
           Cached(addon[a]).life = "live"
    PROVE  AggregateValues(collectSelectors(a, Cached(addon[a])), Cached(store)') =
               AggregateValues(collectSelectors(a, Cached(addon[a])), Cached(store))
<1> DEFINE sel == collectSelectors(a, Cached(addon[a]))
           s == store[1]
           r == store[2]
<1>1. IsSelectors(sel)
  BY StoredAndCached, SelectorsListed
<1>2. Cached(store) = s /\ Cached(store)' = r
  <2>1. store \in Versions(Copies(store)) /\ ~Current(store) /\ store' = Tail(store)
    BY DEF TypeInv, DeliverStore
  <2>2. Cached(store) = s /\ Cached(Tail(store)) = r
    BY <2>1, VersionsEnds, VersionsTail
  <2>3. QED BY <2>1, <2>2 DEF Cached
<1>3. a \notin FindAddonsForAddonValue(Changed(s, r), Changed(r, s))
  BY DEF DeliverStore
<1>4. \A i \in DOMAIN sel : \A av \in Changed(s, r) \union Changed(r, s) :
          ~ExactMatchAddonLabels(sel[i].labels, av.labels)
  BY <1>3 DEF FindAddonsForAddonValue
<1> HIDE DEF sel, s, r
<1>5. \A i \in DOMAIN sel : \A v \in DOMAIN s :
          v \notin DOMAIN r \/ s[v] # r[v] => ~ExactMatchAddonLabels(sel[i].labels, s[v].labels)
  <2>1. \A v \in DOMAIN s : v \notin DOMAIN r \/ s[v] # r[v] => s[v] \in Changed(s, r)
    BY DEF Changed
  <2>2. QED BY <1>4, <2>1
<1>6. \A i \in DOMAIN sel : \A v \in DOMAIN r :
          v \notin DOMAIN s \/ s[v] # r[v] => ~ExactMatchAddonLabels(sel[i].labels, r[v].labels)
  <2>1. \A v \in DOMAIN r : v \notin DOMAIN s \/ s[v] # r[v] => r[v] \in Changed(r, s)
    BY DEF Changed
  <2>2. QED BY <1>4, <2>1
<1>7. AggregateValues(sel, s) = AggregateValues(sel, r)
  BY <1>1, <1>5, <1>6, AggregateKept
<1>8. QED BY <1>2, <1>7 DEF sel

\* Nothing that a reconcile of an Addon reads changes without the Addon being
\* enqueued, except that what it waits for may come about unnoticed if it is not
\* an Addon.
LEMMA ReadsKept ==
    ASSUME TypeInv, Step, NEW a \in Addons, a \notin queue', Cached(addon[a])'.life = "live"
    PROVE  /\ Cached(addon[a])' = Cached(addon[a]) /\ (~Current(addon[a]) => ~Current(addon[a])')
           /\ Cached(app[a])' = Cached(app[a]) /\ (~Current(app[a]) => ~Current(app[a])')
           /\ Aggregated(a, Cached(addon[a]))' = Aggregated(a, Cached(addon[a]))
           /\ Blocked(a) => Blocked(a)'
<1> DEFINE c == scenario.criterion
           o == Cached(addon[a])
<1>1. /\ Cached(addon[a])' = Cached(addon[a])
      /\ ~Current(addon[a]) => ~Current(addon[a])'
  BY AddonViews DEF DeliverAddon
<1>2. Cached(app[a])' = Cached(app[a]) /\ (~Current(app[a]) => ~Current(app[a])')
  BY AppViews DEF DeliverApp
<1>3. Aggregated(a, o)' = Aggregated(a, o)
  <2>1. AggregateValues(collectSelectors(a, o), Cached(store)') =
            AggregateValues(collectSelectors(a, o), Cached(store))
    <3>1. CASE DeliverStore
      BY <1>1, <3>1, DeliveredElsewhere
    <3>2. CASE Cached(store)' = Cached(store)
      BY <3>2
    <3>3. QED BY <3>1, <3>2, StoreViews
  <2>2. Aggregated(a, o)' = Known(AggregateValues(collectSelectors(a, o'), Cached(store)'))
    BY DEF Aggregated
  <2>3. Aggregated(a, o) = Known(AggregateValues(collectSelectors(a, o), Cached(store)))
    BY DEF Aggregated
  <2>4. o' = o
    BY <1>1
  <2> HIDE DEF o
  <2>5. QED BY <2>1, <2>2, <2>3, <2>4
<1>4. ASSUME Blocked(a) PROVE Blocked(a)'
  <2>1. scenario' = scenario /\ c.source \in {"addon", "external"} /\ Dependencies[a] \subseteq Addons
    BY OtherSteps, RolloutAssumption DEF TypeInv
  <2>2. CASE c.source = "external" /\ Dependencies[a] # {}
    BY <2>1, <2>2 DEF Blocked
  <2>3. CASE c.source = "addon" /\ \E b \in Dependencies[a] : ~checkDependency(b)
    <3>1. PICK b \in Dependencies[a] : ~checkDependency(b)
      BY <2>3
    <3>2. Cached(addon[b])' = Cached(addon[b])
      <4>1. ~DeliverAddon(b)
        <5>1. o.life = "live"
          BY <1>1
        <5>2. QED BY <3>1, <5>1 DEF DeliverAddon, findDependentAddons
      <4>2. QED BY <2>1, <4>1, AddonViews
    <3>3. ~checkDependency(b)'
      BY <2>1, <2>3, <3>1, <3>2 DEF checkDependency, Object
    <3>4. QED BY <3>3 DEF Blocked
  <2>4. QED BY <1>4, <2>1, <2>2, <2>3 DEF Blocked
<1>5. QED BY <1>1, <1>2, <1>3, <1>4

\* Only an Addon's own worker changes its work, or takes it from the queue.
LEMMA OwnWork ==
    ASSUME TypeInv, Step, NEW a \in Addons
    PROVE  \/ WorkerStep(a)
           \/ worker'[a] = worker[a] /\ (a \in queue => a \in queue')
<1> DEFINE Kept == worker'[a] = worker[a] /\ (a \in queue => a \in queue')
<1>1. DOMAIN worker = Addons
  BY DEF TypeInv
<1>2. ASSUME NEW b \in Addons, WorkerStep(b), b # a PROVE Kept
  <2>1. CASE Reconcile(b)
    BY <1>1, <1>2, <2>1 DEF Reconcile
  <2>2. CASE Apply(b)
    <3>1. PICK new : worker' = [worker EXCEPT ![b].pc = "status", ![b].new = new]
      BY <2>2 DEF Apply
    <3>2. queue' = queue
      BY <2>2 DEF Apply
    <3>3. QED BY <1>1, <1>2, <3>1, <3>2
  <2>3. CASE UpdateStatus(b)
    BY <1>1, <1>2, <2>3 DEF UpdateStatus
  <2>4. QED BY <1>2, <2>1, <2>2, <2>3 DEF WorkerStep
<1>3. ASSUME NEW b \in Addons,
             CreateAddon(b) \/ PatchSelectors(b) \/ ArgoSyncs(b) \/ DeliverAddon(b) \/ DeliverApp(b)
      PROVE  Kept
  BY <1>3 DEF CreateAddon, PatchSelectors, Change, ArgoSyncs, DeliverAddon, DeliverApp
<1>4. ASSUME \/ \E v \in AddonValues : WriteValue(v) \/ RelabelValue(v) \/ RemoveValue(v)
             \/ DeliverStore \/ ChangeExternal
      PROVE  Kept
  BY <1>4 DEF WriteValue, RelabelValue, RemoveValue, ChangeStore, Change, DeliverStore, ChangeExternal
<1> HIDE DEF Kept
<1>5. WorkerStep(a) \/ Kept
  BY <1>2, <1>3, <1>4 DEF Step, Deliver
<1>6. QED BY <1>5 DEF Kept


-----------------------------------------------------------------------------
(* Rest. *)

\* A reconcile that found this would change nothing: the Addon is blocked, or its
\* Application has the values that are called for and the status says so.
Settled(a, o, x) ==
    \/ x.life = "absent" /\ Blocked(a)
    \/ /\ x.life = "live" /\ x.spec = Aggregated(a, o) /\ o.hash = x.spec
       /\ x.good => o.conds = SetReady("FullyReconciled")

\* RolloutAtRest speaks of the moment at which all is done.  On the way, an Addon
\* that is not enqueued has a worker that works on the cached Addon and with
\* values as they are in the cache now (or an event would have enqueued it); a
\* worker that leaves the status as it is comes back, or has an event to come, or
\* has nothing to do; and without a worker there is an event to come or nothing to
\* do.
OnCourse(a) ==
    LET w == worker[a]
        o == Cached(addon[a])
        x == Cached(app[a])
    IN  a \notin queue /\ o.life = "live" =>
            /\ w.pc # "idle" => w.old = o /\ w.new.phaseSel = o.phaseSel
            /\ w.pc = "apply" => w.new.hash = Aggregated(a, o)
            /\ w.pc = "status" /\ w.new = w.old =>
                  w.requeue \/ w.new.conds.degraded \/ ~Current(app[a]) \/ Settled(a, o, x)
            /\ w.pc = "idle" => ~Current(addon[a]) \/ ~Current(app[a]) \/ Settled(a, o, x)

CourseInv == \A a \in Addons : OnCourse(a)

LEMMA CourseInit == Init => CourseInv
<1> SUFFICES ASSUME Init, NEW a \in Addons PROVE OnCourse(a)
  BY DEF CourseInv
<1>1. Cached(addon[a]).life = "live" => a \in queue
  BY DEF Init
<1>2. QED BY <1>1 DEF OnCourse

\* What is settled stays so as long as nothing is enqueued.
LEMMA SettledKept ==
    ASSUME TypeInv, Step, NEW a \in Addons, a \notin queue', Cached(addon[a])'.life = "live",
           Settled(a, Cached(addon[a]), Cached(app[a]))
    PROVE  Settled(a, Cached(addon[a]), Cached(app[a]))'
<1> DEFINE o == Cached(addon[a])
           x == Cached(app[a])
           m == Aggregated(a, o)
<1>1. o' = o /\ x' = x /\ m' = m /\ (Blocked(a) => Blocked(a)')
  BY ReadsKept
<1>2. \/ x.life = "absent" /\ Blocked(a)
      \/ /\ x.life = "live" /\ x.spec = m /\ o.hash = x.spec
         /\ x.good => o.conds = SetReady("FullyReconciled")
  BY DEF Settled
<1>3. (\/ x'.life = "absent" /\ Blocked(a)'
       \/ /\ x'.life = "live" /\ x'.spec = m' /\ o'.hash = x'.spec
          /\ x'.good => o'.conds = SetReady("FullyReconciled"))
      => Settled(a, o, x)'
  BY DEF Settled
<1> HIDE DEF o, x, m
<1>4. QED BY <1>1, <1>2, <1>3 DEF o, x

LEMMA CourseKept ==
    ASSUME TypeInv, Step, NEW a \in Addons, OnCourse(a), ~WorkerStep(a)
    PROVE  OnCourse(a)'
<1> DEFINE w == worker[a]
           o == Cached(addon[a])
           x == Cached(app[a])
<1> SUFFICES ASSUME a \notin queue', o'.life = "live"
             PROVE  /\ w'.pc # "idle" => w'.old = o' /\ w'.new.phaseSel = o'.phaseSel
                    /\ w'.pc = "apply" => w'.new.hash = Aggregated(a, o)'
                    /\ w'.pc = "status" /\ w'.new = w'.old =>
                          \/ w'.requeue \/ w'.new.conds.degraded
                          \/ ~Current(app[a])' \/ Settled(a, o, x)'
                    /\ w'.pc = "idle" =>
                          ~Current(addon[a])' \/ ~Current(app[a])' \/ Settled(a, o, x)'
  BY DEF OnCourse
<1>1. /\ o' = o /\ (~Current(addon[a]) => ~Current(addon[a])')
      /\ ~Current(app[a]) => ~Current(app[a])'
      /\ Aggregated(a, o)' = Aggregated(a, o)
  BY ReadsKept
<1>2. w' = w /\ a \notin queue
  BY OwnWork
<1>3. Settled(a, o, x) => Settled(a, o, x)'
  BY SettledKept
<1>4. /\ w.pc # "idle" => w.old = o /\ w.new.phaseSel = o.phaseSel
      /\ w.pc = "apply" => w.new.hash = Aggregated(a, o)
      /\ w.pc = "status" /\ w.new = w.old =>
            w.requeue \/ w.new.conds.degraded \/ ~Current(app[a]) \/ Settled(a, o, x)
      /\ w.pc = "idle" => ~Current(addon[a]) \/ ~Current(app[a]) \/ Settled(a, o, x)
  BY <1>1, <1>2 DEF OnCourse
<1> HIDE DEF w, o, x
<1>5. QED BY <1>1, <1>2, <1>3, <1>4

\* A reconcile that starts reads everything anew.
LEMMA CourseReconcile ==
    ASSUME TypeInv, Step, NEW a \in Addons, Reconcile(a)
    PROVE  OnCourse(a)'
<1> DEFINE o == Cached(addon[a])
           x == Cached(app[a])
           n == [o EXCEPT !.conds = EnsureAllConditions(@)]
           m == Aggregated(a, o)
           W(pc, new, requeue) == [pc |-> pc, old |-> o, new |-> new, requeue |-> requeue]
           Unmet == [n EXCEPT !.conds = SetProgressing("DependenciesNotMet")]
           Failed == [n EXCEPT !.conds = SetDegraded("ValuesNotResolved")]
           hashed == [n EXCEPT !.hash = m]
           Waits == [hashed EXCEPT !.conds = SetProgressing("WaitingForStableValues")]
           w == worker[a]
           Goal == /\ w'.pc # "idle" => w'.old = o' /\ w'.new.phaseSel = o'.phaseSel
                   /\ w'.pc = "apply" => w'.new.hash = Aggregated(a, o)'
                   /\ w'.pc = "status" /\ w'.new = w'.old =>
                         \/ w'.requeue \/ w'.new.conds.degraded
                         \/ ~Current(app[a])' \/ Settled(a, o, x)'
                   /\ w'.pc = "idle" =>
                         ~Current(addon[a])' \/ ~Current(app[a])' \/ Settled(a, o, x)'
<1> SUFFICES ASSUME a \notin queue', o'.life = "live" PROVE Goal
  BY DEF OnCourse
<1>1. o' = o /\ x' = x /\ m' = m /\ (Blocked(a) => Blocked(a)')
  BY ReadsKept
<1>2. DOMAIN worker = Addons /\ IsAddon(a, o) /\ IsApp(x)
  BY StoredAndCached DEF TypeInv
<1>3. IsAddon(a, n) /\ n.phaseSel = o.phaseSel
  <2>1. EnsureAllConditions(o.conds) \in Conditions
    BY <1>2, RolloutReasons, ConditionTypes DEF IsAddon
  <2>2. IsAddon(a, n)
    BY <1>2, <2>1, ConditionsWrite
  <2>3. n.phaseSel = o.phaseSel
    BY <1>2 DEF IsAddon
  <2>4. QED BY <2>2, <2>3
<1>4. CASE ~CheckDependencies(a) /\ worker' = [worker EXCEPT ![a] = W("status", Unmet, FALSE)]
  <2>1. w' = W("status", Unmet, FALSE)
    BY <1>2, <1>4
  <2>2. Unmet.phaseSel = o.phaseSel
    BY <1>3 DEF IsAddon
  <2>3. x.life = "absent" /\ Blocked(a)
    BY <1>2, <1>4 DEF CheckDependencies, Blocked, IsApp
  <2>4. Settled(a, o, x)'
    BY <1>1, <2>3 DEF Settled
  <2> HIDE DEF Unmet
  <2>5. w'.pc = "status" /\ w'.old = o /\ w'.new = Unmet
    BY <2>1
  <2> HIDE DEF w, o, x
  <2>6. QED BY <1>1, <2>2, <2>4, <2>5
<1>5. CASE worker' = [worker EXCEPT ![a] = W("status", Failed, FALSE)]
  <2>1. w' = W("status", Failed, FALSE)
    BY <1>2, <1>5
  <2>2. Failed.phaseSel = o.phaseSel /\ Failed.conds.degraded
    BY <1>3 DEF IsAddon, SetDegraded, Primary
  <2> HIDE DEF Failed
  <2>3. w'.pc = "status" /\ w'.old = o /\ w'.new = Failed
    BY <2>1
  <2> HIDE DEF w, o, x
  <2>4. QED BY <1>1, <2>2, <2>3
<1>6. CASE worker' = [worker EXCEPT ![a] = W("status", Waits, TRUE)]
  <2>1. w' = W("status", Waits, TRUE)
    BY <1>2, <1>6
  <2>2. Waits.phaseSel = o.phaseSel
    BY <1>3 DEF IsAddon
  <2> HIDE DEF Waits
  <2>3. w'.pc = "status" /\ w'.old = o /\ w'.new = Waits /\ w'.requeue = TRUE
    BY <2>1
  <2> HIDE DEF w, o, x
  <2>4. QED BY <1>1, <2>2, <2>3
<1>7. CASE worker' = [worker EXCEPT ![a] = W("apply", hashed, FALSE)]
  <2>1. w' = W("apply", hashed, FALSE)
    BY <1>2, <1>7
  <2>2. hashed.phaseSel = o.phaseSel /\ hashed.hash = m
    BY <1>3 DEF IsAddon
  <2> HIDE DEF hashed
  <2>3. w'.pc = "apply" /\ w'.old = o /\ w'.new = hashed
    BY <2>1
  <2> HIDE DEF w, o, x, m
  <2>4. QED BY <1>1, <2>2, <2>3 DEF m
<1>8. \/ ~CheckDependencies(a) /\ worker' = [worker EXCEPT ![a] = W("status", Unmet, FALSE)]
      \/ worker' = [worker EXCEPT ![a] = W("status", Failed, FALSE)]
      \/ worker' = [worker EXCEPT ![a] = W("status", Waits, TRUE)]
      \/ worker' = [worker EXCEPT ![a] = W("apply", hashed, FALSE)]
  <2>1. o.life # "absent"
    BY <1>1
  <2>2. QED BY <2>1 DEF Reconcile
<1> HIDE DEF Goal
<1>9. QED BY <1>4, <1>5, <1>6, <1>7, <1>8


\* What a reconcile concludes keeps the selectors and the hash, and a good
\* Application makes the Addon Ready.
LEMMA ConcludedSays ==
    ASSUME NEW a \in Addons, NEW n, IsAddon(a, n)
    PROVE  /\ Concluded(n).phaseSel = n.phaseSel /\ Concluded(n).hash = n.hash
           /\ n.good => Concluded(n).conds = SetReady("FullyReconciled")
BY DEF Concluded, IsAddon

\* A reconcile that came to the Application has changed it, or found it changed
\* since, or failed, or it is as it should be.
LEMMA CourseApply ==
    ASSUME TypeInv, Step, NEW a \in Addons, OnCourse(a), Apply(a)
    PROVE  OnCourse(a)'
<1> DEFINE o == Cached(addon[a])
           x == Cached(app[a])
           w == worker[a]
           n == w.new
           Failed == [n EXCEPT !.conds = SetDegraded("ApplicationFailed")]
           Good(g) == Concluded([n EXCEPT !.good = g])
           Goal == /\ w'.pc # "idle" => w'.old = o' /\ w'.new.phaseSel = o'.phaseSel
                   /\ w'.pc = "apply" => w'.new.hash = Aggregated(a, o)'
                   /\ w'.pc = "status" /\ w'.new = w'.old =>
                         \/ w'.requeue \/ w'.new.conds.degraded
                         \/ ~Current(app[a])' \/ Settled(a, o, x)'
                   /\ w'.pc = "idle" =>
                         ~Current(addon[a])' \/ ~Current(app[a])' \/ Settled(a, o, x)'
<1> SUFFICES ASSUME a \notin queue', o'.life = "live" PROVE Goal
  BY DEF OnCourse
<1>1. /\ o' = o /\ x' = x /\ Aggregated(a, o)' = Aggregated(a, o)
      /\ ~Current(app[a]) => ~Current(app[a])'
  BY ReadsKept
<1>2. /\ DOMAIN worker = Addons /\ DOMAIN app = Addons /\ IsApp(x) /\ w.pc = "apply"
      /\ WorkerInv(a, w, addon[a]) /\ AppHistory(app[a])
  BY StoredAndCached DEF TypeInv, Apply
<1>3. IsAddon(a, n) /\ w \in [pc : {"idle", "apply", "status"}, old : {w.old}, new : {w.new},
                              requeue : BOOLEAN]
  BY <1>2 DEF WorkerInv
<1>4. a \notin queue
  BY DEF Apply
<1>5. w.old = o /\ n.phaseSel = o.phaseSel /\ n.hash = Aggregated(a, o)
  BY <1>1, <1>2, <1>4 DEF OnCourse
<1>6. ASSUME NEW new, worker' = [worker EXCEPT ![a].pc = "status", ![a].new = new]
      PROVE  w'.pc = "status" /\ w'.old = o /\ w'.new = new
  <2>1. w' = [w EXCEPT !.pc = "status", !.new = new]
    BY <1>2, <1>6
  <2> HIDE DEF w
  <2>2. QED BY <1>3, <1>5, <2>1
<1>7. \A g \in BOOLEAN : /\ IsAddon(a, [n EXCEPT !.good = g])
                         /\ [n EXCEPT !.good = g].phaseSel = n.phaseSel
                         /\ [n EXCEPT !.good = g].hash = n.hash
                         /\ [n EXCEPT !.good = g].good = g
  BY <1>3 DEF IsAddon
<1>8. /\ \A g \in BOOLEAN : Good(g).phaseSel = n.phaseSel /\ Good(g).hash = n.hash
      /\ Concluded(n).phaseSel = n.phaseSel
      /\ Good(TRUE).conds = SetReady("FullyReconciled")
  <2>1. \A g \in BOOLEAN : Good(g).phaseSel = n.phaseSel /\ Good(g).hash = n.hash
    <3> TAKE g \in BOOLEAN
    <3> DEFINE k == [n EXCEPT !.good = g]
    <3>1. IsAddon(a, k) /\ k.phaseSel = n.phaseSel /\ k.hash = n.hash
      BY <1>7
    <3> HIDE DEF k
    <3>2. Concluded(k).phaseSel = k.phaseSel /\ Concluded(k).hash = k.hash
      BY <3>1, ConcludedSays
    <3>3. QED BY <3>1, <3>2 DEF k
  <2>2. Concluded(n).phaseSel = n.phaseSel
    BY <1>3, ConcludedSays
  <2>3. Good(TRUE).conds = SetReady("FullyReconciled")
    <3> DEFINE k == [n EXCEPT !.good = TRUE]
    <3>1. IsAddon(a, k) /\ k.good
      BY <1>7
    <3> HIDE DEF k
    <3>2. Concluded(k).conds = SetReady("FullyReconciled")
      BY <3>1, ConcludedSays
    <3>3. QED BY <3>2 DEF k
  <2>4. QED BY <2>1, <2>2, <2>3
<1>9. ASSUME NEW y, CanWrite(app[a]) \/ Current(app[a]),
             app' = [app EXCEPT ![a] = Append(app[a], y)]
      PROVE  ~Current(app[a])'
  <2> DEFINE h == app[a]
             S == Copies(h) \union {y}
  <2>1. h \in Versions(S) /\ y \in S
    BY <1>2 DEF AppHistory, Versions
  <2>2. h' = Append(h, y)
    BY <1>2, <1>9
  <2> HIDE DEF h, S
  <2>3. ~Current(Append(h, y))
    BY <1>9, <2>1, VersionsAppend DEF h
  <2>4. QED BY <2>2, <2>3 DEF h, Current
<1>10. ASSUME NEW new, worker' = [worker EXCEPT ![a].pc = "status", ![a].new = new],
              new.phaseSel = n.phaseSel,
              new = o => new.conds.degraded \/ ~Current(app[a])' \/ Settled(a, o, x)'
       PROVE  Goal
  <2>1. w'.pc = "status" /\ w'.old = o /\ w'.new = new
    BY <1>6, <1>10
  <2> HIDE DEF w, o, x
  <2>2. QED BY <1>1, <1>5, <1>10, <2>1
<1> HIDE DEF Goal
<1>11. CASE /\ CanWrite(app[a]) \/ Current(app[a])
            /\ app' = [app EXCEPT ![a] = Append(@, NewApp(n.hash))]
            /\ worker' = [worker EXCEPT ![a].pc = "status", ![a].new = Good(FALSE)]
  <2>1. ~Current(app[a])'
    BY <1>9, <1>11
  <2>2. QED BY <1>8, <1>10, <1>11, <2>1
<1>12. CASE /\ x.life = "absent" /\ Stored(app[a]).life = "live"
            /\ worker' = [worker EXCEPT ![a].pc = "status", ![a].new = Concluded(n)]
  <2>1. ~Current(app[a])
    <3>1. Current(app[a]) => Stored(app[a]) = Cached(app[a])
      BY <1>2, VersionsEnds DEF AppHistory
    <3>2. QED BY <1>12, <3>1
  <2>2. QED BY <1>1, <1>8, <1>10, <1>12, <2>1
<1>13. CASE /\ x.life = "live" /\ x.spec = n.hash
            /\ worker' = [worker EXCEPT ![a].pc = "status", ![a].new = Good(x.good)]
  <2>1. x.good \in BOOLEAN
    BY <1>2 DEF IsApp
  <2>2. Good(x.good) = o => Settled(a, o, x)'
    <3> SUFFICES ASSUME Good(x.good) = o PROVE Settled(a, o, x)'
      OBVIOUS
    <3>1. o.hash = n.hash
      BY <1>8, <2>1
    <3>2. x.good => o.conds = SetReady("FullyReconciled")
      <4>1. CASE x.good = TRUE
        BY <1>8, <4>1
      <4>2. QED BY <2>1, <4>1
    <3> DEFINE m == Aggregated(a, o)
    <3>3. m' = m /\ n.hash = m
      BY <1>1, <1>5
    <3>4. /\ x'.life = "live" /\ x'.spec = m' /\ o'.hash = x'.spec
          /\ x'.good => o'.conds = SetReady("FullyReconciled")
      <4> HIDE DEF o, x, n, m
      <4>1. QED BY <1>1, <1>13, <3>1, <3>2, <3>3
    <3>5. QED BY <3>4 DEF Settled
  <2>3. QED BY <1>8, <1>10, <1>13, <2>1, <2>2
<1>14. CASE worker' = [worker EXCEPT ![a].pc = "status", ![a].new = Failed]
  <2>1. Failed.phaseSel = n.phaseSel /\ Failed.conds.degraded
    BY <1>3 DEF IsAddon, SetDegraded, Primary
  <2> HIDE DEF Failed
  <2>2. QED BY <1>10, <1>14, <2>1
<1>15. QED
  <2>1. \/ /\ CanWrite(app[a]) \/ Current(app[a])
           /\ app' = [app EXCEPT ![a] = Append(@, NewApp(n.hash))]
           /\ worker' = [worker EXCEPT ![a].pc = "status", ![a].new = Good(FALSE)]
        \/ /\ x.life = "absent" /\ Stored(app[a]).life = "live"
           /\ worker' = [worker EXCEPT ![a].pc = "status", ![a].new = Concluded(n)]
        \/ /\ x.life = "live" /\ x.spec = n.hash
           /\ worker' = [worker EXCEPT ![a].pc = "status", ![a].new = Good(x.good)]
        \/ worker' = [worker EXCEPT ![a].pc = "status", ![a].new = Failed]
    BY DEF Apply
  <2>2. QED BY <1>11, <1>12, <1>13, <1>14, <2>1


\* A reconcile that ends has written the status, so that an event is to come, or
\* had nothing to write.
LEMMA CourseStatus ==
    ASSUME TypeInv, Step, NEW a \in Addons, OnCourse(a), UpdateStatus(a)
    PROVE  OnCourse(a)'
<1> DEFINE o == Cached(addon[a])
           x == Cached(app[a])
           w == worker[a]
           s == Stored(addon[a]).phaseSel
           new == [w.new EXCEPT !.phaseSel = s]
           Rests == ~Current(addon[a])' \/ ~Current(app[a])' \/ Settled(a, o, x)'
           Goal == /\ w'.pc # "idle" => w'.old = o' /\ w'.new.phaseSel = o'.phaseSel
                   /\ w'.pc = "apply" => w'.new.hash = Aggregated(a, o)'
                   /\ w'.pc = "status" /\ w'.new = w'.old =>
                         \/ w'.requeue \/ w'.new.conds.degraded
                         \/ ~Current(app[a])' \/ Settled(a, o, x)'
                   /\ w'.pc = "idle" => Rests
<1> SUFFICES ASSUME a \notin queue', o'.life = "live" PROVE Goal
  BY DEF OnCourse
<1>1. o' = o /\ (~Current(app[a]) => ~Current(app[a])')
  BY ReadsKept
<1>2. DOMAIN worker = Addons /\ DOMAIN addon = Addons /\ WorkerInv(a, w, addon[a])
  BY DEF TypeInv
<1>3. w.pc = "status" /\ a \notin queue /\ ~w.requeue /\ ~w.new.conds.degraded
  BY DEF UpdateStatus
<1>4. /\ w.old = o /\ w.new.phaseSel = o.phaseSel
      /\ w.new = w.old => ~Current(app[a]) \/ Settled(a, o, x)
  BY <1>1, <1>3 DEF OnCourse
<1>5. w'.pc = "idle"
  <2>1. w' = Idle
    BY <1>2 DEF UpdateStatus
  <2>2. QED BY <2>1 DEF Idle
<1>6. ASSUME w.new = w.old PROVE Rests
  <2>1. Settled(a, o, x) => Settled(a, o, x)'
    BY SettledKept
  <2>2. QED BY <1>1, <1>4, <1>6, <2>1
<1>7. ASSUME w.new # w.old, CanWrite(addon[a]),
             addon' = [addon EXCEPT ![a] = Written(addon[a], new)]
      PROVE  ~Current(addon[a])'
  <2> DEFINE h == addon[a]
             S == Copies(h) \union {new}
  <2>1. h \in Versions(Copies(h)) /\ h \in Versions(S) /\ new \in S
    BY StoredAndCached DEF AddonHistory, Versions
  <2>2. h' = Written(h, new)
    BY <1>2, <1>7
  <2>3. CASE new = Stored(h)
    <3>1. h' = h
      BY <2>2, <2>3 DEF Written
    <3>2. Current(h) => Stored(h) = o
      BY <2>1, VersionsEnds
    <3>3. w.new = [w.new EXCEPT !.phaseSel = w.new.phaseSel]
      BY <1>2, <1>3 DEF WorkerInv, IsAddon
    <3>4. ~Current(h)
      <4> SUFFICES ASSUME Current(h) PROVE FALSE
        OBVIOUS
      <4>1. s = w.new.phaseSel /\ new = o
        BY <1>4, <2>3, <3>2
      <4>2. QED BY <1>4, <1>7, <3>3, <4>1
    <3>5. QED BY <3>1, <3>4 DEF Current
  <2>4. CASE new # Stored(h)
    <3>1. h' = Append(h, new)
      BY <2>2, <2>4 DEF Written
    <3> HIDE DEF h, S, new
    <3>2. ~Current(Append(h, new))
      BY <1>7, <2>1, VersionsAppend DEF h
    <3>3. QED BY <3>1, <3>2 DEF h, Current
  <2>5. QED BY <2>3, <2>4
<1>8. Rests
  <2>1. \/ w.new = w.old
        \/ /\ w.new # w.old /\ CanWrite(addon[a])
           /\ addon' = [addon EXCEPT ![a] = Written(addon[a], new)]
    BY DEF UpdateStatus
  <2>2. QED BY <1>6, <1>7, <2>1
<1> HIDE DEF Rests, w
<1>9. QED BY <1>5, <1>8

LEMMA CourseStep == TypeInv /\ CourseInv /\ [Next]_vars => CourseInv'
<1>1. ASSUME CourseInv, UNCHANGED vars PROVE CourseInv'
  <2> SUFFICES ASSUME NEW a \in Addons PROVE OnCourse(a)'
    BY DEF CourseInv
  <2>1. OnCourse(a)
    BY <1>1 DEF CourseInv
  <2>2. /\ addon' = addon /\ app' = app /\ store' = store /\ external' = external
        /\ scenario' = scenario /\ queue' = queue /\ worker' = worker
    BY <1>1 DEF vars
  <2>3. Blocked(a)' <=> Blocked(a)
    BY <2>2 DEF Blocked, checkDependency, Object
  <2>4. QED BY <2>1, <2>2, <2>3 DEF OnCourse, Settled, Aggregated
<1>2. ASSUME TypeInv, CourseInv, Step PROVE CourseInv'
  <2> SUFFICES ASSUME NEW a \in Addons PROVE OnCourse(a)'
    BY DEF CourseInv
  <2>1. OnCourse(a)
    BY <1>2 DEF CourseInv
  <2>2. CASE ~WorkerStep(a)
    BY <1>2, <2>1, <2>2, CourseKept
  <2>3. CASE Reconcile(a)
    BY <1>2, <2>3, CourseReconcile
  <2>4. CASE Apply(a)
    BY <1>2, <2>1, <2>4, CourseApply
  <2>5. CASE UpdateStatus(a)
    BY <1>2, <2>1, <2>5, CourseStatus
  <2>6. QED BY <2>2, <2>3, <2>4, <2>5 DEF WorkerStep
<1>3. QED BY <1>1, <1>2 DEF Next

\* With no event to come, an Addon that has nothing to do is as it should be.
LEMMA CourseRests == TypeInv /\ ValuesInv /\ CourseInv => RolloutAtRest
<1> SUFFICES ASSUME TypeInv, ValuesInv, CourseInv, Quiescent, NEW a \in Addons,
                    Stored(addon[a]).life = "live"
             PROVE  LET o == Stored(addon[a])
                    IN  IF Stored(app[a]).life = "absent"
                        THEN \/ \E b \in Dependencies[a] :
                                   ~SurelyMeets(scenario.criterion, Stored(addon[b]))
                             \/ scenario.criterion.source = "external" /\ Dependencies[a] # {}
                        ELSE /\ Leaves(Stored(app[a]).spec.values) =
                                    ExpectedLeaves(collectSelectors(a, o), Stored(store))
                             /\ o.hash = Stored(app[a]).spec
                             /\ o.conds = SetReady("FullyReconciled")
  BY DEF RolloutAtRest
<1> DEFINE o == Stored(addon[a])
           x == Stored(app[a])
           sel == collectSelectors(a, o)
<1>1. \A b \in Addons : Cached(addon[b]) = Stored(addon[b])
  BY VersionsEnds DEF TypeInv, AddonHistory, Quiescent
<1>2. Cached(app[a]) = x
  BY VersionsEnds DEF TypeInv, AppHistory, Quiescent
<1>3. Cached(store) = Stored(store) /\ IsStore(Stored(store))
  BY VersionsEnds DEF TypeInv, ValuesInv, Quiescent
<1>4. IsApp(x) /\ IsAddon(a, o)
  BY StoredAndCached
<1>5. Settled(a, o, x)
  <2>1. /\ a \notin queue /\ worker[a].pc = "idle" /\ Current(addon[a]) /\ Current(app[a])
        /\ OnCourse(a) /\ Cached(addon[a]) = o
    BY <1>1 DEF Quiescent, CourseInv
  <2>2. QED BY <1>2, <2>1 DEF OnCourse
<1>6. CASE x.life = "absent"
  <2>1. Blocked(a)
    BY <1>5, <1>6 DEF Settled
  <2>2. Dependencies[a] \subseteq Addons
    BY RolloutAssumption
  <2>3. \A b \in Dependencies[a] :
            SurelyMeets(scenario.criterion, Stored(addon[b])) => checkDependency(b)
    BY <1>1, <2>2, CheckExact
  <2>4. QED BY <1>6, <2>1, <2>3 DEF Blocked
<1>7. CASE x.life # "absent"
  <2>1. x.life = "live" /\ x.good
    BY <1>4, <1>7 DEF IsApp, Quiescent
  <2>2. x.spec = Aggregated(a, o) /\ o.hash = x.spec /\ o.conds = SetReady("FullyReconciled")
    BY <1>5, <2>1 DEF Settled
  <2>3. x.spec.values = AggregateValues(sel, Stored(store))
    BY <1>3, <2>2 DEF Aggregated, Known
  <2>4. IsSelectors(sel)
    BY <1>4, SelectorsListed
  <2> HIDE DEF sel
  <2>5. Leaves(AggregateValues(sel, Stored(store))) = ExpectedLeaves(sel, Stored(store))
    BY <1>3, <2>4, MergeExact
  <2>6. QED BY <1>7, <2>2, <2>3, <2>5 DEF sel
<1>8. QED BY <1>6, <1>7

\* For any Addons, dependencies, selectors and AddonValues, and any lag of the
\* caches: whenever everything has come to rest, an Addon without Application has
\* an unmet or contested dependency or one that nobody watches, and one with an
\* Application runs with exactly the values that selectors and AddonValues now call for and is
\* Ready.  No change of an AddonValue, a selector, a dependency or an Application
\* is lost (FindAddonsForAddonValue, findDependentAddons, Reconcile, updateStatus,
\* AggregateValues).
THEOREM RolloutRests == Spec => []RolloutAtRest
<1>1. Spec => []TypeInv
  BY TypeInit, TypeStep, PTL DEF Spec
<1>2. Spec => []ValuesInv
  BY <1>1, ValuesInit, ValuesStep, PTL DEF Spec
<1>3. Spec => []CourseInv
  BY <1>1, CourseInit, CourseStep, PTL DEF Spec
<1>4. QED BY <1>1, <1>2, <1>3, CourseRests, PTL


=============================================================================
