---------------------------- MODULE RuleEvaluator ----------------------------
(***************************************************************************)
(* EvaluateRules and latchDeployedRules: what one reconcile of the phase   *)
(* makes of the rule statuses it read.  sat is the set of criteria that    *)
(* hold when they are evaluated; a criterion whose source object is        *)
(* missing does not hold.  Operators named Mut... are faulty variants of   *)
(* the definition that follows and used by no action.                      *)
(***************************************************************************)
EXTENDS Cluster

hasKeepableCriteria(r) == KeepCriteria[r] # {} \/ LiveCriteria[r] = {}

\* A latched rule skips its criteria with keep = true.
evaluateRule(r, sat, previouslyLatched) ==
    /\ LiveCriteria[r] \subseteq sat
    /\ previouslyLatched \/ KeepCriteria[r] \subseteq sat

EvaluateRules(previous, sat) ==
    [r \in Rules |->
        LET matched == evaluateRule(r, sat, previous[r].latched)
        IN  [matched |-> matched,
             latched |-> matched /\ hasKeepableCriteria(r),
             deployed |-> previous[r].deployed]]

ActiveSelectors(statuses) == {r \in Rules : statuses[r].matched}

MutSpeaksOf(a, selectors) == a.phaseSel = selectors /\ a.synced /\ a.healthy

\* The Synced and Healthy conditions of Addon a are true and were computed for
\* these selectors.
SpeaksOf(a, selectors) ==
    /\ a.phaseSel = selectors
    /\ a.observed # {} /\ a.observed = selectors
    /\ a.synced /\ a.healthy

latchDeployedRules(statuses, a) ==
    [r \in Rules |->
        [statuses[r] EXCEPT !.deployed =
            \/ statuses[r].deployed
            \/ statuses[r].matched /\ SpeaksOf(a, ActiveSelectors(statuses))]]

=============================================================================
