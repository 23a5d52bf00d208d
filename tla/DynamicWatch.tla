---------------------------- MODULE DynamicWatch ----------------------------
(***************************************************************************)
(* Dynamic watches of the Addon controller.                                *)
(*                                                                         *)
(* Addons name arbitrary Kubernetes kinds (GVKs) in spec.valuesSources.    *)
(* Every reconcile diffs the kinds an Addon names against the kinds the    *)
(* Tracker recorded for it, takes one reference per added kind from the    *)
(* WatchManager and gives one back per removed kind.  Tracker and manager  *)
(* have a mutex each and are entered and left once per kind, so workers    *)
(* reconciling different Addons interleave between any two of those calls. *)
(* controller-runtime runs at most one worker per Addon at a time, hence   *)
(* one worker record per Addon.                                            *)
(***************************************************************************)
EXTENDS Integers, FiniteSets

CONSTANTS
    Addons,       \* Addon UIDs; a UID is never used again
    GVKs,         \* kinds an Addon may name
    Bootstrap,    \* kinds watched from start-up on (Secret, ConfigMap)
    WatchErrors,  \* may controller.Watch fail with something but "no match"?
    MaxEdits      \* bound on the edits of spec.valuesSources

ASSUME ConstantsAssumption ==
    /\ IsFiniteSet(Addons)
    /\ Bootstrap \subseteq GVKs
    /\ WatchErrors \in BOOLEAN
    /\ MaxEdits \in Nat

VARIABLES
    obj,       \* the Addon objects in the API server
    cached,    \* the copy of each Addon in the informer cache
    crds,      \* kinds the API server serves
    tracker,   \* tracker.addonGVKs
    watches,   \* manager.watches
    sources,   \* kinds with a running event source (controller.Watch is for ever)
    worker,    \* the reconcile in progress for each Addon
    edits      \* edits so far

vars == <<obj, cached, crds, tracker, watches, sources, worker, edits>>

Object == [life : {"absent", "live", "deleting", "gone"},
           fin  : BOOLEAN,
           gvks : SUBSET GVKs]

\* "No entry in the map", and what an entry is.
NoEntry == [refs |-> 0, state |-> "none"]

WatchEntry == {NoEntry} \union [refs : Nat \ {0}, state : {"pending", "active"}]

\* What a worker holds between two calls: the copy of the Addon it works on,
\* and what is left of the loops over added, removed and pending kinds.
Worker == [pc : {"idle", "watches", "retry", "failed", "cleanup"}, addon : Object,
           added : SUBSET GVKs, removed : SUBSET GVKs, pending : SUBSET GVKs]

Absent == [life |-> "absent", fin |-> FALSE, gvks |-> {}]

Idle == [pc |-> "idle", addon |-> Absent,
         added |-> {}, removed |-> {}, pending |-> {}]

\* One type invariant: every map and every local variable of a worker holds
\* what its Go type says, and the manager keeps no entry nobody references.
TypeOK ==
    /\ obj \in [Addons -> Object]
    /\ cached \in [Addons -> Object]
    /\ crds \in SUBSET GVKs
    /\ tracker \in [Addons -> SUBSET GVKs]
    /\ watches \in [GVKs -> WatchEntry]
    /\ sources \in SUBSET GVKs
    /\ worker \in [Addons -> Worker]
    /\ edits \in 0..MaxEdits

\* SetupWithManager leaves one reference on each core kind.
Init ==
    /\ obj = [a \in Addons |-> Absent]
    /\ cached = [a \in Addons |-> Absent]
    /\ crds \in {C \in SUBSET GVKs : Bootstrap \subseteq C}
    /\ tracker = [a \in Addons |-> {}]
    /\ watches = [g \in GVKs |-> IF g \in Bootstrap
                                 THEN [refs |-> 1, state |-> "active"]
                                 ELSE NoEntry]
    /\ sources = Bootstrap
    /\ worker = [a \in Addons |-> Idle]
    /\ edits = 0

-----------------------------------------------------------------------------
(* The environment: users, the informer, CRD installation. *)

CreateAddon(a) ==
    /\ obj[a].life = "absent"
    /\ \E S \in SUBSET GVKs :
          obj' = [obj EXCEPT ![a] = [life |-> "live", fin |-> FALSE, gvks |-> S]]
    /\ UNCHANGED <<cached, crds, tracker, watches, sources, worker, edits>>

EditSources(a) ==
    /\ obj[a].life = "live"
    /\ edits < MaxEdits
    /\ \E S \in SUBSET GVKs \ {obj[a].gvks} : obj' = [obj EXCEPT ![a].gvks = S]
    /\ edits' = edits + 1
    /\ UNCHANGED <<cached, crds, tracker, watches, sources, worker>>

\* An object without finalizers disappears with the delete call.
DeleteAddon(a) ==
    /\ obj[a].life = "live"
    /\ obj' = [obj EXCEPT ![a].life = IF obj[a].fin THEN "deleting" ELSE "gone"]
    /\ UNCHANGED <<cached, crds, tracker, watches, sources, worker, edits>>

SyncCache(a) ==
    /\ cached[a] # obj[a]
    /\ cached' = [cached EXCEPT ![a] = obj[a]]
    /\ UNCHANGED <<obj, crds, tracker, watches, sources, worker, edits>>

InstallCRD(g) ==
    /\ g \notin crds
    /\ crds' = crds \union {g}
    /\ UNCHANGED <<obj, cached, tracker, watches, sources, worker, edits>>

-----------------------------------------------------------------------------
(* WatchManager: one critical section of manager.mu per operator.  The     *)
(* operators named Mut... are faulty variants of the one that follows; no  *)
(* action uses them.  They show which property notices which mistake.      *)

\* EnsureWatch on a kind that already has an entry.
Referenced(g) ==
    [watches EXCEPT ![g].refs = watches[g].refs + 1]

MutStartedActiveOnly(g, s) ==
    IF s = "pending" THEN watches
    ELSE [watches EXCEPT ![g] = [refs |-> 1, state |-> s]]

\* EnsureWatch on a kind without an entry, controller.Watch answered s.
Started(g, s) ==
    [watches EXCEPT ![g] = [refs |-> 1, state |-> s]]

MutReleasedKeepsZero(g) ==
    [watches EXCEPT ![g].refs = IF watches[g].refs = 0 THEN 0 ELSE watches[g].refs - 1]

MutReleasedAtOnce(g) == [watches EXCEPT ![g] = NoEntry]

\* ReleaseWatch: an unknown kind is ignored, the last reference drops the entry.
Released(g) ==
    [watches EXCEPT ![g] =
        IF watches[g].refs <= 1 THEN NoEntry
        ELSE [watches[g] EXCEPT !.refs = watches[g].refs - 1]]

MutNoPending == {g \in GVKs : watches[g].state = "active"}

GetPendingGVKs == {g \in GVKs : watches[g].state = "pending"}

-----------------------------------------------------------------------------
(* One reconcile of Addon a, from the read of the Addon to its return. *)

MutReconcileNoDiff(a) ==
    /\ worker[a].pc = "idle"
    /\ cached[a].life \in {"live", "deleting"}
    /\ worker' = [worker EXCEPT ![a] =
            [pc |-> "watches", addon |-> cached[a],
             added |-> cached[a].gvks,
             removed |-> tracker[a] \ cached[a].gvks,
             pending |-> {}]]
    /\ tracker' = [tracker EXCEPT ![a] = cached[a].gvks]
    /\ UNCHANGED <<obj, cached, crds, watches, sources, edits>>

\* Get from the cache, then Tracker.SetGVKs in one critical section.
Reconcile(a) ==
    /\ worker[a].pc = "idle"
    /\ cached[a].life \in {"live", "deleting"}
    /\ worker' = [worker EXCEPT ![a] =
            [pc |-> "watches", addon |-> cached[a],
             added |-> cached[a].gvks \ tracker[a],
             removed |-> tracker[a] \ cached[a].gvks,
             pending |-> {}]]
    /\ tracker' = [tracker EXCEPT ![a] = cached[a].gvks]
    /\ UNCHANGED <<obj, cached, crds, watches, sources, edits>>

\* EnsureWatch succeeds: by reference, by a new watch, or by a pending entry
\* when the kind is not served yet.
EnsureWatch(a, g) ==
    /\ worker[a].pc = "watches" /\ g \in worker[a].added
    /\ worker' = [worker EXCEPT ![a].added = worker[a].added \ {g}]
    /\ \/ /\ watches[g].refs > 0
          /\ watches' = Referenced(g)
          /\ UNCHANGED sources
       \/ /\ watches[g].refs = 0 /\ g \in crds
          /\ watches' = Started(g, "active")
          /\ sources' = sources \union {g}
       \/ /\ watches[g].refs = 0 /\ g \notin crds
          /\ watches' = Started(g, "pending")
          /\ UNCHANGED sources
    /\ UNCHANGED <<obj, cached, crds, tracker, edits>>

\* EnsureWatch fails: updateDynamicWatches returns at once, its caller logs
\* the error and goes on with the reconcile.
EnsureWatchFails(a, g) ==
    /\ WatchErrors
    /\ worker[a].pc = "watches" /\ g \in worker[a].added
    /\ watches[g].refs = 0
    /\ worker' = [worker EXCEPT ![a].pc = "failed", ![a].added = {}, ![a].removed = {}]
    /\ UNCHANGED <<obj, cached, crds, tracker, watches, sources, edits>>

ReleaseWatch(a, g) ==
    /\ worker[a].pc = "watches" /\ worker[a].added = {} /\ g \in worker[a].removed
    /\ worker' = [worker EXCEPT ![a].removed = worker[a].removed \ {g}]
    /\ watches' = Released(g)
    /\ UNCHANGED <<obj, cached, crds, tracker, sources, edits>>

ListPending(a) ==
    /\ worker[a].pc = "watches" /\ worker[a].added = {} /\ worker[a].removed = {}
    /\ worker' = [worker EXCEPT ![a].pc = "retry", ![a].pending = GetPendingGVKs]
    /\ UNCHANGED <<obj, cached, crds, tracker, watches, sources, edits>>

\* The list of pending kinds was taken in an earlier critical section, so the
\* entry may meanwhile be active or gone: then there is nothing to retry.
RetryPendingWatch(a, g) ==
    /\ worker[a].pc = "retry" /\ g \in worker[a].pending
    /\ worker' = [worker EXCEPT ![a].pending = worker[a].pending \ {g}]
    /\ \/ /\ watches[g].state = "pending" /\ g \in crds
          /\ watches' = [watches EXCEPT ![g].state = "active"]
          /\ sources' = sources \union {g}
       \/ /\ watches[g].state # "pending" \/ g \notin crds
          /\ UNCHANGED <<watches, sources>>
    /\ UNCHANGED <<obj, cached, crds, tracker, edits>>

\* The kind is served and controller.Watch fails all the same: logged, and the
\* loop goes on.
RetryPendingFails(a, g) ==
    /\ WatchErrors
    /\ worker[a].pc = "retry" /\ g \in worker[a].pending
    /\ watches[g].state = "pending" /\ g \in crds
    /\ worker' = [worker EXCEPT ![a].pending = worker[a].pending \ {g}]
    /\ UNCHANGED <<obj, cached, crds, tracker, watches, sources, edits>>

\* updateDynamicWatches returned, with or without an error.
WatchesDone(a) ==
    \/ worker[a].pc = "retry" /\ worker[a].pending = {}
    \/ worker[a].pc = "failed"

\* ensureFinalizer.  The update carries the resourceVersion of the cached
\* copy: it goes through only if that copy is still the stored object.
EnsureFinalizer(a) ==
    /\ WatchesDone(a)
    /\ worker[a].addon.life = "live"
    /\ obj' = IF ~worker[a].addon.fin /\ ~cached[a].fin /\ cached[a] = obj[a]
                 /\ obj[a].life = "live"
              THEN [obj EXCEPT ![a].fin = TRUE]
              ELSE obj
    /\ worker' = [worker EXCEPT ![a] = Idle]
    /\ UNCHANGED <<cached, crds, tracker, watches, sources, edits>>

\* cleanupWatchesForAddon: Tracker.RemoveAddon, then a release per kind.
RemoveAddon(a) ==
    /\ WatchesDone(a)
    /\ worker[a].addon.life = "deleting"
    /\ worker' = [worker EXCEPT ![a].pc = "cleanup", ![a].removed = tracker[a]]
    /\ tracker' = [tracker EXCEPT ![a] = {}]
    /\ UNCHANGED <<obj, cached, crds, watches, sources, edits>>

CleanupRelease(a, g) ==
    /\ worker[a].pc = "cleanup" /\ g \in worker[a].removed
    /\ worker' = [worker EXCEPT ![a].removed = worker[a].removed \ {g}]
    /\ watches' = Released(g)
    /\ UNCHANGED <<obj, cached, crds, tracker, sources, edits>>

\* The rest of reconcileDelete: wait for the Application (requeue), or remove
\* the finalizer, which a stale cached copy cannot do.
FinishDelete(a) ==
    /\ worker[a].pc = "cleanup" /\ worker[a].removed = {}
    /\ worker' = [worker EXCEPT ![a] = Idle]
    /\ \/ UNCHANGED obj
       \/ /\ worker[a].addon.fin /\ cached[a] = obj[a] /\ obj[a].life = "deleting"
          /\ obj' = [obj EXCEPT ![a].fin = FALSE, ![a].life = "gone"]
    /\ UNCHANGED <<cached, crds, tracker, watches, sources, edits>>

-----------------------------------------------------------------------------

WorkerStep(a) ==
    \/ Reconcile(a)
    \/ \E g \in GVKs : EnsureWatch(a, g) \/ EnsureWatchFails(a, g)
    \/ \E g \in GVKs : ReleaseWatch(a, g)
    \/ ListPending(a)
    \/ \E g \in GVKs : RetryPendingWatch(a, g) \/ RetryPendingFails(a, g)
    \/ EnsureFinalizer(a)
    \/ RemoveAddon(a)
    \/ \E g \in GVKs : CleanupRelease(a, g)
    \/ FinishDelete(a)

Next ==
    \/ \E a \in Addons : CreateAddon(a) \/ EditSources(a) \/ DeleteAddon(a)
    \/ \E a \in Addons : SyncCache(a)
    \/ \E g \in GVKs : InstallCRD(g)
    \/ \E a \in Addons : WorkerStep(a)

Spec == Init /\ [][Next]_vars

\* A worker that holds an Addon finishes its reconcile; the informer delivers;
\* and an Addon that is in the cache is reconciled again and again: while one
\* of its sources cannot be read it is Degraded, and a Degraded Addon is
\* requeued every requeueIntervalDegraded.  (One that is paused or waits for
\* dependencies is reconciled by the informer's resync only; until then nothing
\* needs the watch.)  controller.Watch on a served kind does not fail for ever.
Fairness ==
    \A a \in Addons :
        /\ WF_vars(WorkerStep(a))
        /\ WF_vars(SyncCache(a))
        /\ \A g \in GVKs : SF_vars(RetryPendingWatch(a, g))

FairSpec == Spec /\ Fairness

-----------------------------------------------------------------------------
(* Properties. *)

\* The kinds Addon a holds a reference on right now: those the tracker records
\* for it and that its worker has already ensured, and those its worker has
\* yet to release.
Holds(a) == (tracker[a] \ worker[a].added) \union worker[a].removed

Holders(g) == {a \in Addons : g \in Holds(a)}

BootstrapRefs(g) == IF g \in Bootstrap THEN 1 ELSE 0

\* The reference count of a kind is the number of Addons that hold a reference
\* on it, plus the one of SetupWithManager, in every interleaving of the
\* workers' SetGVKs, EnsureWatch, ReleaseWatch and RemoveAddon calls.  Without
\* it a release by one Addon drops the entry another Addon relies on.
RefCountExact ==
    \A g \in GVKs : watches[g].refs = BootstrapRefs(g) + Cardinality(Holders(g))

\* When updateDynamicWatches has gone through its loops without an error, every
\* kind the Addon names has an entry, active or pending.
WatchedAfterUpdate ==
    \A a \in Addons : worker[a].pc = "retry" =>
        \A g \in tracker[a] : watches[g].refs > 0

\* A kind that was pending because its CRD was missing does not stay pending
\* after the CRD is installed, as long as an Addon that is not deleted names it
\* (RetryPendingWatch at the end of every updateDynamicWatches), even if
\* controller.Watch fails now and then.  When it does, the entry may end up gone
\* rather than active, because a failed EnsureWatch spoils the counts.
PendingResolves ==
    \A a \in Addons, g \in GVKs :
        (g \in crds /\ watches[g].state = "pending" /\ g \in tracker[a])
            ~> (\/ watches[g].state # "pending"
                \/ g \notin tracker[a]
                \/ obj[a].life # "live")

-----------------------------------------------------------------------------
(* Refinement. *)

Registered == {g \in GVKs : watches[g].refs > 0}

Leases == INSTANCE WatchLeases
    WITH held <- [a \in Addons |-> Holds(a)], registered <- Registered

\* Tracker and WatchManager together implement leases: every critical section
\* is one lease taken, one lease given back, or nothing, and the entries of the
\* manager are exactly the kinds somebody has a lease on.
ImplementsLeases == Leases!Spec

=============================================================================
