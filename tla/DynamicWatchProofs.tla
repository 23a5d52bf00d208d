------------------------- MODULE DynamicWatchProofs -------------------------
(***************************************************************************)
(* Proofs about DynamicWatch, for any finite set of Addons and any kinds.  *)
(***************************************************************************)
EXTENDS DynamicWatch, FiniteSetTheorems, TLAPS

-----------------------------------------------------------------------------
(* Type correctness. *)

\* The critical sections of the watch manager keep its map well-typed: a
\* release drops the entry together with its last reference.
LEMMA ManagerTypes ==
    ASSUME TypeOK, NEW g \in GVKs
    PROVE  /\ watches[g].refs > 0 => Referenced(g) \in [GVKs -> WatchEntry]
           /\ \A s \in {"pending", "active"} : Started(g, s) \in [GVKs -> WatchEntry]
           /\ Released(g) \in [GVKs -> WatchEntry]
<1> USE DEF TypeOK, WatchEntry, NoEntry
<1>1. watches[g].refs > 0 => Referenced(g) \in [GVKs -> WatchEntry]
  BY DEF Referenced
<1>2. \A s \in {"pending", "active"} : Started(g, s) \in [GVKs -> WatchEntry]
  BY DEF Started
<1>3. Released(g) \in [GVKs -> WatchEntry]
  BY DEF Released
<1>4. QED BY <1>1, <1>2, <1>3

\* A worker record stays well-typed when its fields are replaced by values of
\* their types.
LEMMA WorkerTypes ==
    ASSUME TypeOK, NEW a \in Addons
    PROVE  /\ Idle \in Worker
           /\ cached[a] \in Object
           /\ worker[a] \in Worker
           /\ tracker[a] \in SUBSET GVKs
BY DEF TypeOK, Idle, Absent, Worker, Object

\* Every step keeps the state well-typed.
LEMMA TypeStep == TypeOK /\ [Next]_vars => TypeOK'
<1> SUFFICES ASSUME TypeOK, [Next]_vars PROVE TypeOK'
  OBVIOUS
<1> USE ConstantsAssumption
<1>1. ASSUME NEW a \in Addons, CreateAddon(a) PROVE TypeOK'
  BY <1>1 DEF TypeOK, CreateAddon, Object
<1>2. ASSUME NEW a \in Addons, EditSources(a) PROVE TypeOK'
  BY <1>2 DEF TypeOK, EditSources, Object
<1>3. ASSUME NEW a \in Addons, DeleteAddon(a) PROVE TypeOK'
  <2>1. PICK l \in {"deleting", "gone"} : obj' = [obj EXCEPT ![a].life = l]
    BY <1>3, Zenon DEF DeleteAddon
  <2>2. obj' \in [Addons -> Object]
    BY <2>1 DEF TypeOK, Object
  <2>3. QED BY <1>3, <2>2 DEF TypeOK, DeleteAddon
<1>4. ASSUME NEW a \in Addons, SyncCache(a) PROVE TypeOK'
  BY <1>4 DEF TypeOK, SyncCache
<1>5. ASSUME NEW g \in GVKs, InstallCRD(g) PROVE TypeOK'
  BY <1>5 DEF TypeOK, InstallCRD
<1>6. ASSUME NEW a \in Addons, Reconcile(a) PROVE TypeOK'
  <2>1. cached[a] \in Object /\ cached[a].gvks \in SUBSET GVKs /\ tracker[a] \in SUBSET GVKs
    BY DEF TypeOK, Object
  <2>2. [pc |-> "watches", addon |-> cached[a],
         added |-> cached[a].gvks \ tracker[a],
         removed |-> tracker[a] \ cached[a].gvks, pending |-> {}] \in Worker
    BY <2>1 DEF Worker
  <2>3. QED BY <1>6, <2>1, <2>2 DEF TypeOK, Reconcile
<1>7. ASSUME NEW a \in Addons, NEW g \in GVKs, EnsureWatch(a, g) PROVE TypeOK'
  BY <1>7, WorkerTypes, ManagerTypes, ZenonT(60) DEF TypeOK, EnsureWatch, Worker
<1>8. ASSUME NEW a \in Addons, NEW g \in GVKs, EnsureWatchFails(a, g) PROVE TypeOK'
  BY <1>8, WorkerTypes DEF TypeOK, EnsureWatchFails, Worker
<1>9. ASSUME NEW a \in Addons, NEW g \in GVKs, ReleaseWatch(a, g) PROVE TypeOK'
  BY <1>9, WorkerTypes, ManagerTypes, ZenonT(60) DEF TypeOK, ReleaseWatch, Worker
<1>10. ASSUME NEW a \in Addons, ListPending(a) PROVE TypeOK'
  BY <1>10, WorkerTypes, ZenonT(60) DEF TypeOK, ListPending, GetPendingGVKs, Worker
<1>11. ASSUME NEW a \in Addons, NEW g \in GVKs, RetryPendingWatch(a, g) PROVE TypeOK'
  <2>1. worker' \in [Addons -> Worker]
    BY <1>11, WorkerTypes DEF TypeOK, RetryPendingWatch, Worker
  <2>2. watches' \in [GVKs -> WatchEntry] /\ sources' \in SUBSET GVKs
    BY <1>11 DEF TypeOK, RetryPendingWatch, WatchEntry, NoEntry
  <2>3. QED BY <2>1, <2>2, <1>11 DEF TypeOK, RetryPendingWatch
<1>12. ASSUME NEW a \in Addons, NEW g \in GVKs, RetryPendingFails(a, g) PROVE TypeOK'
  BY <1>12, WorkerTypes DEF TypeOK, RetryPendingFails, Worker
<1>13. ASSUME NEW a \in Addons, EnsureFinalizer(a) PROVE TypeOK'
  BY <1>13, WorkerTypes DEF TypeOK, EnsureFinalizer, Object
<1>14. ASSUME NEW a \in Addons, RemoveAddon(a) PROVE TypeOK'
  BY <1>14, WorkerTypes, ZenonT(60) DEF TypeOK, RemoveAddon, Worker
<1>15. ASSUME NEW a \in Addons, NEW g \in GVKs, CleanupRelease(a, g) PROVE TypeOK'
  BY <1>15, WorkerTypes, ManagerTypes, ZenonT(60) DEF TypeOK, CleanupRelease, Worker
<1>16. ASSUME NEW a \in Addons, FinishDelete(a) PROVE TypeOK'
  BY <1>16, WorkerTypes DEF TypeOK, FinishDelete, Object
<1>17. CASE UNCHANGED vars
  BY <1>17 DEF TypeOK, vars
<1>18. QED
  BY <1>1, <1>2, <1>3, <1>4, <1>5, <1>6, <1>7, <1>8, <1>9, <1>10, <1>11,
     <1>12, <1>13, <1>14, <1>15, <1>16, <1>17 DEF Next, WorkerStep

\* Every reachable state is well-typed; in particular the watch manager never
\* keeps an entry without references (ReleaseWatch).
THEOREM TypeCorrect == Spec => []TypeOK
<1>1. Init => TypeOK
  BY ConstantsAssumption
  DEF Init, TypeOK, Object, Worker, WatchEntry, NoEntry, Absent, Idle
<1>2. QED BY <1>1, TypeStep, PTL DEF Spec

-----------------------------------------------------------------------------
(* Reference counting. *)

\* What a worker's loop variables may hold at each place of a reconcile.  The
\* count is only meaningful together with it: a kind still to be ensured is
\* recorded by the tracker already, a kind still to be released no longer is.
LoopInv ==
    \A a \in Addons :
        /\ worker[a].added \subseteq tracker[a]
        /\ worker[a].removed \cap tracker[a] = {}
        /\ worker[a].pc # "watches" => worker[a].added = {}
        /\ worker[a].pc \notin {"watches", "cleanup"} => worker[a].removed = {}
        /\ worker[a].pc # "failed"

\* The inductive invariant.
CountInv == TypeOK /\ LoopInv /\ RefCountExact

\* The holders of a kind are finitely many, and their number changes by one
\* when one Addon starts or stops holding it.
LEMMA HoldersCount ==
    ASSUME NEW g \in GVKs, NEW a \in Addons
    PROVE  /\ IsFiniteSet(Holders(g))
           /\ Cardinality(Holders(g)) \in Nat
           /\ a \notin Holders(g) =>
                 Cardinality(Holders(g) \union {a}) = Cardinality(Holders(g)) + 1
           /\ a \in Holders(g) =>
                 /\ Cardinality(Holders(g) \ {a}) = Cardinality(Holders(g)) - 1
                 /\ Cardinality(Holders(g)) > 0
<1>1. IsFiniteSet(Holders(g))
  <2>1. Holders(g) \in SUBSET Addons
    BY DEF Holders
  <2>2. QED BY <2>1, FS_Subset, ConstantsAssumption
<1>2. Cardinality(Holders(g)) \in Nat
  BY <1>1, FS_CardinalityType
<1>3. a \notin Holders(g) =>
          Cardinality(Holders(g) \union {a}) = Cardinality(Holders(g)) + 1
  BY <1>1, FS_AddElement
<1>4. a \in Holders(g) =>
          Cardinality(Holders(g) \ {a}) = Cardinality(Holders(g)) - 1
  BY <1>1, FS_RemoveElement
<1>5. a \in Holders(g) => Cardinality(Holders(g)) > 0
  BY <1>1, <1>2, FS_EmptySet
<1>6. QED BY <1>1, <1>2, <1>3, <1>4, <1>5

\* A step that changes what one Addon holds by one kind, and the entry of that
\* kind by one reference, keeps the counts exact.
LEMMA AcquireCounts ==
    ASSUME TypeOK, RefCountExact, NEW a \in Addons, NEW g \in GVKs,
           g \notin Holds(a),
           Holds(a)' = Holds(a) \union {g},
           \A b \in Addons \ {a} : Holds(b)' = Holds(b),
           watches'[g].refs = watches[g].refs + 1,
           \A h \in GVKs \ {g} : watches'[h] = watches[h]
    PROVE  RefCountExact'
<1> SUFFICES ASSUME NEW h \in GVKs
             PROVE  watches'[h].refs = BootstrapRefs(h) + Cardinality(Holders(h)')
  BY DEF RefCountExact, BootstrapRefs
<1>1. CASE h = g
  <2>1. Holders(g)' = Holders(g) \union {a} /\ a \notin Holders(g)
    BY DEF Holders
  <2>2. Cardinality(Holders(g)') = Cardinality(Holders(g)) + 1
    BY <2>1, HoldersCount
  <2>3. /\ watches[g].refs = BootstrapRefs(g) + Cardinality(Holders(g))
        /\ BootstrapRefs(g) \in Nat
        /\ Cardinality(Holders(g)) \in Nat
    BY HoldersCount DEF RefCountExact, BootstrapRefs
  <2>4. QED BY <1>1, <2>2, <2>3
<1>2. CASE h # g
  <2>1. Holders(h)' = Holders(h)
    BY <1>2 DEF Holders
  <2>2. QED BY <1>2, <2>1 DEF RefCountExact
<1>3. QED BY <1>1, <1>2

\* The same for a reference given back.
LEMMA ReleaseCounts ==
    ASSUME TypeOK, RefCountExact, NEW a \in Addons, NEW g \in GVKs,
           g \in Holds(a),
           Holds(a)' = Holds(a) \ {g},
           \A b \in Addons \ {a} : Holds(b)' = Holds(b),
           watches' = Released(g)
    PROVE  RefCountExact'
<1>1. Holders(g)' = Holders(g) \ {a} /\ a \in Holders(g)
  BY DEF Holders
<1>2. Cardinality(Holders(g)') = Cardinality(Holders(g)) - 1 /\ Cardinality(Holders(g)) > 0
  BY <1>1, HoldersCount
<1>3. /\ watches[g].refs = BootstrapRefs(g) + Cardinality(Holders(g))
      /\ BootstrapRefs(g) \in Nat
      /\ Cardinality(Holders(g)) \in Nat
  BY HoldersCount DEF RefCountExact, BootstrapRefs
<1>4. watches[g].refs \in Nat /\ watches[g].refs >= 1
  BY <1>2, <1>3
<1>5. watches'[g].refs = watches[g].refs - 1
  BY <1>4 DEF Released, TypeOK, WatchEntry, NoEntry
<1>6. watches'[g].refs = BootstrapRefs(g) + Cardinality(Holders(g)')
  BY <1>2, <1>3, <1>5
<1>7. ASSUME NEW h \in GVKs \ {g}
      PROVE  watches'[h].refs = BootstrapRefs(h) + Cardinality(Holders(h)')
  <2>1. Holders(h)' = Holders(h)
    BY DEF Holders
  <2>2. watches'[h] = watches[h]
    BY DEF Released, TypeOK
  <2>3. QED BY <2>1, <2>2 DEF RefCountExact
<1>8. QED BY <1>6, <1>7 DEF RefCountExact, BootstrapRefs

\* A step that changes neither what Addons hold nor the counts.
LEMMA SameCounts ==
    ASSUME RefCountExact,
           \A b \in Addons : Holds(b)' = Holds(b),
           \A h \in GVKs : watches'[h].refs = watches[h].refs
    PROVE  RefCountExact'
<1>1. \A h \in GVKs : Holders(h)' = Holders(h)
  BY SMTT(30) DEF Holders
<1>2. QED BY <1>1 DEF RefCountExact, BootstrapRefs

\* What a step makes of the holdings and the counts: nothing, or Addon a takes or
\* gives back a reference on kind g.
Unmoved ==
    /\ \A b \in Addons : Holds(b)' = Holds(b)
    /\ \A h \in GVKs : watches'[h].refs = watches[h].refs

Acquires(a, g) ==
    /\ g \notin Holds(a) /\ Holds(a)' = Holds(a) \union {g}
    /\ \A b \in Addons \ {a} : Holds(b)' = Holds(b)
    /\ watches'[g].refs = watches[g].refs + 1
    /\ \A h \in GVKs \ {g} : watches'[h] = watches[h]

Releases(a, g) ==
    /\ g \in Holds(a) /\ Holds(a)' = Holds(a) \ {g}
    /\ \A b \in Addons \ {a} : Holds(b)' = Holds(b)
    /\ watches' = Released(g)

Moves == Unmoved \/ \E a \in Addons, g \in GVKs : Acquires(a, g) \/ Releases(a, g)

\* Each iteration of the two loops is one reference.  Reconcile and RemoveAddon
\* change the tracker and the loop variables in such a way that what the Addon
\* holds stays what it was.
LEMMA HoldsMoves ==
    ASSUME ~WatchErrors, CountInv, [Next]_vars
    PROVE  LoopInv' /\ Moves
<1> USE DEF CountInv
<1> DEFINE Quiet(a) == /\ worker[a].added = {} /\ worker[a].removed = {}
                       /\ worker'[a].added = {} /\ worker'[a].removed = {}
<1>1. ASSUME UNCHANGED <<tracker, watches, worker>> PROVE LoopInv' /\ Moves
  <2>1. \A b \in Addons : Holds(b)' = Holds(b)
    BY <1>1 DEF Holds
  <2>2. LoopInv'
    BY <1>1 DEF LoopInv
  <2>3. QED BY <1>1, <2>1, <2>2 DEF Moves, Unmoved
<1>2. ASSUME NEW a \in Addons, Reconcile(a) PROVE LoopInv' /\ Moves
  <2>1. /\ worker[a].added = {} /\ worker[a].removed = {}
        /\ worker'[a].added = cached[a].gvks \ tracker[a]
        /\ worker'[a].removed = tracker[a] \ cached[a].gvks
        /\ worker'[a].pc = "watches"
        /\ tracker'[a] = cached[a].gvks
        /\ \A b \in Addons \ {a} : worker'[b] = worker[b] /\ tracker'[b] = tracker[b]
    BY <1>2 DEF Reconcile, LoopInv, TypeOK
  <2>2. \A b \in Addons : Holds(b)' = Holds(b)
    BY <2>1 DEF Holds
  <2>3. LoopInv'
    BY <2>1 DEF LoopInv
  <2>4. QED BY <1>2, <2>2, <2>3 DEF Reconcile, Moves, Unmoved
<1>3. ASSUME NEW a \in Addons, NEW g \in GVKs, EnsureWatch(a, g)
      PROVE  LoopInv' /\ Moves
  <2>1. /\ g \in worker[a].added
        /\ worker'[a].added = worker[a].added \ {g}
        /\ worker'[a].removed = worker[a].removed
        /\ worker'[a].pc = worker[a].pc
        /\ worker[a].pc = "watches"
        /\ tracker' = tracker
        /\ \A b \in Addons \ {a} : worker'[b] = worker[b]
    BY <1>3 DEF EnsureWatch, TypeOK, Worker
  <2>2. LoopInv'
    BY <2>1 DEF LoopInv
  <2>3. g \notin Holds(a) /\ Holds(a)' = Holds(a) \union {g}
    BY <2>1 DEF Holds, LoopInv
  <2>4. \A b \in Addons \ {a} : Holds(b)' = Holds(b)
    BY <2>1 DEF Holds
  <2>5. /\ watches'[g].refs = watches[g].refs + 1
        /\ \A h \in GVKs \ {g} : watches'[h] = watches[h]
    BY <1>3 DEF EnsureWatch, Referenced, Started, TypeOK, WatchEntry, NoEntry
  <2>6. QED BY <2>2, <2>3, <2>4, <2>5 DEF Moves, Acquires
<1>4. ASSUME NEW a \in Addons, NEW g \in GVKs, ReleaseWatch(a, g) \/ CleanupRelease(a, g)
      PROVE  LoopInv' /\ Moves
  <2>1. /\ g \in worker[a].removed
        /\ worker'[a].added = worker[a].added
        /\ worker'[a].removed = worker[a].removed \ {g}
        /\ worker'[a].pc = worker[a].pc
        /\ tracker' = tracker
        /\ \A b \in Addons \ {a} : worker'[b] = worker[b]
    BY <1>4 DEF ReleaseWatch, CleanupRelease, TypeOK, Worker
  <2>2. LoopInv'
    BY <2>1 DEF LoopInv
  <2>3. g \in Holds(a) /\ Holds(a)' = Holds(a) \ {g}
    BY <2>1 DEF Holds, LoopInv
  <2>4. \A b \in Addons \ {a} : Holds(b)' = Holds(b)
    BY <2>1 DEF Holds
  <2>5. watches' = Released(g)
    BY <1>4 DEF ReleaseWatch, CleanupRelease
  <2>6. QED BY <2>2, <2>3, <2>4, <2>5 DEF Moves, Releases
<1>5. ASSUME NEW a \in Addons, Quiet(a), worker'[a].pc \in {"idle", "retry"},
             tracker' = tracker,
             \A b \in Addons \ {a} : worker'[b] = worker[b],
             \A h \in GVKs : watches'[h].refs = watches[h].refs
      PROVE  LoopInv' /\ Moves
  <2>1. \A b \in Addons : Holds(b)' = Holds(b)
    BY <1>5 DEF Holds
  <2>2. LoopInv'
    BY <1>5 DEF LoopInv
  <2>3. QED BY <2>1, <2>2, <1>5 DEF Moves, Unmoved
<1>5a. ASSUME NEW a \in Addons, ListPending(a) PROVE LoopInv' /\ Moves
  <2>1. /\ Quiet(a) /\ worker'[a].pc = "retry" /\ tracker' = tracker /\ watches' = watches
        /\ \A b \in Addons \ {a} : worker'[b] = worker[b]
    BY <1>5a DEF ListPending, TypeOK, Worker
  <2>2. QED BY <2>1, <1>5
<1>5b. ASSUME NEW a \in Addons, EnsureFinalizer(a) PROVE LoopInv' /\ Moves
  <2>1. /\ worker[a].added = {} /\ worker[a].removed = {}
        /\ worker' = [worker EXCEPT ![a] = Idle]
        /\ tracker' = tracker /\ watches' = watches
    BY <1>5b DEF EnsureFinalizer, WatchesDone, LoopInv
  <2>2. /\ Quiet(a) /\ worker'[a].pc = "idle"
        /\ \A b \in Addons \ {a} : worker'[b] = worker[b]
    BY <2>1 DEF TypeOK, Idle
  <2>3. QED BY <2>1, <2>2, <1>5
<1>5c. ASSUME NEW a \in Addons, FinishDelete(a) PROVE LoopInv' /\ Moves
  <2>1. /\ worker[a].added = {} /\ worker[a].removed = {}
        /\ worker' = [worker EXCEPT ![a] = Idle]
        /\ tracker' = tracker /\ watches' = watches
    BY <1>5c DEF FinishDelete, LoopInv
  <2>2. /\ Quiet(a) /\ worker'[a].pc = "idle"
        /\ \A b \in Addons \ {a} : worker'[b] = worker[b]
    BY <2>1 DEF TypeOK, Idle
  <2>3. QED BY <2>1, <2>2, <1>5
<1>5d. ASSUME NEW a \in Addons, NEW g \in GVKs, RetryPendingWatch(a, g)
       PROVE  LoopInv' /\ Moves
  <2>1. /\ Quiet(a) /\ worker'[a].pc = "retry" /\ tracker' = tracker
        /\ \A b \in Addons \ {a} : worker'[b] = worker[b]
    BY <1>5d DEF RetryPendingWatch, LoopInv, TypeOK, Worker
  <2>2. \A h \in GVKs : watches'[h].refs = watches[h].refs
    BY <1>5d DEF RetryPendingWatch, TypeOK, WatchEntry, NoEntry
  <2>3. QED BY <2>1, <2>2, <1>5
<1>6. ASSUME NEW a \in Addons, RemoveAddon(a) PROVE LoopInv' /\ Moves
  <2>1. /\ worker[a].added = {} /\ worker[a].removed = {}
        /\ worker'[a].added = {} /\ worker'[a].removed = tracker[a]
        /\ worker'[a].pc = "cleanup"
        /\ tracker'[a] = {}
        /\ \A b \in Addons \ {a} : worker'[b] = worker[b] /\ tracker'[b] = tracker[b]
    BY <1>6 DEF RemoveAddon, WatchesDone, LoopInv, TypeOK, Worker
  <2>2. \A b \in Addons : Holds(b)' = Holds(b)
    BY <2>1 DEF Holds
  <2>3. LoopInv'
    BY <2>1 DEF LoopInv
  <2>4. QED BY <1>6, <2>2, <2>3 DEF RemoveAddon, Moves, Unmoved
<1>7. ASSUME NEW a \in Addons, CreateAddon(a) \/ EditSources(a) \/ DeleteAddon(a) \/ SyncCache(a)
      PROVE  LoopInv' /\ Moves
  <2>1. UNCHANGED <<tracker, watches, worker>>
    BY <1>7 DEF CreateAddon, EditSources, DeleteAddon, SyncCache
  <2>2. QED BY <2>1, <1>1
<1>8. ASSUME NEW g \in GVKs, InstallCRD(g) PROVE LoopInv' /\ Moves
  <2>1. UNCHANGED <<tracker, watches, worker>>
    BY <1>8 DEF InstallCRD
  <2>2. QED BY <2>1, <1>1
<1>9. CASE UNCHANGED vars
  <2>1. UNCHANGED <<tracker, watches, worker>>
    BY <1>9 DEF vars
  <2>2. QED BY <2>1, <1>1
<1>10. QED
  BY <1>2, <1>3, <1>4, <1>5a, <1>5b, <1>5c, <1>5d, <1>6, <1>7, <1>8, <1>9
  DEF Next, WorkerStep, EnsureWatchFails, RetryPendingFails

\* So the counts stay exact.
LEMMA CountStep ==
    ASSUME ~WatchErrors, CountInv, [Next]_vars
    PROVE  LoopInv' /\ RefCountExact'
<1>1. LoopInv' /\ Moves
  BY HoldsMoves
<1>2. CASE Unmoved
  BY <1>1, <1>2, SameCounts DEF Unmoved, CountInv
<1>3. ASSUME NEW a \in Addons, NEW g \in GVKs, Acquires(a, g) PROVE RefCountExact'
  BY <1>3, AcquireCounts DEF Acquires, CountInv
<1>4. ASSUME NEW a \in Addons, NEW g \in GVKs, Releases(a, g) PROVE RefCountExact'
  BY <1>4, ReleaseCounts DEF Releases, CountInv
<1>5. QED BY <1>1, <1>2, <1>3, <1>4 DEF Moves

\* No Addon holds anything at the start; SetupWithManager's references remain.
LEMMA CountInit == Init => CountInv
<1> SUFFICES ASSUME Init PROVE CountInv
  OBVIOUS
<1>1. TypeOK
  BY ConstantsAssumption
  DEF Init, TypeOK, Object, Worker, WatchEntry, NoEntry, Absent, Idle
<1>2. LoopInv
  BY DEF Init, LoopInv, Idle
<1>3. \A g \in GVKs : Holders(g) = {}
  BY DEF Init, Holders, Holds, Idle
<1>4. RefCountExact
  BY <1>3, FS_EmptySet DEF Init, RefCountExact, BootstrapRefs, NoEntry
<1>5. QED BY <1>1, <1>2, <1>4 DEF CountInv

\* As long as controller.Watch fails in no other way than "kind not served", the
\* reference count of every kind is exactly the number of Addons holding it
\* plus the bootstrap reference, whatever the workers' interleaving.
THEOREM RefCounting ==
    ASSUME ~WatchErrors
    PROVE  Spec => []RefCountExact
<1>1. Init => CountInv
  BY CountInit
<1>2. CountInv /\ [Next]_vars => CountInv'
  BY TypeStep, CountStep DEF CountInv
<1>3. CountInv => RefCountExact
  BY DEF CountInv
<1>4. QED BY <1>1, <1>2, <1>3, PTL DEF Spec

\* Under the same condition, updateDynamicWatches never ends its loops with a
\* tracked kind that has no entry in the watch manager.
THEOREM WatchedAfterUpdateHolds ==
    ASSUME ~WatchErrors
    PROVE  Spec => []WatchedAfterUpdate
<1>1. Init => CountInv
  BY CountInit
<1>2. CountInv /\ [Next]_vars => CountInv'
  BY TypeStep, CountStep DEF CountInv
<1>3. CountInv => WatchedAfterUpdate
  <2> SUFFICES ASSUME CountInv, NEW a \in Addons, worker[a].pc = "retry",
                      NEW g \in tracker[a]
               PROVE  watches[g].refs > 0
    BY DEF WatchedAfterUpdate
  <2>1. g \in GVKs
    BY DEF CountInv, TypeOK
  <2>2. a \in Holders(g)
    BY DEF CountInv, LoopInv, Holders, Holds
  <2>3. Cardinality(Holders(g)) \in Nat /\ Cardinality(Holders(g)) > 0
    BY <2>1, <2>2, HoldersCount
  <2>4. watches[g].refs = BootstrapRefs(g) + Cardinality(Holders(g))
    BY <2>1 DEF CountInv, RefCountExact
  <2>5. BootstrapRefs(g) \in Nat
    BY DEF BootstrapRefs
  <2>6. QED BY <2>3, <2>4, <2>5
<1>4. QED BY <1>1, <1>2, <1>3, PTL DEF Spec

-----------------------------------------------------------------------------
(* Refinement. *)

\* A kind is registered exactly while it is a bootstrap kind or somebody holds it.
RegisteredIfHeld ==
    \A g \in GVKs : g \in Registered <=> (g \in Bootstrap \/ \E b \in Addons : g \in Holds(b))

LEMMA RegisteredExact == CountInv => RegisteredIfHeld
<1> SUFFICES ASSUME CountInv, NEW g \in GVKs
             PROVE  g \in Registered <=> (g \in Bootstrap \/ \E b \in Addons : g \in Holds(b))
  BY DEF RegisteredIfHeld
<1>1. watches[g].refs = BootstrapRefs(g) + Cardinality(Holders(g))
  BY DEF CountInv, RefCountExact
<1>2. IsFiniteSet(Holders(g))
  <2>1. Holders(g) \in SUBSET Addons
    BY DEF Holders
  <2>2. QED BY <2>1, FS_Subset, ConstantsAssumption
<1>3. Cardinality(Holders(g)) \in Nat /\ (Cardinality(Holders(g)) = 0 <=> Holders(g) = {})
  BY <1>2, FS_CardinalityType, FS_EmptySet
<1>4. Holders(g) # {} <=> (\E b \in Addons : g \in Holds(b))
  BY DEF Holders
<1>5. QED BY <1>1, <1>3, <1>4 DEF Registered, BootstrapRefs

\* A step of the workers is a lease taken, a lease given back, or nothing.
LEMMA LeaseStep ==
    ASSUME ~WatchErrors, CountInv, CountInv', [Next]_vars
    PROVE  [Leases!Next]_Leases!vars
<1>1. Moves
  BY HoldsMoves
<1>2. CASE Unmoved
  <2>1. [a \in Addons |-> Holds(a)]' = [a \in Addons |-> Holds(a)]
    BY <1>2 DEF Unmoved
  <2>2. Registered' = Registered
    BY <1>2 DEF Unmoved, Registered
  <2>3. QED BY <2>1, <2>2 DEF Leases!vars
<1>3. ASSUME NEW a \in Addons, NEW g \in GVKs, Acquires(a, g) PROVE Leases!Acquire(a, g)
  <2>1. [b \in Addons |-> Holds(b)]' =
           [[b \in Addons |-> Holds(b)] EXCEPT ![a] = Holds(a) \union {g}]
    BY <1>3 DEF Acquires
  <2>2. Registered' = Registered \union {g}
    <3>1. watches'[g].refs > 0
      BY <1>3 DEF Acquires, CountInv, TypeOK, WatchEntry, NoEntry
    <3>2. QED BY <1>3, <3>1 DEF Acquires, Registered
  <2>3. QED BY <1>3, <2>1, <2>2 DEF Acquires, Leases!Acquire
<1>4. ASSUME NEW a \in Addons, NEW g \in GVKs, Releases(a, g) PROVE Leases!Release(a, g)
  <2>1. [b \in Addons |-> Holds(b)]' =
           [[b \in Addons |-> Holds(b)] EXCEPT ![a] = Holds(a) \ {g}]
    BY <1>4 DEF Releases
  <2>2. \A h \in GVKs \ {g} : h \in Registered' <=> h \in Registered
    BY <1>4 DEF Releases, Released, Registered, CountInv, TypeOK
  <2>3. g \in Registered
    BY <1>4, RegisteredExact DEF Releases, RegisteredIfHeld
  <2>4. g \in Registered' <=> (g \in Bootstrap \/ \E b \in Addons : g \in Holds(b)')
    <3>1. RegisteredIfHeld'
      BY RegisteredExact, PTL
    <3>2. QED BY <3>1 DEF RegisteredIfHeld
  <2>5. (\E b \in Addons : g \in Holds(b)') <=> (\E b \in Addons \ {a} : g \in Holds(b))
    BY <1>4 DEF Releases
  <2>6. Registered' = IF g \in Bootstrap \/ \E b \in Addons \ {a} : g \in Holds(b)
                      THEN Registered ELSE Registered \ {g}
    BY <2>2, <2>3, <2>4, <2>5 DEF Registered
  <2>7. QED BY <1>4, <2>1, <2>6 DEF Releases, Leases!Release
<1>5. QED BY <1>1, <1>2, <1>3, <1>4 DEF Moves, Leases!Next

\* Tracker and WatchManager together implement leases, as long as
\* controller.Watch fails in no other way than "kind not served": every critical
\* section is one lease taken or given back or nothing, and a kind has an entry
\* exactly while it is a bootstrap kind or some Addon has a lease on it.
THEOREM LeasesImplemented ==
    ASSUME ~WatchErrors
    PROVE  Spec => ImplementsLeases
<1>1. Init => CountInv
  BY CountInit
<1>2. CountInv /\ [Next]_vars => CountInv'
  BY TypeStep, CountStep DEF CountInv
<1>3. Init => Leases!Init
  BY DEF Init, Leases!Init, Holds, Registered, Idle, NoEntry
<1>4. CountInv /\ CountInv' /\ [Next]_vars => [Leases!Next]_Leases!vars
  BY LeaseStep
<1>5. QED BY <1>1, <1>2, <1>3, <1>4, PTL DEF Spec, ImplementsLeases, Leases!Spec

=============================================================================
