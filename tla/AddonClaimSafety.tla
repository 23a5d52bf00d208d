-------------------------- MODULE AddonClaimSafety --------------------------
(***************************************************************************)
(* What a claim may leave behind in remote clusters and where, why it      *)
(* publishes only versions that were served, and why it rests only when    *)
(* all is well: inductive invariants of AddonClaim and their proofs, for   *)
(* any claims, Secrets, contents of the editions and bounds.               *)
(***************************************************************************)
EXTENDS AddonClaimProofs

-----------------------------------------------------------------------------
(* What a step leaves alone. *)

\* A step that is about claim c.
ClaimStep(c) ==
    UserStep(c) \/ DeliverClaim(c) \/ RemoteStep(c) \/ Reconcile(c) \/ WorkerStep(c)

\* What the invariants say of claim d is the same.
SameClaim(d) ==
    /\ claim'[d] = claim[d] /\ worker'[d] = worker[d]
    /\ remoteAddon'[d] = remoteAddon[d] /\ remoteValue'[d] = remoteValue[d]
    /\ served'[d] = served[d]
    /\ (d \in queue' <=> d \in queue) /\ (d \in cleanupFailed' <=> d \in cleanupFailed)

\* A step about c leaves the other claims and the Secrets alone.
LEMMA OneClaim ==
    ASSUME TypeOK, NEW c \in Claims, ClaimStep(c)
    PROVE  UNCHANGED secret /\ \A d \in Claims \ {c} : SameClaim(d)
<1>1. CASE UserStep(c) \/ DeliverClaim(c)
  BY <1>1 DEF UserStep, CreateClaim, EditClaim, PauseClaim, DeleteClaim, Put, Change, DeliverClaim,
              SameClaim, TypeOK, remote
<1>2. CASE RemoteStep(c)
  <2>1. PICK s \in Secrets :
            RemoteReport(c, s) \/ RemoteObserve(c, s) \/ RemoteUnready(c, s) \/ RemoteGone(c, s)
    BY <1>2 DEF RemoteStep
  <2>2. \A d \in Claims \ {c} : remoteAddon'[d] = remoteAddon[d] /\ served'[d] = served[d]
    BY <2>1 DEF RemoteReport, RemoteObserve, RemoteUnready, RemoteGone, TypeOK
  <2>3. UNCHANGED <<claim, secret, queue, worker, remoteValue, cleanupFailed>>
    BY <2>1 DEF RemoteReport, RemoteObserve, RemoteUnready, RemoteGone, RemoteElse, Change, objects
  <2>4. QED BY <2>2, <2>3 DEF SameClaim
<1>3. CASE Reconcile(c) \/ WorkerStep(c)
  <2>1. \A d \in Claims \ {c} : worker'[d] = worker[d]
    BY <1>3, OneWorker
  <2>2. UNCHANGED secret /\ \A d \in Claims \ {c} :
            /\ claim'[d] = claim[d] /\ remoteAddon'[d] = remoteAddon[d]
            /\ remoteValue'[d] = remoteValue[d] /\ served'[d] = served[d]
    <3>1. CASE Reconcile(c) \/ Connect(c) \/ BuildClient(c) \/ Cleanup(c) \/ DeleteBuild(c)
               \/ Mirror(c)
      BY <3>1 DEF Reconcile, Connect, BuildClient, Cleanup, DeleteBuild, Mirror, Others, objects,
                  remote
    <3>2. CASE EnsureFinalizer(c) \/ UpdateStatus(c) \/ Unfinalize(c)
      BY <3>2 DEF EnsureFinalizer, UpdateStatus, Unfinalize, remote, TypeOK
    <3>3. CASE SyncValue(c) \/ DeleteValue(c)
      BY <3>3 DEF SyncValue, WriteFails, DeleteValue, DeleteFails, objects, TypeOK
    <3>4. CASE SyncAddon(c) \/ DeleteAddon(c)
      BY <3>4 DEF SyncAddon, WriteFails, DeleteAddon, DeleteFails, objects, TypeOK
    <3>5. QED BY <1>3, <3>1, <3>2, <3>3, <3>4 DEF WorkerStep
  <2>3. \A d \in Claims \ {c} :
            (d \in queue' <=> d \in queue) /\ (d \in cleanupFailed' <=> d \in cleanupFailed)
    <3>0. /\ \A st, r : Conclude(c, st, r) => UNCHANGED queue
          /\ \A r : Returns(c, r) => queue' \in {queue, queue \union {c}}
          /\ \A s, b, n : Lookup(c, s, b, n) => UNCHANGED queue
          /\ \A n : Built(c, n) \/ Proceed(c, n) => UNCHANGED queue
          /\ CleanupFails(c) => UNCHANGED queue /\ cleanupFailed' = cleanupFailed \union {c}
      BY DEF Conclude, Returns, Lookup, Built, Proceed, CleanupFails
    <3>1. \A k : handleRemoteSyncError(c, k) => UNCHANGED queue
      BY <3>0 DEF handleRemoteSyncError
    <3>2. CASE Reconcile(c) \/ Connect(c) \/ BuildClient(c) \/ EnsureFinalizer(c)
      BY <3>0, <3>2 DEF Reconcile, Connect, BuildClient, EnsureFinalizer, Others
    <3>3. CASE UpdateStatus(c) \/ Unfinalize(c) \/ Mirror(c)
      BY <3>0, <3>3 DEF UpdateStatus, Unfinalize, Mirror, determineRequeue
    <3>4. CASE SyncValue(c) \/ SyncAddon(c)
      BY <3>0, <3>1, <3>4 DEF SyncValue, SyncAddon, WriteFails
    <3>5. CASE DeleteValue(c) \/ DeleteAddon(c) \/ DeleteBuild(c) \/ Cleanup(c)
      BY <3>0, <3>5 DEF DeleteValue, DeleteAddon, DeleteFails, DeleteBuild, Cleanup
    <3>6. QED BY <1>3, <3>2, <3>3, <3>4, <3>5 DEF WorkerStep
  <2>4. QED BY <2>1, <2>2, <2>3 DEF SameClaim
<1>4. QED BY <1>1, <1>2, <1>3 DEF ClaimStep

\* Evictions, time, the template and the Secrets leave the claims alone.
LEMMA NoClaim ==
    ASSUME [Next]_vars, ~Restart, ~\E c \in Claims : ClaimStep(c)
    PROVE  UNCHANGED <<claim, worker, remoteAddon, remoteValue, served, cleanupFailed>>
<1>1. CASE \E s \in Secrets : ChangeSecret(s) \/ DeliverSecret(s) \/ Evict(s)
  BY <1>1 DEF ChangeSecret, Change, DeliverSecret, Evict, Others, objects, remote
<1>2. CASE ChangeTemplate \/ TimePasses \/ UNCHANGED vars
  BY <1>2 DEF ChangeTemplate, Change, TimePasses, Others, vars, objects, remote
<1>3. QED BY <1>1, <1>2 DEF Next, ClaimStep

\* Where the parts of a step leave the reconcile.
LEMMA PcSteps ==
    ASSUME TypeOK, NEW c \in Claims
    PROVE  /\ \A r : Returns(c, r) => worker'[c] = Idle /\ worker'[c].pc = "idle"
           /\ \A st, r : Conclude(c, st, r) => worker'[c].pc = "status"
           /\ \A s, b, n : Lookup(c, s, b, n) => worker'[c].pc \in {b, n}
           /\ \A n : Built(c, n) => worker'[c].pc = n
           /\ \A n : Proceed(c, n) => worker'[c].pc = n
           /\ CleanupFails(c) => worker'[c].pc = "unfinalize"
           /\ \A k : handleRemoteSyncError(c, k) => worker'[c].pc = "status"
           /\ \A o : Started(o).pc \in {"status", "connect"}
<1>1. worker[c] \in Worker /\ c \in DOMAIN worker
  BY StateTypes DEF TypeOK
<1>2. \A o, st, r : Concluded(o, st, r).pc = "status"
  BY DEF Concluded, Idle
<1>3. \A st, r : Conclude(c, st, r) => worker'[c].pc = "status"
  BY <1>1, <1>2 DEF Conclude
<1>4. \A o : Started(o).pc \in {"status", "connect"}
  BY <1>2 DEF Started, Idle
<1>5. \A r : Returns(c, r) => worker'[c] = Idle /\ worker'[c].pc = "idle"
  BY <1>1 DEF Returns, Idle
<1>6. CleanupFails(c) => worker'[c].pc = "unfinalize"
  BY <1>1 DEF CleanupFails, Idle
<1>7. ASSUME NEW s, NEW b, NEW n, Lookup(c, s, b, n) PROVE worker'[c].pc \in {b, n}
  <2>1. worker'[c] = [worker[c] EXCEPT !.secret = s,
            !.client = IF Hit(Key(c), s.edition) THEN s.edition ELSE NoClient,
            !.pc = IF Hit(Key(c), s.edition) THEN n ELSE b]
    BY <1>1, <1>7 DEF Lookup
  <2>2. QED BY <1>1, <2>1 DEF Worker
<1>8. ASSUME NEW n, Built(c, n) PROVE worker'[c].pc = n
  <2>1. worker'[c] = [worker[c] EXCEPT !.pc = n,
                         !.client = ClientAfterBuild(Key(c), worker[c].secret.edition)]
    BY <1>1, <1>8 DEF Built
  <2>2. QED BY <1>1, <2>1 DEF Worker
<1>9. ASSUME NEW n, Proceed(c, n) PROVE worker'[c].pc = n
  <2>1. worker'[c] = [worker[c] EXCEPT !.pc = n]
    BY <1>1, <1>9 DEF Proceed
  <2>2. QED BY <1>1, <2>1 DEF Worker
<1>10. \A k : handleRemoteSyncError(c, k) => worker'[c].pc = "status"
  BY <1>3 DEF handleRemoteSyncError
<1>11. QED BY <1>3, <1>4, <1>5, <1>6, <1>7, <1>8, <1>9, <1>10

\* What users write: never over a claim that is being deleted.
LEMMA UserPuts ==
    ASSUME TypeOK, NEW c \in Claims, UserStep(c)
    PROVE  LET o == Stored(claim[c])
           IN  \E n \in Claim : /\ \E k : Put(c, n, k)
                                /\ o.life \in {"absent", "live"}
                                /\ n.fin = o.fin \/ (o.life = "absent" /\ ~n.fin)
                                /\ \/ n.life = "live"
                                   \/ n.life = "deleting" /\ n.fin
                                   \/ n.life = "gone" /\ ~n.fin
                                /\ n.ver >= o.ver \/ (o.life = "absent" /\ n.ver = 1)
                                /\ n.status.version \in {o.status.version, 0}
<1> DEFINE o == Stored(claim[c])
           Goal(n) == /\ \E k : Put(c, n, k)
                      /\ o.life \in {"absent", "live"}
                      /\ n.fin = o.fin \/ (o.life = "absent" /\ ~n.fin)
                      /\ \/ n.life = "live"
                         \/ n.life = "deleting" /\ n.fin
                         \/ n.life = "gone" /\ ~n.fin
                      /\ n.ver >= o.ver \/ (o.life = "absent" /\ n.ver = 1)
                      /\ n.status.version \in {o.status.version, 0}
<1>0. o \in Claim
  BY StateTypes, VersionsEnds
<1>1. o \in Claim /\ o.ver \in 1..MaxVer
  BY <1>0 DEF Claim
<1>2. CASE CreateClaim(c)
  <2>1. NewClaim("live") \in Claim
    BY NewTypes
  <2>2. Put(c, NewClaim("live"), "create") /\ o.life = "absent"
    BY <1>2 DEF CreateClaim
  <2>3. Goal(NewClaim("live"))
    BY <2>2 DEF NewClaim, NewStatus
  <2>4. QED BY <2>1, <2>3
<1>3. CASE EditClaim(c)
  <2>1. PICK v \in (o.ver + 1)..MaxVer : o.life = "live" /\ Put(c, [o EXCEPT !.ver = v], "edit")
    BY <1>3 DEF EditClaim
  <2> DEFINE n == [o EXCEPT !.ver = v]
  <2>2. v \in 1..MaxVer /\ v >= o.ver
    BY <1>1, <2>1, ClaimAssumption
  <2>3. n \in Claim /\ n.ver = v /\ n.fin = o.fin /\ n.life = o.life /\ n.status = o.status
    BY <1>1, <2>2 DEF Claim
  <2>4. Put(c, n, "edit") /\ o.life = "live"
    BY <2>1
  <2> HIDE DEF n, o
  <2>5. Goal(n)
    BY <2>2, <2>3, <2>4
  <2>6. QED BY <2>3, <2>5 DEF o
<1>4. CASE PauseClaim(c)
  <2> DEFINE n == [o EXCEPT !.paused = ~@]
  <2>1. o.life = "live" /\ Put(c, n, "pause")
    BY <1>4 DEF PauseClaim
  <2>2. n \in Claim /\ n.ver = o.ver /\ n.fin = o.fin /\ n.life = o.life /\ n.status = o.status
    BY <1>1 DEF Claim
  <2> HIDE DEF n, o
  <2>3. Goal(n)
    BY <1>1, <2>1, <2>2
  <2>4. QED BY <2>2, <2>3 DEF o
<1>5. CASE DeleteClaim(c)
  <2> DEFINE n == [o EXCEPT !.life = IF o.fin THEN "deleting" ELSE "gone"]
  <2>1. o.life = "live" /\ Put(c, n, "delete")
    BY <1>5 DEF DeleteClaim
  <2>2. /\ n \in Claim /\ n.ver = o.ver /\ n.fin = o.fin /\ n.status = o.status
        /\ n.life = IF o.fin THEN "deleting" ELSE "gone"
    BY <1>1 DEF Claim
  <2> HIDE DEF n, o
  <2>3. Goal(n)
    BY <1>1, <2>1, <2>2
  <2>4. QED BY <2>2, <2>3 DEF o
<1>6. QED BY <1>2, <1>3, <1>4, <1>5 DEF UserStep

\* What the remote cluster does: no Addon comes to live.
LEMMA RemoteWrites ==
    ASSUME TypeOK, NEW c \in Claims, RemoteStep(c)
    PROVE  /\ UNCHANGED <<claim, secret, queue, worker, remoteValue, cleanupFailed>>
           /\ \E s \in Secrets :
                 /\ \A t \in Secrets \ {s} :
                       remoteAddon'[c][t] = remoteAddon[c][t] /\ served'[c][t] = served[c][t]
                 /\ \/ /\ remoteAddon'[c][s].life = "live" /\ remoteAddon[c][s].life = "live"
                       /\ remoteAddon'[c][s].spec = remoteAddon[c][s].spec
                       /\ served[c][s] \subseteq served'[c][s]
                       /\ \/ remoteAddon[c][s].spec \in served'[c][s]
                          \/ ~isAddonReadyAtCurrentGeneration(remoteAddon'[c][s])
                    \/ /\ remoteAddon'[c][s] = NoRemoteAddon /\ remoteAddon[c][s].life = "deleting"
                       /\ served'[c][s] = served[c][s]
<1>1. UNCHANGED <<claim, secret, queue, worker, remoteValue, cleanupFailed>>
  BY DEF RemoteStep, RemoteReport, RemoteObserve, RemoteUnready, RemoteGone, RemoteElse, Change,
         objects
<1>2. PICK s \in Secrets :
          RemoteReport(c, s) \/ RemoteObserve(c, s) \/ RemoteUnready(c, s) \/ RemoteGone(c, s)
  BY DEF RemoteStep
<1> DEFINE a == remoteAddon[c][s]
<1>3. a \in RemoteAddon /\ served \in [Claims -> [Secrets -> SUBSET (1..MaxVer)]]
  BY DEF TypeOK
<1>4. CASE RemoteReport(c, s)
  <2> DEFINE b == [a EXCEPT !.seen = TRUE, !.ready = TRUE]
  <2>1. /\ remoteAddon' = [remoteAddon EXCEPT ![c][s] = b] /\ a.life = "live"
        /\ served' = [served EXCEPT ![c][s] = @ \union {a.spec}]
    BY <1>4 DEF RemoteReport
  <2>2. b \in RemoteAddon /\ b.life = a.life /\ b.spec = a.spec
    BY <1>3 DEF RemoteAddon
  <2>3. /\ served'[c][s] = served[c][s] \union {a.spec}
        /\ \A t \in Secrets \ {s} : served'[c][t] = served[c][t]
    BY <1>3, <2>1
  <2> HIDE DEF b
  <2>4. /\ remoteAddon'[c][s] = b
        /\ \A t \in Secrets \ {s} : remoteAddon'[c][t] = remoteAddon[c][t]
    BY <2>1, <2>2, AddonWrite
  <2>5. QED BY <1>1, <2>1, <2>2, <2>3, <2>4
<1>5. CASE RemoteObserve(c, s) \/ RemoteUnready(c, s)
  <2>1. PICK b : /\ remoteAddon' = [remoteAddon EXCEPT ![c][s] = b] /\ a.life = "live"
                 /\ b \in {[a EXCEPT !.seen = TRUE, !.ready = FALSE], [a EXCEPT !.ready = FALSE]}
                 /\ UNCHANGED served
    BY <1>5 DEF RemoteObserve, RemoteUnready
  <2> HIDE DEF a
  <2>2. b \in RemoteAddon /\ b.life = a.life /\ b.spec = a.spec /\ ~b.ready
    BY <1>3, <2>1 DEF RemoteAddon
  <2>3. /\ remoteAddon'[c][s] = b
        /\ \A t \in Secrets \ {s} : remoteAddon'[c][t] = remoteAddon[c][t]
    BY <2>1, <2>2, AddonWrite, ZenonT(60)
  <2>4. QED BY <1>1, <2>1, <2>2, <2>3 DEF isAddonReadyAtCurrentGeneration, a
<1>6. CASE RemoteGone(c, s)
  <2>1. /\ remoteAddon' = [remoteAddon EXCEPT ![c][s] = NoRemoteAddon] /\ a.life = "deleting"
        /\ UNCHANGED served
    BY <1>6 DEF RemoteGone
  <2>2. NoRemoteAddon \in RemoteAddon
    BY ClaimAssumption DEF NoRemoteAddon, RemoteAddon
  <2>3. /\ remoteAddon'[c][s] = NoRemoteAddon
        /\ \A t \in Secrets \ {s} : remoteAddon'[c][t] = remoteAddon[c][t]
    BY <2>1, <2>2, AddonWrite
  <2>4. QED BY <1>1, <2>1, <2>3
<1>7. QED BY <1>2, <1>4, <1>5, <1>6

-----------------------------------------------------------------------------
(* What a reconcile carries along. *)

\* The parts of a step that keep or replace the reconcile's locals.
LEMMA LocalSteps ==
    ASSUME TypeOK, NEW c \in Claims
    PROVE  /\ \A s, b, n : Lookup(c, s, b, n) =>
                  /\ worker'[c].copy = worker[c].copy /\ worker'[c].status = worker[c].status
                  /\ worker'[c].secret = s
                  /\ worker'[c].pc = IF Hit(Key(c), s.edition) THEN n ELSE b
           /\ \A n : Built(c, n) =>
                  /\ worker'[c].copy = worker[c].copy /\ worker'[c].status = worker[c].status
                  /\ worker'[c].secret = worker[c].secret
           /\ \A n : Proceed(c, n) =>
                  /\ worker'[c].copy = worker[c].copy /\ worker'[c].status = worker[c].status
                  /\ worker'[c].secret = worker[c].secret
           /\ CleanupFails(c) => worker'[c] = [Idle EXCEPT !.pc = "unfinalize"]
<1>1. worker[c] \in Worker /\ c \in DOMAIN worker
  BY StateTypes DEF TypeOK
<1>3. CleanupFails(c) => worker'[c] = [Idle EXCEPT !.pc = "unfinalize"]
  BY <1>1 DEF CleanupFails
<1>4. ASSUME NEW s, NEW b, NEW n, Lookup(c, s, b, n)
      PROVE  /\ worker'[c].copy = worker[c].copy /\ worker'[c].status = worker[c].status
             /\ worker'[c].secret = s
             /\ worker'[c].pc = IF Hit(Key(c), s.edition) THEN n ELSE b
  <2>1. worker'[c] = [worker[c] EXCEPT !.secret = s,
            !.client = IF Hit(Key(c), s.edition) THEN s.edition ELSE NoClient,
            !.pc = IF Hit(Key(c), s.edition) THEN n ELSE b]
    BY <1>1, <1>4 DEF Lookup
  <2>2. QED BY <1>1, <2>1 DEF Worker
<1>5. ASSUME NEW n, Built(c, n)
      PROVE  /\ worker'[c].copy = worker[c].copy /\ worker'[c].status = worker[c].status
             /\ worker'[c].secret = worker[c].secret
  <2>1. worker'[c] = [worker[c] EXCEPT !.pc = n,
                         !.client = ClientAfterBuild(Key(c), worker[c].secret.edition)]
    BY <1>1, <1>5 DEF Built
  <2>2. QED BY <1>1, <2>1 DEF Worker
<1>6. ASSUME NEW n, Proceed(c, n)
      PROVE  /\ worker'[c].copy = worker[c].copy /\ worker'[c].status = worker[c].status
             /\ worker'[c].secret = worker[c].secret
  <2>1. worker'[c] = [worker[c] EXCEPT !.pc = n]
    BY <1>1, <1>6 DEF Proceed
  <2>2. QED BY <1>1, <2>1 DEF Worker
<1>7. QED BY <1>3, <1>4, <1>5, <1>6

\* The fields of a reconcile that goes on to write status st of copy o.
Writing(w, o, st) ==
    /\ w.pc = "status" /\ w.copy = Idle.copy
    /\ w.status = [st EXCEPT !.obs = o.ver] /\ w.status.version = st.version
    /\ ~w.changed => w.status = o.status

LEMMA ConcludedFields ==
    ASSUME NEW o \in Claim, NEW st \in Status
    PROVE  /\ Writing(Concluded(o, st, TRUE), o, st) /\ Concluded(o, st, TRUE).requeue
           /\ Writing(Concluded(o, st, FALSE), o, st)
           /\ st.conds.degraded => Concluded(o, st, FALSE).requeue
<1> DEFINE final == [st EXCEPT !.obs = o.ver]
<1>1. final.version = st.version
  BY DEF Status
<1> HIDE DEF final
<1>2. ASSUME NEW w, w = Concluded(o, st, TRUE)
      PROVE  Writing(w, o, st) /\ (w.requeue)
  <2>1. w = [Idle EXCEPT !.pc = "status", !.status = final, !.changed = (final # o.status),
                         !.requeue = TRUE \/ st.conds.degraded]
    BY <1>2 DEF Concluded, final
  <2>2. /\ w.pc = "status" /\ w.copy = Idle.copy /\ w.status = final
        /\ w.changed = (final # o.status) /\ w.requeue = (TRUE \/ st.conds.degraded)
    BY <2>1 DEF Idle
  <2>3. ~w.changed => w.status = o.status
    BY <2>2
  <2>4. w.requeue
    BY <2>2
  <2>5. QED BY <1>1, <2>2, <2>3, <2>4 DEF Writing, final
<1>3. ASSUME NEW w, w = Concluded(o, st, FALSE)
      PROVE  Writing(w, o, st) /\ (st.conds.degraded => w.requeue)
  <2>1. w = [Idle EXCEPT !.pc = "status", !.status = final, !.changed = (final # o.status),
                         !.requeue = FALSE \/ st.conds.degraded]
    BY <1>3 DEF Concluded, final
  <2>2. /\ w.pc = "status" /\ w.copy = Idle.copy /\ w.status = final
        /\ w.changed = (final # o.status) /\ w.requeue = (FALSE \/ st.conds.degraded)
    BY <2>1 DEF Idle
  <2>3. ~w.changed => w.status = o.status
    BY <2>2
  <2>4. st.conds.degraded => w.requeue
    BY <2>2
  <2>5. QED BY <1>1, <2>2, <2>3, <2>4 DEF Writing, final
<1>4. QED BY <1>2, <1>3

Concludes(c, st) == Conclude(c, st, TRUE) \/ Conclude(c, st, FALSE)

LEMMA ConcludeFields ==
    ASSUME TypeOK, NEW c \in Claims, NEW st \in Status
    PROVE  /\ Concludes(c, st) => Writing(worker'[c], worker[c].copy, st)
           /\ Conclude(c, st, TRUE) => worker'[c].requeue
           /\ Conclude(c, st, FALSE) /\ st.conds.degraded => worker'[c].requeue
<1>1. worker[c].copy \in Claim /\ c \in DOMAIN worker
  BY StateTypes DEF TypeOK
<1>2. Conclude(c, st, TRUE) => worker'[c] = Concluded(worker[c].copy, st, TRUE)
  BY <1>1 DEF Conclude
<1>3. Conclude(c, st, FALSE) => worker'[c] = Concluded(worker[c].copy, st, FALSE)
  BY <1>1 DEF Conclude
<1>4. QED BY <1>1, <1>2, <1>3, ConcludedFields DEF Concludes

\* The fields of one that starts on a claim with its finalizer.
LEMMA StartedFields ==
    ASSUME NEW o \in Claim
    PROVE  LET n == [o EXCEPT !.status = With(@, EnsureAllConditions(@.conds))]
           IN  /\ n \in Claim /\ n.ver = o.ver /\ n.status.version = o.status.version
               /\ n.status \in Status
               /\ ~o.paused => Started(o) = [Idle EXCEPT !.pc = "connect", !.copy = n]
               /\ o.paused => /\ Started(o).pc = "status" /\ Started(o).copy = Idle.copy
                              /\ Started(o).status.version = o.status.version
<1> DEFINE n == [o EXCEPT !.status = With(@, EnsureAllConditions(@.conds))]
<1>1. o.status \in Status /\ o.status.conds \in Conditions
  BY DEF Claim, Status
<1>2. /\ With(o.status, EnsureAllConditions(o.status.conds)) \in Status
      /\ With(o.status, EnsureAllConditions(o.status.conds)).version = o.status.version
  <2>1. EnsureAllConditions(o.status.conds) \in Conditions
    BY <1>1, ConditionTypes DEF Reasons
  <2>2. QED BY <1>1, <2>1 DEF With, Status
<1>3. n \in Claim /\ n.ver = o.ver /\ n.status.version = o.status.version /\ n.status \in Status
  BY <1>2 DEF Claim
<1>4. ~o.paused => Started(o) = [Idle EXCEPT !.pc = "connect", !.copy = n]
  BY DEF Started
<1>5. ASSUME o.paused
      PROVE  /\ Started(o).pc = "status" /\ Started(o).copy = Idle.copy
             /\ Started(o).status.version = o.status.version
  <2> DEFINE st == With(n.status, SetPaused(n.status.conds))
  <2>1. n.status.conds \in Conditions
    BY <1>3 DEF Status
  <2>2. SetPaused(n.status.conds) \in Conditions
    BY <2>1, ConditionTypes DEF Reasons
  <2>3. st \in Status /\ st.version = n.status.version
    BY <1>3, <2>2 DEF With, Status
  <2>4. Started(o) = Concluded(n, st, FALSE)
    BY <1>5 DEF Started
  <2> HIDE DEF n, st
  <2>5. /\ Concluded(n, st, FALSE).pc = "status" /\ Concluded(n, st, FALSE).copy = Idle.copy
        /\ Concluded(n, st, FALSE).status.version = st.version
    BY <1>3, <2>3, ConcludedFields, ZenonT(60) DEF Writing
  <2>6. QED BY <1>3, <2>3, <2>4, <2>5
<1>6. QED BY <1>3, <1>4, <1>5

-----------------------------------------------------------------------------
(* Editions of the spec. *)

\* The life of a claim that the API server is to remove, or has removed.
Out == {"deleting", "gone"}

DeletionSteps == {"cleanup", "deleteBuild", "deleteAddon", "deleteValue", "unfinalize"}

\* The steps that need the copy of the claim to know what to delete.
CleanupSteps == DeletionSteps \ {"unfinalize"}

\* What reconciles write of a claim leaves its edition alone.
LEMMA WorkerWrites ==
    ASSUME TypeOK, NEW c \in Claims, Reconcile(c) \/ WorkerStep(c)
    PROVE  LET h == claim[c]
               o == Stored(h)
           IN  \/ claim'[c] = h
               \/ \E n \in Claim : /\ claim'[c] = Append(h, n) /\ (CanWrite(h) \/ Current(h))
                                   /\ n.ver = o.ver
                                   /\ n.life = o.life \/ (o.life = "deleting" /\ n.life = "gone")
<1> DEFINE h == claim[c]
           o == Stored(h)
           Kept(n) == n \in Claim /\ n.ver = o.ver
                      /\ (n.life = o.life \/ (o.life = "deleting" /\ n.life = "gone"))
<1>1. h \in Versions(Claim) /\ o \in Claim /\ c \in DOMAIN claim /\ (Current(h) => o = Cached(h))
  BY StateTypes, VersionsEnds DEF TypeOK
<1>2. CASE Reconcile(c) \/ Connect(c) \/ BuildClient(c) \/ Mirror(c) \/ Cleanup(c) \/ DeleteBuild(c)
  BY <1>2 DEF Reconcile, Connect, BuildClient, Mirror, Cleanup, DeleteBuild, Others, objects
<1>3. CASE SyncValue(c) \/ SyncAddon(c) \/ DeleteAddon(c) \/ DeleteValue(c)
  BY <1>3 DEF SyncValue, SyncAddon, DeleteAddon, DeleteValue, objects
<1>4. CASE EnsureFinalizer(c)
  <2>1. Kept([o EXCEPT !.fin = TRUE])
    BY <1>1 DEF Claim
  <2>2. claim'[c] = h \/ (Current(h) /\ claim'[c] = Append(h, [o EXCEPT !.fin = TRUE]))
    BY <1>1, <1>4 DEF EnsureFinalizer
  <2>3. QED BY <2>1, <2>2
<1>5. CASE UpdateStatus(c)
  <2>1. Kept([o EXCEPT !.status = worker[c].status])
    BY <1>1, StateTypes DEF Claim
  <2>2. claim'[c] = h
            \/ (CanWrite(h) /\ claim'[c] = Append(h, [o EXCEPT !.status = worker[c].status]))
    BY <1>1, <1>5 DEF UpdateStatus, Written
  <2>3. QED BY <2>1, <2>2
<1>6. CASE Unfinalize(c)
  <2> DEFINE n == [Cached(h) EXCEPT !.life = "gone", !.fin = FALSE]
  <2>1. claim'[c] = h \/ (Current(h) /\ Cached(h).life = "deleting" /\ claim'[c] = Append(h, n))
    BY <1>1, <1>6 DEF Unfinalize
  <2>2. CASE Current(h) /\ Cached(h).life = "deleting"
    <3>1. n = [o EXCEPT !.life = "gone", !.fin = FALSE] /\ o.life = "deleting"
      BY <1>1, <2>2
    <3>2. Kept(n)
      BY <1>1, <3>1 DEF Claim
    <3>3. QED BY <2>1, <2>2, <3>2
  <2>3. QED BY <2>1, <2>2
<1>7. QED BY <1>2, <1>3, <1>4, <1>5, <1>6 DEF WorkerStep

\* Where a reconcile has its edition of the claim from, and who cleans up.
LEMMA CopySteps ==
    ASSUME TypeOK, NEW c \in Claims, Reconcile(c) \/ WorkerStep(c)
    PROVE  LET o == Cached(claim[c])
               v == worker[c].copy.ver
               n == worker'[c].copy.ver
           IN  /\ n \in {1, v} \/ (Reconcile(c) /\ n = o.ver)
               /\ worker'[c].pc \in DeletionSteps =>
                     \/ Reconcile(c) /\ o.life = "deleting" /\ n = o.ver
                     \/ worker[c].pc \in CleanupSteps /\ (n = v \/ worker'[c].pc = "unfinalize")
<1> DEFINE o == Cached(claim[c])
           v == worker[c].copy.ver
           n == worker'[c].copy.ver
<1>1. o \in Claim /\ worker[c].copy \in Claim
  BY StateTypes, VersionsEnds
<1>2. Idle.copy.ver = 1 /\ Idle.pc \notin DeletionSteps
  BY DEF Idle, NewClaim, DeletionSteps
<1>3. ASSUME NEW x \in Claim
      PROVE  Started(x).copy.ver \in {1, x.ver} /\ Started(x).pc \notin DeletionSteps
  <2> DEFINE y == [x EXCEPT !.status = With(@, EnsureAllConditions(@.conds))]
  <2>1. /\ y.ver = x.ver
        /\ ~x.paused => Started(x) = [Idle EXCEPT !.pc = "connect", !.copy = y]
        /\ x.paused => Started(x).copy = Idle.copy
    BY StartedFields
  <2> HIDE DEF y
  <2>2. [Idle EXCEPT !.pc = "connect", !.copy = y].copy = y
    BY DEF Idle
  <2>3. Started(x).pc \notin DeletionSteps
    BY PcSteps DEF DeletionSteps
  <2>4. QED BY <1>2, <2>1, <2>2, <2>3
<1>4. ASSUME NEW st \in Status, Concludes(c, st)
      PROVE  n = 1 /\ worker'[c].pc \notin DeletionSteps
  BY <1>2, <1>4, ConcludeFields DEF Writing, DeletionSteps
<1>5. CASE Reconcile(c)
  <2>1. /\ [Idle EXCEPT !.pc = "cleanup", !.copy = o].copy = o
        /\ [Idle EXCEPT !.pc = "finalizer", !.copy = o].copy = o
        /\ [Idle EXCEPT !.pc = "finalizer", !.copy = o].pc \notin DeletionSteps
    BY DEF Idle, DeletionSteps
  <2>2. Started(o).copy.ver \in {1, o.ver} /\ Started(o).pc \notin DeletionSteps
    BY <1>1, <1>3
  <2>3. \/ worker'[c] = Idle
        \/ worker'[c] = [Idle EXCEPT !.pc = "cleanup", !.copy = o] /\ o.life = "deleting"
        \/ worker'[c] = [Idle EXCEPT !.pc = "finalizer", !.copy = o]
        \/ worker'[c] = Started(o)
    BY <1>5, ReconcileStarts
  <2>4. QED BY <1>2, <1>5, <2>1, <2>2, <2>3
<1>6. CASE EnsureFinalizer(c)
  <2>1. worker'[c] = Started(worker[c].copy) \/ Returns(c, TRUE)
    BY <1>6 DEF EnsureFinalizer, TypeOK
  <2>2. QED BY <1>1, <1>2, <1>3, <2>1, PcSteps
<1>7. CASE Connect(c) \/ BuildClient(c)
  <2>1. \/ \E st \in Status : Concludes(c, st)
        \/ Lookup(c, Cached(secret[Key(c)]), "build", "value")
        \/ Built(c, "value")
    BY <1>7, VerdictTypes DEF Connect, BuildClient, Concludes, ConnectProblem, Reasons
  <2>2. QED BY <1>4, <2>1, LocalSteps, PcSteps DEF DeletionSteps
<1>8. CASE SyncValue(c) \/ SyncAddon(c)
  <2>1. (\E k \in {"addon", "mirror"} : Proceed(c, k)) \/ \E st \in Status : Concludes(c, st)
    BY <1>8, VerdictTypes
    DEF SyncValue, SyncAddon, WriteFails, handleRemoteSyncError, Concludes, Reasons
  <2>2. QED BY <1>4, <2>1, LocalSteps, PcSteps DEF DeletionSteps
<1>9. CASE UpdateStatus(c) \/ Unfinalize(c)
  <2>1. \E r : Returns(c, r)
    BY <1>9 DEF UpdateStatus, Unfinalize
  <2>2. QED BY <1>2, <2>1, PcSteps
<1>10. CASE Mirror(c)
  <2>1. worker'[c].pc = "status"
    BY <1>10, PcSteps DEF Mirror, determineRequeue
  <2>2. \E st, r : Conclude(c, st, r)
    BY <1>10 DEF Mirror, determineRequeue
  <2>3. \A x, st, r : Concluded(x, st, r).copy = Idle.copy
    BY DEF Concluded, Idle
  <2>4. n = 1
    BY <1>2, <2>2, <2>3 DEF Conclude, TypeOK
  <2>5. QED BY <2>1, <2>4 DEF DeletionSteps
<1>11. CASE Cleanup(c) \/ DeleteBuild(c) \/ DeleteAddon(c) \/ DeleteValue(c)
  <2>1. worker[c].pc \in CleanupSteps
    BY <1>11 DEF Cleanup, DeleteBuild, DeleteAddon, DeleteValue, CleanupSteps, DeletionSteps
  <2>2. \/ CleanupFails(c)
        \/ Lookup(c, Cached(secret[Key(c)]), "deleteBuild", "deleteAddon")
        \/ Built(c, "deleteAddon")
        \/ \E k : Proceed(c, k)
    BY <1>11 DEF Cleanup, DeleteBuild, DeleteAddon, DeleteValue, DeleteFails
  <2>3. CleanupFails(c) => n = 1 /\ worker'[c].pc = "unfinalize"
    BY <1>2, LocalSteps DEF Idle
  <2>4. QED BY <2>1, <2>2, <2>3, LocalSteps
<1>12. QED
  BY <1>5, <1>6, <1>7, <1>8, <1>9, <1>10, <1>11 DEF WorkerStep

\* Editions only go up, and stop when the claim is deleted.
EditionHistory(h) ==
    \A x \in Copies(h) : /\ x.ver <= Stored(h).ver
                         /\ x.life \in Out => Stored(h).life \in Out /\ x.ver = Stored(h).ver

LEMMA EditionHistories ==
    ASSUME NEW h \in Versions(Claim), EditionHistory(h)
    PROVE  /\ \A n \in Claim :
                  /\ CanWrite(h) \/ Current(h)
                  /\ n.ver >= Stored(h).ver
                  /\ Stored(h).life \in Out => n.life \in Out /\ n.ver = Stored(h).ver
                  => EditionHistory(Append(h, n))
           /\ ~Current(h) => EditionHistory(Tail(h))
           /\ EditionHistory(<<Stored(h)>>)
<1>1. Copies(h) \subseteq Claim /\ Stored(h) \in Claim
  BY VersionsEnds
<1>2. \A x \in Claim : x.ver \in Nat
  BY ClaimAssumption DEF Claim
<1>3. ASSUME NEW n \in Claim, CanWrite(h) \/ Current(h), n.ver >= Stored(h).ver,
             Stored(h).life \in Out => n.life \in Out /\ n.ver = Stored(h).ver
      PROVE  EditionHistory(Append(h, n))
  <2>1. Copies(Append(h, n)) = Copies(h) \union {n} /\ Stored(Append(h, n)) = n
    BY <1>3, VersionsAppend
  <2>2. \A x \in Copies(h) : /\ x.ver <= n.ver
                             /\ x.life \in Out => n.life \in Out /\ x.ver = n.ver
    BY <1>1, <1>2, <1>3 DEF EditionHistory
  <2>3. n.ver <= n.ver
    BY <1>2, <1>3
  <2>4. QED BY <2>1, <2>2, <2>3 DEF EditionHistory
<1>4. ASSUME ~Current(h) PROVE EditionHistory(Tail(h))
  BY <1>4, VersionsTail DEF EditionHistory
<1>5. EditionHistory(<<Stored(h)>>)
  <2>1. Copies(<<Stored(h)>>) = {Stored(h)} /\ Stored(<<Stored(h)>>) = Stored(h)
    BY <1>1, VersionsOne
  <2>2. Stored(h).ver <= Stored(h).ver
    BY <1>1, <1>2
  <2>3. QED BY <2>1, <2>2 DEF EditionHistory
<1>6. QED BY <1>3, <1>4, <1>5

\* What claim c has in remote clusters is where one of its first n editions put it.
Placed(c, n) ==
    \A s \in Secrets :
       /\ remoteAddon[c][s].life = "live" => \E v \in 1..n : s = CredentialRef[c][v]
       /\ \A l \in 1..MaxVer : remoteValue[c][s][l] # 0 =>
             \E v \in 1..n : <<s, l>> = <<CredentialRef[c][v], ValueLabels[v]>>

\* A reconcile works on an edition that the claim has or had, and cleans up what
\* the last one names.
EditionOK(c) ==
    LET o == Stored(claim[c])
        w == worker[c]
    IN  /\ EditionHistory(claim[c])
        /\ o.life = "absent" => o.ver = 1
        /\ w.copy.ver <= o.ver
        /\ w.pc \in DeletionSteps => o.life \in Out
        /\ w.pc \in CleanupSteps => w.copy.ver = o.ver
        /\ Placed(c, o.ver)

EditionInv == \A c \in Claims : EditionOK(c)

\* Nothing comes to stand where nothing stood.
NoneNew(c) ==
    /\ \A s \in Secrets : remoteAddon'[c][s].life = "live" => remoteAddon[c][s].life = "live"
    /\ \A s \in Secrets, l \in 1..MaxVer : remoteValue'[c][s][l] # 0 => remoteValue[c][s][l] # 0

LEMMA PlacedStays ==
    ASSUME NEW c \in Claims, NEW n \in Nat, NEW m \in Nat, n <= m, Placed(c, n), NoneNew(c)
    PROVE  Placed(c, m)'
<1>1. \A v \in 1..n : v \in 1..m
  OBVIOUS
<1>2. SUFFICES ASSUME NEW s \in Secrets
               PROVE  /\ remoteAddon'[c][s].life = "live" => \E v \in 1..m : s = CredentialRef[c][v]
                      /\ \A l \in 1..MaxVer : remoteValue'[c][s][l] # 0 =>
                            \E v \in 1..m : <<s, l>> = <<CredentialRef[c][v], ValueLabels[v]>>
  BY DEF Placed
<1>3. QED BY <1>1, ZenonT(60) DEF Placed, NoneNew

LEMMA EditionWorld ==
    ASSUME TypeOK, NEW c \in Claims, EditionOK(c),
           UserStep(c) \/ DeliverClaim(c) \/ RemoteStep(c)
    PROVE  EditionOK(c)'
<1> DEFINE h == claim[c]
           o == Stored(h)
<1>1. h \in Versions(Claim) /\ o \in Claim /\ c \in DOMAIN claim
  BY StateTypes, VersionsEnds DEF TypeOK
<1>2. (\A x \in Claim : x.ver \in Nat) /\ worker[c].copy.ver \in Nat
  <2>1. worker[c].copy \in Claim
    BY StateTypes
  <2>2. QED BY <2>1, ClaimAssumption DEF Claim
<1>3. CASE UserStep(c)
  <2>1. PICK n \in Claim : /\ \E k : Put(c, n, k)
                           /\ o.life \in {"absent", "live"} /\ n.life # "absent"
                           /\ n.ver >= o.ver \/ (o.life = "absent" /\ n.ver = 1)
    <3>1. PICK n \in Claim : /\ \E k : Put(c, n, k)
                             /\ o.life \in {"absent", "live"}
                             /\ n.life \in {"live", "deleting", "gone"}
                             /\ n.ver >= o.ver \/ (o.life = "absent" /\ n.ver = 1)
      BY <1>3, UserPuts
    <3>2. QED BY <3>1
  <2>2. /\ CanWrite(h) /\ claim'[c] = Append(h, n)
        /\ UNCHANGED <<worker, remoteAddon, remoteValue>>
    BY <1>1, <2>1 DEF Put, Change, remote
  <2>3. Stored(claim'[c]) = n
    BY <1>1, <2>2, VersionsAppend
  <2>4. n.ver >= o.ver /\ o.life \notin Out
    BY <1>1, <1>2, <2>1 DEF EditionOK, Out
  <2>5. EditionHistory(claim'[c])
    BY <1>1, <2>2, <2>4, EditionHistories DEF EditionOK
  <2>6. Placed(c, n.ver)'
    <3>1. Placed(c, o.ver) /\ NoneNew(c)
      BY <2>2 DEF EditionOK, NoneNew
    <3>2. QED BY <1>1, <1>2, <2>4, <3>1, PlacedStays
  <2>7. worker[c].copy.ver <= n.ver /\ worker[c].pc \notin DeletionSteps
    BY <1>1, <1>2, <2>4 DEF EditionOK
  <2>8. QED BY <2>1, <2>2, <2>3, <2>5, <2>6, <2>7 DEF EditionOK, CleanupSteps
<1>4. CASE DeliverClaim(c)
  <2>1. /\ ~Current(h) /\ claim'[c] = Tail(h)
        /\ UNCHANGED <<worker, remoteAddon, remoteValue>>
    BY <1>1, <1>4 DEF DeliverClaim, remote
  <2>2. Stored(claim'[c]) = o
    BY <1>1, <2>1, VersionsTail
  <2>3. EditionHistory(claim'[c])
    BY <1>1, <2>1, EditionHistories DEF EditionOK
  <2>4. PICK m \in Nat : m = o.ver
    BY <1>1, <1>2
  <2>5. Placed(c, m) /\ NoneNew(c) /\ m <= m
    BY <2>1, <2>4 DEF EditionOK, NoneNew
  <2>6. Placed(c, m)'
    BY <2>4, <2>5, PlacedStays
  <2>7. QED BY <2>1, <2>2, <2>3, <2>4, <2>6 DEF EditionOK
<1>5. CASE RemoteStep(c)
  <2>1. UNCHANGED <<claim, worker, remoteValue>>
    BY <1>5, RemoteWrites
  <2>2. PICK s \in Secrets : /\ \A t \in Secrets \ {s} : remoteAddon'[c][t] = remoteAddon[c][t]
                             /\ \/ remoteAddon[c][s].life = "live"
                                \/ remoteAddon'[c][s] = NoRemoteAddon
    BY <1>5, RemoteWrites
  <2>3. NoneNew(c)
    BY <2>1, <2>2 DEF NoneNew, NoRemoteAddon
  <2>4. PICK m \in Nat : m = o.ver
    BY <1>1, <1>2
  <2>5. Placed(c, m) /\ m <= m
    BY <2>4 DEF EditionOK
  <2>6. Placed(c, m)'
    BY <2>3, <2>4, <2>5, PlacedStays
  <2>7. QED BY <2>1, <2>4, <2>6 DEF EditionOK
<1>6. QED BY <1>3, <1>4, <1>5

\* The value that a write puts into the remote cluster is the one found there
\* (SyncValue and DeleteValue name the same AddonValue by Secret and label).
WritesValue(c, s, l, v) == remoteValue' = [remoteValue EXCEPT ![c][s][l] = v]

LEMMA ValueWritten ==
    ASSUME TypeOK, NEW c \in Claims, NEW s \in Secrets, NEW l \in 1..MaxVer, NEW v \in 0..MaxVer,
           WritesValue(c, s, l, v)
    PROVE  remoteValue'[c][s][l] = v
<1>1. /\ remoteValue \in [Claims -> [Secrets -> [1..MaxVer -> 0..MaxVer]]]
      /\ remoteValue[c] \in [Secrets -> [1..MaxVer -> 0..MaxVer]]
      /\ remoteValue[c][s] \in [1..MaxVer -> 0..MaxVer]
  BY DEF TypeOK
<1>2. remoteValue'[c] = [remoteValue[c] EXCEPT ![s] = [remoteValue[c][s] EXCEPT ![l] = v]]
  BY <1>1 DEF WritesValue
<1>3. remoteValue'[c][s] = [remoteValue[c][s] EXCEPT ![l] = v]
  BY <1>1, <1>2
<1>4. QED BY <1>1, <1>3

\* Where a reconcile writes to the remote cluster, and what it writes there.
LEMMA WorkerRemote ==
    ASSUME TypeOK, NEW c \in Claims, Reconcile(c) \/ WorkerStep(c)
    PROVE  LET k == Key(c)
               v == worker[c].copy.ver
               a == remoteAddon[c][k]
           IN  /\ UNCHANGED served
               /\ \A s \in Secrets \ {k} : remoteAddon'[c][s] = remoteAddon[c][s]
               /\ \/ remoteAddon'[c][k] = a
                  \/ SyncAddon(c) /\ remoteAddon'[c][k] = Updated(a, AddonSpec[v])
                  \/ DeleteAddon(c) /\ remoteAddon'[c][k] = Deleted(a)
               /\ \A s \in Secrets, l \in 1..MaxVer :
                     \/ remoteValue'[c][s][l] = remoteValue[c][s][l]
                     \/ /\ <<s, l>> = <<k, ValueLabels[v]>>
                        /\ \/ SyncValue(c) /\ remoteValue'[c][s][l] = v
                           \/ DeleteValue(c) /\ remoteValue'[c][s][l] = 0
<1> DEFINE k == Key(c)
           v == worker[c].copy.ver
           a == remoteAddon[c][k]
<1>1. k \in Secrets /\ a \in RemoteAddon /\ v \in 1..MaxVer
  BY StateTypes
<1>2. AddonSpec[v] \in 1..MaxVer /\ ValueLabels[v] \in 1..MaxVer
  BY <1>1, EditionAssumption
<1>3. CASE Reconcile(c) \/ EnsureFinalizer(c) \/ Connect(c) \/ BuildClient(c) \/ Mirror(c)
           \/ UpdateStatus(c) \/ Cleanup(c) \/ DeleteBuild(c) \/ Unfinalize(c)
  BY <1>3 DEF Reconcile, EnsureFinalizer, Connect, BuildClient, Mirror, UpdateStatus, Cleanup,
              DeleteBuild, Unfinalize, Others, remote
<1>4. CASE SyncAddon(c)
  <2>1. UNCHANGED <<served, remoteValue>>
    BY <1>4 DEF SyncAddon
  <2>2. Updated(a, AddonSpec[v]) \in RemoteAddon
    BY <1>1, <1>2, AddonWrites
  <2>3. \/ UNCHANGED remoteAddon
        \/ remoteAddon' = [remoteAddon EXCEPT ![c][k] = Updated(a, AddonSpec[v])]
    BY <1>4 DEF SyncAddon, WriteFails
  <2>4. CASE remoteAddon' = [remoteAddon EXCEPT ![c][k] = Updated(a, AddonSpec[v])]
    <3>1. /\ remoteAddon'[c][k] = Updated(a, AddonSpec[v])
          /\ \A t \in Secrets \ {k} : remoteAddon'[c][t] = remoteAddon[c][t]
      BY <1>1, <2>2, <2>4, AddonWrite
    <3>2. QED BY <1>4, <2>1, <3>1
  <2>5. QED BY <2>1, <2>3, <2>4
<1>5. CASE DeleteAddon(c)
  <2>1. UNCHANGED <<served, remoteValue>>
    BY <1>5 DEF DeleteAddon
  <2>2. Deleted(a) \in RemoteAddon
    BY <1>1, AddonWrites
  <2>3. UNCHANGED remoteAddon \/ remoteAddon' = [remoteAddon EXCEPT ![c][k] = Deleted(a)]
    BY <1>5 DEF DeleteAddon, DeleteFails
  <2>4. CASE remoteAddon' = [remoteAddon EXCEPT ![c][k] = Deleted(a)]
    <3>1. /\ remoteAddon'[c][k] = Deleted(a)
          /\ \A t \in Secrets \ {k} : remoteAddon'[c][t] = remoteAddon[c][t]
      BY <1>1, <2>2, <2>4, AddonWrite
    <3>2. QED BY <1>5, <2>1, <3>1
  <2>5. QED BY <2>1, <2>3, <2>4
<1>6. CASE SyncValue(c) \/ DeleteValue(c)
  <2>1. UNCHANGED <<served, remoteAddon>>
    BY <1>6 DEF SyncValue, DeleteValue
  <2>2. \/ UNCHANGED remoteValue
        \/ SyncValue(c) /\ remoteValue' = [remoteValue EXCEPT ![c][k][ValueLabels[v]] = v]
        \/ DeleteValue(c) /\ remoteValue' = [remoteValue EXCEPT ![c][k][ValueLabels[v]] = 0]
    BY <1>6 DEF SyncValue, WriteFails, DeleteValue, DeleteFails
  <2> HIDE DEF k, v
  <2>3. ASSUME NEW x \in 0..MaxVer,
               remoteValue' = [remoteValue EXCEPT ![c][k][ValueLabels[v]] = x]
        PROVE  \A s \in Secrets, l \in 1..MaxVer :
                  \/ remoteValue'[c][s][l] = remoteValue[c][s][l]
                  \/ s = k /\ l = ValueLabels[v] /\ remoteValue'[c][s][l] = x
    BY <1>1, <1>2, <2>3, ValueWrite
  <2>4. v \in 0..MaxVer /\ 0 \in 0..MaxVer
    BY <1>1, ClaimAssumption
  <2>5. QED BY <2>1, <2>2, <2>3, <2>4 DEF k, v
<1>7. QED BY <1>3, <1>4, <1>5, <1>6 DEF WorkerStep

LEMMA EditionWorker ==
    ASSUME TypeOK, NEW c \in Claims, EditionOK(c), Reconcile(c) \/ WorkerStep(c)
    PROVE  EditionOK(c)'
<1> DEFINE h == claim[c]
           o == Stored(h)
           x == Cached(h)
           v == worker[c].copy.ver
<1>1. /\ h \in Versions(Claim) /\ o \in Claim /\ x \in Claim /\ x \in Copies(h)
      /\ worker[c].copy \in Claim
  BY StateTypes, VersionsEnds
<1>2. o.ver \in Nat /\ o.ver >= 1 /\ x.ver \in Nat /\ v \in Nat /\ v >= 1 /\ v <= o.ver
      /\ v \in 1..MaxVer
  <2>1. o.ver \in 1..MaxVer /\ x.ver \in 1..MaxVer /\ v \in 1..MaxVer
    BY <1>1 DEF Claim
  <2>2. QED BY <2>1, ClaimAssumption DEF EditionOK
<1>3. EditionHistory(h) /\ x.ver <= o.ver /\ (x.life \in Out => o.life \in Out /\ x.ver = o.ver)
  BY <1>1 DEF EditionOK, EditionHistory
<1>4. /\ EditionHistory(claim'[c])
      /\ Stored(claim'[c]).ver = o.ver
      /\ Stored(claim'[c]).life = o.life \/ (o.life = "deleting" /\ Stored(claim'[c]).life = "gone")
  <2>1. CASE claim'[c] = h
    BY <1>3, <2>1
  <2>2. CASE claim'[c] # h
    <3>1. PICK n \in Claim : /\ claim'[c] = Append(h, n) /\ (CanWrite(h) \/ Current(h))
                             /\ n.ver = o.ver
                             /\ n.life = o.life \/ (o.life = "deleting" /\ n.life = "gone")
      BY <2>2, WorkerWrites
    <3>2. Stored(claim'[c]) = n
      BY <1>1, <3>1, VersionsAppend
    <3>3. n.ver >= o.ver /\ (o.life \in Out => n.life \in Out /\ n.ver = o.ver)
      BY <1>2, <3>1 DEF Out
    <3>4. EditionHistory(Append(h, n))
      BY <1>1, <1>3, <3>1, <3>3, EditionHistories
    <3>5. QED BY <3>1, <3>2, <3>4
  <2>3. QED BY <2>1, <2>2
<1>5. /\ worker'[c].copy.ver <= o.ver
      /\ worker'[c].pc \in DeletionSteps => o.life \in Out
      /\ worker'[c].pc \in CleanupSteps => worker'[c].copy.ver = o.ver
  <2> DEFINE n == worker'[c].copy.ver
  <2>1. /\ n \in {1, v} \/ n = x.ver
        /\ worker'[c].pc \in DeletionSteps =>
              \/ x.life = "deleting" /\ n = x.ver
              \/ worker[c].pc \in CleanupSteps /\ (n = v \/ worker'[c].pc = "unfinalize")
    BY CopySteps
  <2>2. n <= o.ver
    BY <1>2, <1>3, <2>1
  <2>3. ASSUME worker'[c].pc \in DeletionSteps
        PROVE  o.life \in Out /\ (n = o.ver \/ worker'[c].pc = "unfinalize")
    <3>1. CASE x.life = "deleting" /\ n = x.ver
      BY <1>3, <3>1 DEF Out
    <3>2. CASE worker[c].pc \in CleanupSteps /\ (n = v \/ worker'[c].pc = "unfinalize")
      BY <3>2 DEF EditionOK, CleanupSteps
    <3>3. QED BY <2>1, <2>3, <3>1, <3>2
  <2>4. QED BY <2>2, <2>3 DEF CleanupSteps
<1>6. PICK m \in Nat : m = o.ver
  BY <1>2
<1>7. Placed(c, m)'
  <2>1. Placed(c, m) /\ v \in 1..m /\ \A u \in 1..MaxVer : ValueLabels[u] \in 1..MaxVer
    BY <1>2, <1>6, EditionAssumption DEF EditionOK
  <2>2. ASSUME NEW s \in Secrets
        PROVE  /\ remoteAddon'[c][s].life = "live" => \E u \in 1..m : s = CredentialRef[c][u]
               /\ \A l \in 1..MaxVer : remoteValue'[c][s][l] # 0 =>
                     \E u \in 1..m : <<s, l>> = <<CredentialRef[c][u], ValueLabels[u]>>
    <3>1. /\ remoteAddon'[c][s] = remoteAddon[c][s] \/ s = CredentialRef[c][v]
             \/ (s = Key(c) /\ remoteAddon'[c][s] = Deleted(remoteAddon[c][s]))
          /\ \A l \in 1..MaxVer : \/ remoteValue'[c][s][l] = remoteValue[c][s][l]
                                  \/ <<s, l>> = <<CredentialRef[c][v], ValueLabels[v]>>
      BY WorkerRemote DEF Key, Ref
    <3>2. s = Key(c) => s = CredentialRef[c][v]
      BY DEF Key, Ref
    <3>3. QED BY <2>1, <3>1, <3>2, Zenon DEF Placed
  <2>3. QED BY <2>2, Zenon DEF Placed
<1>8. o.life = "absent" => o.ver = 1
  BY DEF EditionOK
<1>9. Stored(claim'[c]).life = "absent" => o.life = "absent"
  BY <1>4
<1>10. o.life \in Out => Stored(claim'[c]).life \in Out
  BY <1>4 DEF Out
<1>11. QED BY <1>4, <1>5, <1>6, <1>7, <1>8, <1>9, <1>10 DEF EditionOK

LEMMA EditionNext ==
    ASSUME TypeOK, EditionInv, [Next]_vars
    PROVE  EditionInv'
<1> SUFFICES ASSUME NEW d \in Claims PROVE EditionOK(d)'
  BY DEF EditionInv
<1>1. EditionOK(d) /\ claim[d] \in Versions(Claim) /\ Stored(claim[d]) \in Claim
  BY StateTypes, VersionsEnds DEF EditionInv
<1>2. Stored(claim[d]).ver \in Nat /\ Stored(claim[d]).ver >= 1
  <2>1. Stored(claim[d]).ver \in 1..MaxVer
    BY <1>1 DEF Claim
  <2>2. QED BY <2>1, ClaimAssumption
<1>3. ASSUME claim'[d] = claim[d], worker'[d] = worker[d], remoteAddon'[d] = remoteAddon[d],
             remoteValue'[d] = remoteValue[d]
      PROVE  EditionOK(d)'
  BY <1>1, <1>3 DEF EditionOK, Placed
<1>4. CASE \E c \in Claims : ClaimStep(c)
  <2>1. PICK c \in Claims : ClaimStep(c)
    BY <1>4
  <2>2. CASE c = d
    BY <1>1, <2>1, <2>2, EditionWorld, EditionWorker DEF ClaimStep
  <2>3. CASE c # d
    <3>1. SameClaim(d)
      BY <2>1, <2>3, OneClaim
    <3>2. QED BY <1>3, <3>1 DEF SameClaim
  <2>4. QED BY <2>2, <2>3
<1>5. CASE Restart
  <2>1. /\ claim'[d] = <<Stored(claim[d])>> /\ worker'[d] = Idle
        /\ UNCHANGED <<remoteAddon, remoteValue>>
    BY <1>5 DEF Restart, remote
  <2>2. EditionHistory(claim'[d])
    BY <1>1, <2>1, EditionHistories DEF EditionOK
  <2>3. Stored(claim'[d]) = Stored(claim[d])
    BY <1>1, <2>1, VersionsOne
  <2>4. worker'[d].copy.ver = 1 /\ worker'[d].pc \notin DeletionSteps
    BY <2>1 DEF Idle, NewClaim, DeletionSteps
  <2>5. PICK m \in Nat : m = Stored(claim[d]).ver
    BY <1>2
  <2>6. Placed(d, m)'
    <3>1. Placed(d, m) /\ NoneNew(d) /\ m <= m
      BY <1>1, <2>1, <2>5 DEF EditionOK, NoneNew
    <3>2. QED BY <3>1, <2>5, PlacedStays
  <2>7. QED BY <1>1, <1>2, <2>2, <2>3, <2>4, <2>5, <2>6 DEF EditionOK, CleanupSteps
<1>6. CASE ~Restart /\ ~\E c \in Claims : ClaimStep(c)
  BY <1>3, <1>6, NoClaim
<1>7. QED BY <1>4, <1>5, <1>6

LEMMA EditionInit ==
    ASSUME Init, NEW c \in Claims
    PROVE  EditionOK(c)
<1>1. PICK l \in {"live", "absent"} : claim[c] = <<NewClaim(l)>>
  BY DEF Init
<1>2. NewClaim(l) \in Claim /\ NewClaim(l).ver = 1 /\ NewClaim(l).life = l
  BY NewTypes DEF NewClaim
<1>3. Copies(claim[c]) = {NewClaim(l)} /\ Stored(claim[c]) = NewClaim(l)
  BY <1>1, <1>2, VersionsOne
<1>4. EditionHistory(claim[c])
  BY <1>2, <1>3 DEF EditionHistory, Out
<1>5. worker[c].pc = "idle" /\ worker[c].copy.ver = 1
  BY DEF Init, Idle, NewClaim
<1>6. Placed(c, 1)
  BY DEF Init, Placed, NoRemoteAddon
<1>7. QED BY <1>2, <1>3, <1>4, <1>5, <1>6 DEF EditionOK, DeletionSteps, CleanupSteps

-----------------------------------------------------------------------------
(* Finalizers and the remote objects. *)

\* Nothing stands where edition v puts it, apart from an Addon on its way out.
RemoteClean(c, v) ==
    /\ remoteAddon[c][CredentialRef[c][v]].life # "live"
    /\ remoteValue[c][CredentialRef[c][v]][ValueLabels[v]] = 0

\* Claim c has nothing in any remote cluster.
Untouched(c) ==
    \A s \in Secrets : /\ remoteAddon[c][s].life # "live"
                       /\ \A l \in 1..MaxVer : remoteValue[c][s][l] = 0

\* A reconcile that may write to the remote cluster runs under the finalizer, and
\* one that is to remove it has cleaned up or given up.
FinalizerOK(c) ==
    LET o == Stored(claim[c])
        w == worker[c]
    IN  /\ FinalizerHistory(claim[c])
        /\ w.pc = "finalizer" /\ (\E y \in Copies(claim[c]) : y.fin) => o.life # "gone"
        /\ w.pc \in {"connect", "build", "value", "addon"} => o.fin
        /\ w.pc = "deleteValue" => remoteAddon[c][Ref(c, o)].life # "live"
        /\ w.pc = "unfinalize" => RemoteClean(c, o.ver) \/ c \in cleanupFailed
        /\ o.life = "gone" => RemoteClean(c, o.ver) \/ c \in cleanupFailed
        /\ o.life \in {"absent", "live"} /\ ~o.fin => Untouched(c)

FinalizerInv == \A c \in Claims : FinalizerOK(c)

\* What the places of editions have to do with the clusters.
LEMMA CleanPlaces ==
    ASSUME NEW c \in Claims, NEW v \in 1..MaxVer
    PROVE  /\ CredentialRef[c][v] \in Secrets /\ ValueLabels[v] \in 1..MaxVer
           /\ Untouched(c) => RemoteClean(c, v)
           /\ NoneNew(c) /\ Untouched(c) => Untouched(c)'
           /\ NoneNew(c) /\ RemoteClean(c, v) => RemoteClean(c, v)'
<1>1. CredentialRef[c][v] \in Secrets /\ ValueLabels[v] \in 1..MaxVer
  BY EditionAssumption
<1>2. Untouched(c) => RemoteClean(c, v)
  BY <1>1 DEF Untouched, RemoteClean
<1>3. NoneNew(c) /\ Untouched(c) => Untouched(c)'
  BY DEF NoneNew, Untouched
<1>4. NoneNew(c) /\ RemoteClean(c, v) => RemoteClean(c, v)'
  BY <1>1 DEF NoneNew, RemoteClean
<1>5. QED BY <1>1, <1>2, <1>3, <1>4

\* What keeps the claim's edition, life and finalizer, and writes nothing remote.
LEMMA FinalizerKept ==
    ASSUME TypeOK, NEW c \in Claims, FinalizerOK(c), NoneNew(c), FinalizerHistory(claim'[c]),
           c \in cleanupFailed => c \in cleanupFailed',
           LET o == Stored(claim[c])
               n == Stored(claim'[c])
               pc == worker'[c].pc
           IN  /\ n.ver = o.ver /\ n.life = o.life /\ n.fin = o.fin
               /\ \/ pc = worker[c].pc /\ Copies(claim'[c]) \subseteq Copies(claim[c])
                  \/ pc \in {"idle", "status", "cleanup", "deleteBuild", "deleteAddon", "mirror"}
                  \/ pc \in {"connect", "build", "value", "addon"} /\ o.fin
                  \/ pc = "finalizer" /\ claim'[c] = claim[c] /\ Cached(claim[c]).life = "live"
    PROVE  FinalizerOK(c)'
<1> DEFINE h == claim[c]
           o == Stored(claim[c])
           n == Stored(claim'[c])
           pc == worker'[c].pc
<1>0. o \in Claim /\ Cached(h) \in Copies(h)
  BY StateTypes, VersionsEnds
<1>1. o.ver \in 1..MaxVer
  BY <1>0 DEF Claim
<1>2. PICK v \in 1..MaxVer : v = o.ver
  BY <1>1
<1>3. /\ RemoteClean(c, v) => RemoteClean(c, v)'
      /\ Untouched(c) => Untouched(c)'
      /\ CredentialRef[c][v] \in Secrets
  BY CleanPlaces
<1>4. \A s \in Secrets : remoteAddon[c][s].life # "live" => remoteAddon'[c][s].life # "live"
  BY DEF NoneNew
<1>5. Ref(c, o) = CredentialRef[c][v] /\ Ref(c, n) = CredentialRef[c][v]
  BY <1>2 DEF Ref
<1>6. pc = "deleteValue" => remoteAddon'[c][CredentialRef[c][v]].life # "live"
  BY <1>3, <1>4, <1>5 DEF FinalizerOK
<1>7. /\ pc = "unfinalize" => RemoteClean(c, v)' \/ c \in cleanupFailed'
      /\ n.life = "gone" => RemoteClean(c, v)' \/ c \in cleanupFailed'
      /\ n.life \in {"absent", "live"} /\ ~n.fin => Untouched(c)'
  BY <1>2, <1>3 DEF FinalizerOK
<1>8. /\ pc = "finalizer" /\ (\E y \in Copies(claim'[c]) : y.fin) => n.life # "gone"
      /\ pc \in {"connect", "build", "value", "addon"} => n.fin
  BY <1>0 DEF FinalizerOK, FinalizerHistory
<1>9. QED BY <1>2, <1>5, <1>6, <1>7, <1>8 DEF FinalizerOK

\* What users, the informer and the remote cluster do to claim c.
LEMMA FinalizerWorld ==
    ASSUME TypeOK, NEW c \in Claims, EditionOK(c), FinalizerOK(c),
           UserStep(c) \/ DeliverClaim(c) \/ RemoteStep(c)
    PROVE  FinalizerOK(c)'
<1> DEFINE h == claim[c]
           o == Stored(claim[c])
<1>1. h \in Versions(Claim) /\ o \in Claim /\ o \in Copies(h) /\ c \in DOMAIN claim
  BY StateTypes, VersionsEnds DEF TypeOK
<1>2. CASE UserStep(c)
  <2>1. PICK n \in Claim : /\ \E k : Put(c, n, k)
                           /\ o.life \in {"absent", "live"}
                           /\ n.fin = o.fin \/ (o.life = "absent" /\ ~n.fin)
                           /\ \/ n.life = "live"
                              \/ n.life = "deleting" /\ n.fin
                              \/ n.life = "gone" /\ ~n.fin
    BY <1>2, UserPuts
  <2>2. /\ CanWrite(h) /\ claim'[c] = Append(h, n)
        /\ UNCHANGED <<worker, remoteAddon, remoteValue, cleanupFailed>>
    BY <1>1, <2>1 DEF Put, Change, remote
  <2>3. Copies(claim'[c]) = Copies(h) \union {n} /\ Stored(claim'[c]) = n
    BY <1>1, <2>2, VersionsAppend
  <2>4. o.life = "absent" => ~o.fin
    BY <1>1 DEF FinalizerOK, FinalizerHistory
  <2>5. o.fin => n.fin
    BY <2>1, <2>4
  <2>6. FinalizerHistory(claim'[c])
    <3>1. /\ n.life = "deleting" => n.fin
          /\ n.life \in {"absent", "gone"} => ~n.fin
          /\ o.life # "gone"
      BY <2>1
    <3>2. QED BY <1>1, <2>2, <2>5, <3>1, FinalizerHistories DEF FinalizerOK
  <2>7. n.life = "gone" => \A y \in Copies(h) \union {n} : ~y.fin
    BY <1>1, <2>1, <2>5 DEF FinalizerOK, FinalizerHistory
  <2>8. worker[c].pc \notin DeletionSteps
    BY <2>1 DEF EditionOK, Out
  <2>9. n.ver \in 1..MaxVer
    BY DEF Claim
  <2>10. ~n.fin => Untouched(c) /\ RemoteClean(c, n.ver)
    BY <2>1, <2>4, <2>9, CleanPlaces DEF FinalizerOK
  <2>11. /\ ~n.fin => Untouched(c)' /\ RemoteClean(c, n.ver)'
    BY <2>2, <2>10 DEF Untouched, RemoteClean
  <2>12. worker[c].pc \in {"connect", "build", "value", "addon"} => n.fin
    BY <2>5 DEF FinalizerOK
  <2>13. n.life = "gone" => ~n.fin
    BY <2>1
  <2>14. QED BY <2>2, <2>3, <2>6, <2>7, <2>8, <2>11, <2>12, <2>13 DEF FinalizerOK, DeletionSteps
<1>3. CASE DeliverClaim(c)
  <2>1. /\ ~Current(h) /\ claim'[c] = Tail(h)
        /\ UNCHANGED <<worker, remoteAddon, remoteValue, cleanupFailed>>
    BY <1>1, <1>3 DEF DeliverClaim, remote
  <2>2. Copies(claim'[c]) \subseteq Copies(h) /\ Stored(claim'[c]) = o
    BY <1>1, <2>1, VersionsTail
  <2>3. FinalizerHistory(claim'[c])
    BY <1>1, <2>1, FinalizerHistories DEF FinalizerOK
  <2>4. NoneNew(c)
    BY <2>1 DEF NoneNew
  <2>5. QED BY <2>1, <2>2, <2>3, <2>4, FinalizerKept
<1>4. CASE RemoteStep(c)
  <2>1. UNCHANGED <<claim, worker, remoteValue, cleanupFailed>>
    BY <1>4, RemoteWrites
  <2>2. PICK s \in Secrets : /\ \A t \in Secrets \ {s} : remoteAddon'[c][t] = remoteAddon[c][t]
                             /\ \/ remoteAddon[c][s].life = "live"
                                \/ remoteAddon'[c][s] = NoRemoteAddon
    BY <1>4, RemoteWrites
  <2>3. NoneNew(c)
    BY <2>1, <2>2 DEF NoneNew, NoRemoteAddon
  <2>4. FinalizerHistory(claim'[c])
    BY <2>1 DEF FinalizerOK
  <2>5. QED BY <2>1, <2>3, <2>4, FinalizerKept
<1>5. QED BY <1>2, <1>3, <1>4

\* The steps of a reconcile of c.
LEMMA FinalizerWorker ==
    ASSUME TypeOK, NEW c \in Claims, EditionOK(c), FinalizerOK(c), Reconcile(c) \/ WorkerStep(c)
    PROVE  FinalizerOK(c)'
<1> DEFINE h == claim[c]
           o == Stored(claim[c])
           k == Key(c)
<1>1. /\ h \in Versions(Claim) /\ o \in Claim /\ o \in Copies(h) /\ c \in DOMAIN claim
      /\ Cached(h) \in Copies(h) /\ Cached(h) \in Claim /\ c \in DOMAIN worker
      /\ Current(h) => o = Cached(h)
  BY StateTypes, VersionsEnds DEF TypeOK
<1>2. ~SyncValue(c) /\ ~SyncAddon(c) => NoneNew(c)
  <2>1. Deleted(remoteAddon[c][k]).life # "live"
    BY StateTypes, AddonWrites
  <2>2. QED BY <2>1, WorkerRemote DEF NoneNew
<1>3. ASSUME UNCHANGED <<claim, cleanupFailed>>, ~SyncValue(c), ~SyncAddon(c),
             \/ worker'[c].pc \in {"idle", "status", "cleanup", "deleteBuild", "deleteAddon", "mirror"}
             \/ worker'[c].pc \in {"connect", "build", "value", "addon"} /\ o.fin
             \/ worker'[c].pc = "finalizer" /\ Cached(h).life = "live"
      PROVE  FinalizerOK(c)'
  <2>1. FinalizerHistory(claim'[c])
    BY <1>3 DEF FinalizerOK
  <2>2. QED BY <1>2, <1>3, <2>1, FinalizerKept
<1>4. PICK v \in 1..MaxVer : v = o.ver
  BY <1>1 DEF Claim
<1>5. ASSUME UNCHANGED claim, worker[c].pc \in CleanupSteps, ~SyncValue(c), ~SyncAddon(c),
             cleanupFailed \subseteq cleanupFailed'
      PROVE  /\ worker'[c].pc = "unfinalize" /\ (c \in cleanupFailed' \/ RemoteClean(c, v)')
                 => FinalizerOK(c)'
             /\ worker'[c].pc = "deleteValue" /\ remoteAddon'[c][CredentialRef[c][v]].life # "live"
                 => FinalizerOK(c)'
  <2>1. o.life \in Out
    BY <1>5 DEF EditionOK, CleanupSteps
  <2>2. o.life = "gone" => RemoteClean(c, v)' \/ c \in cleanupFailed'
    BY <1>2, <1>4, <1>5, CleanPlaces DEF FinalizerOK
  <2>3. FinalizerHistory(claim'[c]) /\ Stored(claim'[c]) = o
    BY <1>5 DEF FinalizerOK
  <2>4. QED BY <1>4, <2>1, <2>2, <2>3 DEF FinalizerOK, Out, Ref
<1>6. ASSUME CleanupFails(c), UNCHANGED claim, worker[c].pc \in CleanupSteps,
             ~SyncValue(c), ~SyncAddon(c)
      PROVE  FinalizerOK(c)'
  <2>1. worker'[c].pc = "unfinalize" /\ cleanupFailed' = cleanupFailed \union {c}
    BY <1>6, PcSteps DEF CleanupFails
  <2>2. QED BY <1>5, <1>6, <2>1
<1>7. CASE Reconcile(c)
  <2>1. UNCHANGED <<claim, cleanupFailed>>
    BY <1>7 DEF Reconcile, Others, objects
  <2>2. Cached(h).life = "live" /\ Cached(h).fin => o.fin
    BY <1>1 DEF FinalizerOK, FinalizerHistory
  <2>3. \/ worker'[c].pc \in {"idle", "status", "cleanup"}
        \/ worker'[c].pc = "finalizer" /\ Cached(h).life = "live"
        \/ worker'[c].pc = "connect" /\ Cached(h).life = "live" /\ Cached(h).fin
    <3>1. /\ Idle.pc = "idle" /\ [Idle EXCEPT !.pc = "cleanup", !.copy = Cached(h)].pc = "cleanup"
          /\ [Idle EXCEPT !.pc = "finalizer", !.copy = Cached(h)].pc = "finalizer"
          /\ Started(Cached(h)).pc \in {"status", "connect"}
      BY PcSteps DEF Idle
    <3>2. QED BY <1>7, <3>1, ReconcileStarts
  <2>4. ~SyncValue(c) /\ ~SyncAddon(c)
    BY <1>7 DEF Reconcile, SyncValue, SyncAddon
  <2>5. QED BY <1>3, <2>1, <2>2, <2>3, <2>4
<1>8. CASE EnsureFinalizer(c)
  <2>1. UNCHANGED cleanupFailed /\ worker[c].pc = "finalizer" /\ ~SyncValue(c) /\ ~SyncAddon(c)
    BY <1>8 DEF EnsureFinalizer, SyncValue, SyncAddon
  <2>2. CASE Cached(h).fin /\ UNCHANGED claim
             /\ worker' = [worker EXCEPT ![c] = Started(worker[c].copy)]
    <3>1. o.fin
      BY <1>1, <2>1, <2>2 DEF FinalizerOK, FinalizerHistory
    <3>2. worker'[c].pc \in {"status", "connect"}
      BY <1>1, <2>2, PcSteps
    <3>3. QED BY <1>3, <2>1, <2>2, <3>1, <3>2
  <2>3. CASE /\ Current(h) /\ Cached(h).life = "live"
             /\ claim' = [claim EXCEPT ![c] = Append(@, [Stored(@) EXCEPT !.fin = TRUE])]
             /\ worker' = [worker EXCEPT ![c] = Started(worker[c].copy)]
    <3> DEFINE n == [o EXCEPT !.fin = TRUE]
    <3>1. n \in Claim /\ n.fin /\ n.life = "live" /\ o.life = "live"
      BY <1>1, <2>3 DEF Claim
    <3>2. claim'[c] = Append(h, n)
      BY <1>1, <2>3
    <3> HIDE DEF n
    <3>3. FinalizerHistory(claim'[c]) /\ Stored(claim'[c]) = n
      <4>1. FinalizerHistory(Append(h, n))
        BY <1>1, <2>3, <3>1, FinalizerHistories DEF FinalizerOK
      <4>2. Stored(Append(h, n)) = n
        BY <1>1, <2>3, <3>1, VersionsAppend
      <4>3. QED BY <3>2, <4>1, <4>2
    <3>4. worker'[c].pc \in {"status", "connect"}
      BY <1>1, <2>3, PcSteps
    <3>5. QED BY <3>1, <3>3, <3>4 DEF FinalizerOK
  <2>4. CASE Returns(c, TRUE) /\ UNCHANGED claim
    BY <1>3, <2>1, <2>4, PcSteps
  <2>5. QED BY <1>8, <2>2, <2>3, <2>4 DEF EnsureFinalizer, FinalizerNeeded
<1>9. CASE Connect(c) \/ BuildClient(c)
  <2>1. UNCHANGED <<claim, cleanupFailed>> /\ ~SyncValue(c) /\ ~SyncAddon(c)
    BY <1>9 DEF Connect, BuildClient, SyncValue, SyncAddon, Others, objects
  <2>2. o.fin
    BY <1>9 DEF Connect, BuildClient, FinalizerOK
  <2>3. worker'[c].pc \in {"status", "build", "value"}
    <3>1. CASE Connect(c)
      <4>1. \/ \E st, r : Conclude(c, st, r)
            \/ Lookup(c, Cached(secret[Key(c)]), "build", "value")
        BY <3>1 DEF Connect
      <4>2. QED BY <4>1, PcSteps
    <3>2. CASE BuildClient(c)
      BY <3>2, PcSteps DEF BuildClient
    <3>3. QED BY <1>9, <3>1, <3>2
  <2>4. QED BY <1>3, <2>1, <2>2, <2>3
<1>10. CASE SyncValue(c) \/ SyncAddon(c)
  <2>1. UNCHANGED <<claim, cleanupFailed>> /\ o.fin
    BY <1>10 DEF SyncValue, SyncAddon, objects, FinalizerOK
  <2>2. worker'[c].pc \in {"status", "addon", "mirror"}
    BY <1>10, PcSteps DEF SyncValue, SyncAddon, WriteFails
  <2>3. o.life # "gone"
    BY <1>1, <2>1 DEF FinalizerOK, FinalizerHistory
  <2>4. QED BY <2>1, <2>2, <2>3 DEF FinalizerOK
<1>11. CASE Mirror(c)
  <2>1. UNCHANGED <<claim, cleanupFailed>> /\ ~SyncValue(c) /\ ~SyncAddon(c)
    BY <1>11 DEF Mirror, SyncValue, SyncAddon, objects
  <2>2. worker'[c].pc = "status"
    BY <1>11, PcSteps DEF Mirror, determineRequeue
  <2>3. QED BY <1>3, <2>1, <2>2
<1>12. CASE UpdateStatus(c)
  <2>1. /\ UNCHANGED cleanupFailed /\ worker'[c].pc = "idle" /\ ~SyncValue(c) /\ ~SyncAddon(c)
    BY <1>12, PcSteps DEF UpdateStatus, SyncValue, SyncAddon
  <2>2. CASE UNCHANGED claim
    BY <1>3, <2>1, <2>2
  <2>3. CASE /\ o.life # "gone" /\ CanWrite(h)
             /\ claim' = [claim EXCEPT ![c] = Written(@, [o EXCEPT !.status = worker[c].status])]
    <3> DEFINE n == [o EXCEPT !.status = worker[c].status]
    <3>1. n \in Claim /\ n.fin = o.fin /\ n.life = o.life /\ n.ver = o.ver
      BY <1>1, StateTypes DEF Claim
    <3>2. claim'[c] = Written(h, n)
      BY <1>1, <2>3
    <3> HIDE DEF n
    <3>3. FinalizerHistory(claim'[c])
      <4>1. FinalizerHistory(h)
        BY DEF FinalizerOK
      <4>2. (n.life = "deleting" => n.fin) /\ (n.life \in {"absent", "gone"} => ~n.fin)
        BY <1>1, <3>1, <4>1 DEF FinalizerHistory
      <4>3. FinalizerHistory(Append(h, n))
        BY <1>1, <2>3, <3>1, <4>1, <4>2, FinalizerHistories
      <4>4. QED BY <3>2, <4>1, <4>3 DEF Written
    <3>4. Stored(claim'[c]) = n
      BY <1>1, <2>3, <3>1, <3>2, VersionsWritten
    <3>5. NoneNew(c)
      BY <1>2, <2>1
    <3>6. QED BY <2>1, <3>1, <3>3, <3>4, <3>5, FinalizerKept
  <2>4. QED BY <1>12, <2>2, <2>3 DEF UpdateStatus
<1>13. CASE Cleanup(c) \/ DeleteBuild(c)
  <2>1. UNCHANGED claim /\ worker[c].pc \in CleanupSteps /\ ~SyncValue(c) /\ ~SyncAddon(c)
    BY <1>13 DEF Cleanup, DeleteBuild, SyncValue, SyncAddon, CleanupSteps, DeletionSteps, objects
  <2>2. \/ CleanupFails(c)
        \/ UNCHANGED cleanupFailed /\ worker'[c].pc \in {"deleteBuild", "deleteAddon"}
    BY <1>13, PcSteps DEF Cleanup, DeleteBuild
  <2>3. QED BY <1>3, <1>6, <2>1, <2>2
<1>14. CASE DeleteAddon(c) \/ DeleteValue(c)
  <2>1. UNCHANGED claim /\ worker[c].pc \in CleanupSteps /\ ~SyncValue(c) /\ ~SyncAddon(c)
    BY <1>14
    DEF DeleteAddon, DeleteValue, SyncValue, SyncAddon, CleanupSteps, DeletionSteps, objects
  <2>2. k = CredentialRef[c][v] /\ worker[c].copy.ver = v /\ k \in Secrets
    BY <1>4, <2>1, StateTypes DEF EditionOK, Key, Ref
  <2>3. ValueLabels[v] \in 1..MaxVer
    BY CleanPlaces
  <2>4. CASE CleanupFails(c)
    BY <1>6, <2>1, <2>4
  <2>5. CASE /\ DeleteAddon(c) /\ Proceed(c, "deleteValue") /\ UNCHANGED cleanupFailed
             /\ remoteAddon' = [remoteAddon EXCEPT ![c][k] = Deleted(@)]
    <3>1. worker'[c].pc = "deleteValue"
      BY <2>5, PcSteps
    <3>2. Deleted(remoteAddon[c][k]) \in RemoteAddon /\ Deleted(remoteAddon[c][k]).life # "live"
      BY StateTypes, AddonWrites
    <3>3. remoteAddon'[c][k] = Deleted(remoteAddon[c][k])
      BY <2>2, <2>5, <3>2, AddonWrite
    <3>4. QED BY <1>5, <2>1, <2>2, <2>5, <3>1, <3>2, <3>3
  <2>6. CASE /\ DeleteValue(c) /\ Proceed(c, "unfinalize") /\ UNCHANGED <<cleanupFailed, remoteAddon>>
             /\ remoteValue' = [remoteValue EXCEPT ![c][k][ValueLabels[v]] = 0]
    <3>1. worker'[c].pc = "unfinalize"
      BY <2>6, PcSteps
    <3>2. remoteValue'[c][k][ValueLabels[v]] = 0
      <4>1. PICK z \in 0..MaxVer : z = 0
        BY ClaimAssumption
      <4>2. PICK s \in Secrets, l \in 1..MaxVer : s = k /\ l = ValueLabels[v]
        BY <2>2, <2>3
      <4>3. remoteValue' = [remoteValue EXCEPT ![c][s][l] = z]
        BY <2>6, <4>1, <4>2
      <4>4. remoteValue'[c][s][l] = z
        <5>1. WritesValue(c, s, l, z)
          BY <4>3 DEF WritesValue
        <5>2. QED BY <5>1, ValueWritten, Zenon
      <4>5. QED BY <4>1, <4>2, <4>4
    <3>3. remoteAddon'[c][k].life # "live"
      BY <1>4, <2>2, <2>6 DEF FinalizerOK, DeleteValue, Ref
    <3>4. RemoteClean(c, v)'
      BY <2>2, <3>2, <3>3 DEF RemoteClean
    <3>5. QED BY <1>5, <2>1, <2>6, <3>1, <3>4
  <2>7. QED BY <1>14, <2>2, <2>4, <2>5, <2>6 DEF DeleteAddon, DeleteValue, DeleteFails
<1>15. CASE Unfinalize(c)
  <2>1. /\ UNCHANGED cleanupFailed /\ worker[c].pc = "unfinalize" /\ worker'[c].pc = "idle"
        /\ ~SyncValue(c) /\ ~SyncAddon(c)
    BY <1>15, PcSteps DEF Unfinalize, SyncValue, SyncAddon
  <2>2. CASE UNCHANGED claim
    BY <1>3, <2>1, <2>2
  <2>3. CASE /\ Current(h) /\ Cached(h).life = "deleting"
             /\ claim' = [claim EXCEPT ![c] =
                    Append(@, [Cached(claim[c]) EXCEPT !.life = "gone", !.fin = FALSE])]
    <3> DEFINE n == [Cached(claim[c]) EXCEPT !.life = "gone", !.fin = FALSE]
    <3>1. n \in Claim /\ ~n.fin /\ n.life = "gone" /\ o.life = "deleting" /\ n.ver = o.ver
      BY <1>1, <2>3 DEF Claim
    <3>2. claim'[c] = Append(h, n)
      BY <1>1, <2>3
    <3> HIDE DEF n
    <3>3. FinalizerHistory(claim'[c]) /\ Stored(claim'[c]) = n
      <4>1. FinalizerHistory(Append(h, n))
        BY <1>1, <2>3, <3>1, FinalizerHistories DEF FinalizerOK
      <4>2. Stored(Append(h, n)) = n
        BY <1>1, <2>3, <3>1, VersionsAppend
      <4>3. QED BY <3>2, <4>1, <4>2
    <3>4. RemoteClean(c, v)' \/ c \in cleanupFailed'
      BY <1>2, <1>4, <2>1, CleanPlaces DEF FinalizerOK
    <3>5. QED BY <1>4, <2>1, <3>1, <3>3, <3>4 DEF FinalizerOK
  <2>4. QED BY <1>15, <2>2, <2>3 DEF Unfinalize
<1>16. QED
  BY <1>7, <1>8, <1>9, <1>10, <1>11, <1>12, <1>13, <1>14, <1>15 DEF WorkerStep

LEMMA FinalizerNext ==
    ASSUME TypeOK, EditionInv, FinalizerInv, [Next]_vars
    PROVE  FinalizerInv'
<1> SUFFICES ASSUME NEW d \in Claims PROVE FinalizerOK(d)'
  BY DEF FinalizerInv
<1>1. EditionOK(d) /\ FinalizerOK(d)
  BY DEF EditionInv, FinalizerInv
<1>2. CASE \E c \in Claims : ClaimStep(c)
  <2>1. PICK c \in Claims : ClaimStep(c)
    BY <1>2
  <2>2. CASE c = d
    BY <1>1, <2>1, <2>2, FinalizerWorld, FinalizerWorker DEF ClaimStep
  <2>3. CASE c # d
    <3>1. SameClaim(d)
      BY <2>1, <2>3, OneClaim
    <3>2. NoneNew(d) /\ FinalizerHistory(claim'[d])
      BY <1>1, <3>1 DEF SameClaim, NoneNew, FinalizerOK
    <3>3. QED BY <1>1, <3>1, <3>2, FinalizerKept DEF SameClaim
  <2>4. QED BY <2>2, <2>3
<1>3. CASE Restart
  <2>1. /\ claim'[d] = <<Stored(claim[d])>> /\ worker'[d] = Idle
        /\ UNCHANGED <<remoteAddon, remoteValue, cleanupFailed>>
    BY <1>3 DEF Restart, remote
  <2>2. claim[d] \in Versions(Claim) /\ Stored(claim[d]) \in Claim
    BY StateTypes, VersionsEnds
  <2>3. FinalizerHistory(claim'[d]) /\ Stored(claim'[d]) = Stored(claim[d])
    BY <1>1, <2>1, <2>2, FinalizerHistories, VersionsOne DEF FinalizerOK
  <2>4. worker'[d].pc = "idle" /\ NoneNew(d)
    BY <2>1 DEF Idle, NoneNew
  <2>5. QED BY <1>1, <2>1, <2>3, <2>4, FinalizerKept
<1>4. CASE ~Restart /\ ~\E c \in Claims : ClaimStep(c)
  <2>1. UNCHANGED <<claim, worker, remoteAddon, remoteValue, cleanupFailed>>
    BY <1>4, NoClaim
  <2>2. NoneNew(d) /\ FinalizerHistory(claim'[d])
    BY <1>1, <2>1 DEF NoneNew, FinalizerOK
  <2>3. QED BY <1>1, <2>1, <2>2, FinalizerKept
<1>5. QED BY <1>2, <1>3, <1>4

\* A claim that is gone has left nothing where its last spec put it unless a cleanup
\* failed, and nothing anywhere but where an earlier spec put it, however stale the
\* copies were that its reconciles worked on, whatever its edits changed, and
\* whenever the process was restarted.
THEOREM ClaimNoRemoteOrphan == Spec => []NoRemoteOrphan
<1>1. Init => EditionInv /\ FinalizerInv
  <2> SUFFICES ASSUME Init, NEW c \in Claims PROVE EditionOK(c) /\ FinalizerOK(c)
    BY DEF EditionInv, FinalizerInv
  <2>1. \E l \in {"live", "absent"} : claim[c] = <<NewClaim(l)>>
    BY DEF Init
  <2>2. \A l \in {"live", "absent"} :
            /\ NewClaim(l) \in Claim /\ ~NewClaim(l).fin /\ NewClaim(l).life = l
    BY NewTypes DEF NewClaim
  <2>3. FinalizerHistory(claim[c]) /\ Stored(claim[c]).life # "gone"
    BY <2>1, <2>2, VersionsOne DEF FinalizerHistory
  <2>4. worker[c].pc = "idle" /\ Untouched(c)
    BY DEF Init, Idle, Untouched, NoRemoteAddon
  <2>5. QED BY <2>3, <2>4, EditionInit DEF FinalizerOK
<1>2. TypeOK /\ EditionInv /\ FinalizerInv => NoRemoteOrphan
  <2> SUFFICES ASSUME TypeOK, EditionInv, FinalizerInv, NEW c \in Claims,
                      Stored(claim[c]).life \in {"absent", "gone"}, c \notin cleanupFailed,
                      NEW s \in Secrets
               PROVE  LET n == Stored(claim[c]).ver
                      IN  /\ remoteAddon[c][s].life = "live" =>
                                /\ s # CredentialRef[c][n]
                                /\ \E v \in 1..(n - 1) : s = CredentialRef[c][v]
                          /\ \A l \in 1..MaxVer : remoteValue[c][s][l] # 0 =>
                                /\ <<s, l>> # <<CredentialRef[c][n], ValueLabels[n]>>
                                /\ \E v \in 1..(n - 1) :
                                      <<s, l>> = <<CredentialRef[c][v], ValueLabels[v]>>
    BY DEF NoRemoteOrphan, Ref
  <2> DEFINE o == Stored(claim[c])
             n == o.ver
  <2>1. o \in Claim /\ o \in Copies(claim[c])
    BY StateTypes, VersionsEnds
  <2>2. n \in 1..MaxVer /\ MaxVer \in Nat
    BY <2>1, ClaimAssumption DEF Claim
  <2>3. RemoteClean(c, n)
    <3>1. CASE o.life = "gone"
      BY <3>1 DEF FinalizerInv, FinalizerOK
    <3>2. CASE o.life = "absent"
      <4>1. ~o.fin
        BY <2>1, <3>2 DEF FinalizerInv, FinalizerOK, FinalizerHistory
      <4>2. Untouched(c)
        BY <3>2, <4>1 DEF FinalizerInv, FinalizerOK
      <4>3. QED BY <2>2, <4>2, CleanPlaces
    <3>3. QED BY <3>1, <3>2
  <2>4. Placed(c, n)
    BY DEF EditionInv, EditionOK
  <2> HIDE DEF n, o
  <2>5. \A v \in 1..n : v = n \/ v \in 1..(n - 1)
    BY <2>2
  <2>6. ASSUME remoteAddon[c][s].life = "live"
        PROVE  s # CredentialRef[c][n] /\ \E v \in 1..(n - 1) : s = CredentialRef[c][v]
    <3>1. s # CredentialRef[c][n]
      BY <2>3, <2>6 DEF RemoteClean
    <3>2. PICK v \in 1..n : s = CredentialRef[c][v]
      BY <2>4, <2>6 DEF Placed
    <3>3. QED BY <2>5, <3>1, <3>2
  <2>7. ASSUME NEW l \in 1..MaxVer, remoteValue[c][s][l] # 0
        PROVE  /\ <<s, l>> # <<CredentialRef[c][n], ValueLabels[n]>>
               /\ \E v \in 1..(n - 1) : <<s, l>> = <<CredentialRef[c][v], ValueLabels[v]>>
    <3>1. <<s, l>> # <<CredentialRef[c][n], ValueLabels[n]>>
      BY <2>3, <2>7 DEF RemoteClean
    <3>2. PICK v \in 1..n : <<s, l>> = <<CredentialRef[c][v], ValueLabels[v]>>
      BY <2>4, <2>7 DEF Placed
    <3>3. QED BY <2>5, <3>1, <3>2
  <2>8. QED BY <2>6, <2>7 DEF n, o
<1>3. TypeOK /\ EditionInv /\ FinalizerInv /\ [Next]_vars => EditionInv' /\ FinalizerInv'
  BY EditionNext, FinalizerNext
<1>4. QED BY <1>1, <1>2, <1>3, ClaimTypeCorrect, PTL DEF Spec

-----------------------------------------------------------------------------
(* Published versions. *)

\* The specs with which some remote Addon of the claim was Ready.
Served(c) == UNION {served[c][s] : s \in Secrets}

\* Every version in a copy of the claim's status was served, what is Ready at its
\* generation is served, and what is mirrored is the spec that was just written
\* or nothing.
VersionOK(c) ==
    /\ \A x \in Copies(claim[c]) : x.status.version \in Served(c) \union {0}
    /\ worker[c].copy.status.version \in Served(c) \union {0}
    /\ worker[c].status.version \in Served(c) \union {0}
    /\ \A s \in Secrets : isAddonReadyAtCurrentGeneration(remoteAddon[c][s]) =>
                              remoteAddon[c][s].spec \in served[c][s]
    /\ worker[c].pc = "mirror" => remoteAddon[c][Key(c)].spec \in {AddonSpec[worker[c].copy.ver], 0}

VersionInv == \A c \in Claims : VersionOK(c)

LEMMA VersionWorld ==
    ASSUME TypeOK, NEW c \in Claims, VersionOK(c),
           UserStep(c) \/ DeliverClaim(c) \/ RemoteStep(c)
    PROVE  VersionOK(c)'
<1> DEFINE h == claim[c]
           o == Stored(claim[c])
<1>1. h \in Versions(Claim) /\ o \in Claim /\ o \in Copies(h) /\ c \in DOMAIN claim
  BY StateTypes, VersionsEnds DEF TypeOK
<1>2. CASE UserStep(c)
  <2>1. PICK n \in Claim : (\E k : Put(c, n, k)) /\ n.status.version \in {o.status.version, 0}
    BY <1>2, UserPuts
  <2>2. /\ CanWrite(h) /\ claim'[c] = Append(h, n)
        /\ UNCHANGED <<worker, remoteAddon, served>>
    BY <1>1, <2>1 DEF Put, Change, remote
  <2>3. Copies(claim'[c]) = Copies(h) \union {n}
    BY <1>1, <2>2, VersionsAppend
  <2>4. Served(c)' = Served(c)
    BY <2>2 DEF Served
  <2>5. \A x \in Copies(claim'[c]) : x.status.version \in Served(c)' \union {0}
    BY <1>1, <2>1, <2>3, <2>4 DEF VersionOK
  <2>6. QED BY <2>2, <2>4, <2>5 DEF VersionOK, isAddonReadyAtCurrentGeneration, Key, Ref
<1>3. CASE DeliverClaim(c)
  <2>1. /\ ~Current(h) /\ claim'[c] = Tail(h) /\ UNCHANGED <<worker, remoteAddon, served>>
    BY <1>1, <1>3 DEF DeliverClaim, remote
  <2>2. Copies(claim'[c]) \subseteq Copies(h)
    BY <1>1, <2>1, VersionsTail
  <2>3. Served(c)' = Served(c)
    BY <2>1 DEF Served
  <2>4. QED BY <2>1, <2>2, <2>3 DEF VersionOK, isAddonReadyAtCurrentGeneration, Key, Ref
<1>4. CASE RemoteStep(c)
  <2>1. UNCHANGED <<claim, worker>>
    BY <1>4, RemoteWrites
  <2>2. \A s \in Secrets :
            /\ served[c][s] \subseteq served'[c][s]
            /\ isAddonReadyAtCurrentGeneration(remoteAddon'[c][s]) =>
                  remoteAddon'[c][s].spec \in served'[c][s]
            /\ remoteAddon'[c][s].spec \in {remoteAddon[c][s].spec, 0}
    <3>1. PICK s \in Secrets :
              /\ \A t \in Secrets \ {s} :
                    remoteAddon'[c][t] = remoteAddon[c][t] /\ served'[c][t] = served[c][t]
              /\ \/ /\ remoteAddon'[c][s].spec = remoteAddon[c][s].spec
                    /\ served[c][s] \subseteq served'[c][s]
                    /\ \/ remoteAddon[c][s].spec \in served'[c][s]
                       \/ ~isAddonReadyAtCurrentGeneration(remoteAddon'[c][s])
                 \/ remoteAddon'[c][s] = NoRemoteAddon /\ served'[c][s] = served[c][s]
      BY <1>4, RemoteWrites
    <3>2. ~isAddonReadyAtCurrentGeneration(NoRemoteAddon) /\ NoRemoteAddon.spec = 0
      BY DEF isAddonReadyAtCurrentGeneration, NoRemoteAddon
    <3>3. \A t \in Secrets \ {s} : isAddonReadyAtCurrentGeneration(remoteAddon'[c][t]) =>
              remoteAddon'[c][t].spec \in served'[c][t]
      BY <3>1 DEF VersionOK
    <3>4. /\ served[c][s] \subseteq served'[c][s]
          /\ isAddonReadyAtCurrentGeneration(remoteAddon'[c][s]) =>
                remoteAddon'[c][s].spec \in served'[c][s]
          /\ remoteAddon'[c][s].spec \in {remoteAddon[c][s].spec, 0}
      BY <3>1, <3>2
    <3>5. QED BY <3>1, <3>3, <3>4
  <2>3. Served(c) \subseteq Served(c)'
    BY <2>2 DEF Served
  <2>4. Key(c)' = Key(c) /\ Key(c) \in Secrets
    BY <2>1, StateTypes DEF Key, Ref
  <2>5. \A s \in Secrets : isAddonReadyAtCurrentGeneration(remoteAddon[c][s])' =>
            remoteAddon'[c][s].spec \in served'[c][s]
    BY <2>2 DEF isAddonReadyAtCurrentGeneration
  <2>6. worker'[c].pc = "mirror" =>
            remoteAddon'[c][Key(c)'].spec \in {AddonSpec[worker'[c].copy.ver], 0}
    BY <2>1, <2>2, <2>4 DEF VersionOK
  <2>7. QED BY <2>1, <2>3, <2>5, <2>6 DEF VersionOK
<1>5. QED BY <1>2, <1>3, <1>4

\* The versions that a step of the reconcile carries along.
LEMMA VersionLocals ==
    ASSUME TypeOK, NEW c \in Claims, VersionOK(c)
    PROVE  LET S == Served(c) \union {0}
           IN  /\ Idle.copy.status.version = 0 /\ Idle.status.version = 0
               /\ \A o \in Claim : o.status.version \in S =>
                     /\ Started(o).copy.status.version \in S
                     /\ Started(o).status.version \in S
                     /\ Started(o).pc # "mirror"
               /\ \A st \in Status : st.version \in S /\ Concludes(c, st) =>
                     /\ worker'[c].copy.status.version \in S
                     /\ worker'[c].status.version \in S
                     /\ worker'[c].pc # "mirror"
<1> DEFINE S == Served(c) \union {0}
<1>1. Idle.copy.status.version = 0 /\ Idle.status.version = 0
  BY DEF Idle, NewClaim, NewStatus
<1>2. ASSUME NEW o \in Claim, o.status.version \in S
      PROVE  /\ Started(o).copy.status.version \in S /\ Started(o).status.version \in S
             /\ Started(o).pc # "mirror"
  <2>1. CASE o.paused
    BY <1>1, <1>2, <2>1, StartedFields
  <2>2. CASE ~o.paused
    <3> DEFINE n == [o EXCEPT !.status = With(@, EnsureAllConditions(@.conds))]
    <3>1. Started(o) = [Idle EXCEPT !.pc = "connect", !.copy = n]
          /\ n.status.version = o.status.version
      BY <2>2, StartedFields
    <3> HIDE DEF n
    <3>2. /\ Started(o).copy = n /\ Started(o).status = Idle.status
          /\ Started(o).pc = "connect"
      BY <3>1 DEF Idle
    <3>3. QED BY <1>1, <1>2, <3>1, <3>2
  <2>3. QED BY <2>1, <2>2
<1>3. ASSUME NEW st \in Status, st.version \in S, Concludes(c, st)
      PROVE  /\ worker'[c].copy.status.version \in S /\ worker'[c].status.version \in S
             /\ worker'[c].pc # "mirror"
  <2>2. /\ worker'[c].pc = "status" /\ worker'[c].status.version = st.version
        /\ worker'[c].copy = Idle.copy
    BY <1>3, ConcludeFields DEF Writing
  <2> HIDE DEF S
  <2>3. 0 \in S
    BY DEF S
  <2>4. QED BY <1>1, <1>3, <2>2, <2>3
<1>4. QED BY <1>1, <1>2, <1>3

LEMMA VersionWorker ==
    ASSUME TypeOK, ~ReadFails, NEW c \in Claims, VersionOK(c), Reconcile(c) \/ WorkerStep(c)
    PROVE  VersionOK(c)'
<1> DEFINE h == claim[c]
           o == Stored(claim[c])
           S == Served(c) \union {0}
           n == worker[c].copy.status
           Carried == worker'[c].copy.status.version \in S /\ worker'[c].status.version \in S
<1>1. /\ h \in Versions(Claim) /\ o \in Claim /\ o \in Copies(h) /\ c \in DOMAIN claim
      /\ Cached(h) \in Copies(h) /\ Cached(h) \in Claim /\ c \in DOMAIN worker
      /\ Current(h) => o = Cached(h)
  BY StateTypes, VersionsEnds DEF TypeOK
<1>2. /\ worker[c].copy \in Claim /\ n \in Status /\ n.version \in S
      /\ worker[c].status \in Status /\ worker[c].status.version \in S
  BY StateTypes DEF VersionOK
<1>3. ASSUME UNCHANGED served, Carried,
             claim'[c] = h \/ \E x \in Claim : /\ claim'[c] = Append(h, x) /\ x.status.version \in S
                                               /\ CanWrite(h) \/ Current(h),
             \A s \in Secrets : /\ remoteAddon'[c][s].spec = remoteAddon[c][s].spec
                                  /\ remoteAddon'[c][s].seen = remoteAddon[c][s].seen
                                  /\ remoteAddon'[c][s].ready = remoteAddon[c][s].ready,
             worker'[c].pc # "mirror"
      PROVE  VersionOK(c)'
  <2>1. \A x \in Copies(claim'[c]) : x.status.version \in S
    <3>1. CASE claim'[c] = h
      BY <3>1 DEF VersionOK
    <3>2. ASSUME NEW x \in Claim, claim'[c] = Append(h, x), x.status.version \in S,
                 CanWrite(h) \/ Current(h)
          PROVE  \A y \in Copies(claim'[c]) : y.status.version \in S
      <4>1. Copies(claim'[c]) = Copies(h) \union {x}
        BY <1>1, <3>2, VersionsAppend
      <4>2. QED BY <3>2, <4>1 DEF VersionOK
    <3>3. QED BY <1>3, <3>1, <3>2
  <2> HIDE DEF h
  <2>2. Served(c)' = Served(c)
    BY <1>3 DEF Served
  <2>3. \A s \in Secrets : isAddonReadyAtCurrentGeneration(remoteAddon[c][s])' =>
            remoteAddon'[c][s].spec \in served'[c][s]
    BY <1>3 DEF VersionOK, isAddonReadyAtCurrentGeneration
  <2>4. QED BY <1>3, <2>1, <2>2, <2>3 DEF VersionOK
<1>4. \A st \in Status : \A cs : With(st, cs).version = st.version
  BY DEF With, Status
<1>5. \A why \in Reasons : /\ With(n, SetDegraded(why)) \in Status
                           /\ With(n, SetProgressing(why)) \in Status
  BY VerdictTypes
<1>6. ASSUME NEW why \in Reasons,
             \/ Concludes(c, With(n, SetDegraded(why)))
             \/ Concludes(c, With(n, SetProgressing(why)))
      PROVE  Carried /\ worker'[c].pc = "status"
  <2>1. worker'[c].pc = "status"
    BY <1>6, PcSteps DEF Concludes
  <2>2. QED BY <1>2, <1>4, <1>5, <1>6, <2>1, VersionLocals
<1>7. /\ "RemoteClientFailed" \in Reasons /\ "RemoteNotReady" \in Reasons
      /\ "RemoteRequestInvalid" \in Reasons /\ "RemoteOperationFailed" \in Reasons
      /\ "FullyReconciled" \in Reasons /\ "AddonNotReady" \in Reasons
  BY DEF Reasons
<1>8. \A k : handleRemoteSyncError(c, k) => Carried /\ worker'[c].pc = "status"
  BY <1>6, <1>7 DEF handleRemoteSyncError, Concludes
<1>9. /\ \A r : Returns(c, r) => Carried /\ worker'[c].pc = "idle"
      /\ CleanupFails(c) => Carried /\ worker'[c].pc = "unfinalize"
  <2>1. [Idle EXCEPT !.pc = "unfinalize"].copy = Idle.copy
        /\ [Idle EXCEPT !.pc = "unfinalize"].status = Idle.status
    BY DEF Idle
  <2>2. QED BY <2>1, PcSteps, LocalSteps, VersionLocals
<1>10. /\ \A s, b, m : Lookup(c, s, b, m) => Carried /\ worker'[c].pc \in {b, m}
       /\ \A m : Built(c, m) => Carried /\ worker'[c].pc = m
       /\ \A m : Proceed(c, m) => /\ Carried /\ worker'[c].pc = m
                                  /\ worker'[c].copy = worker[c].copy
  BY <1>2, LocalSteps, PcSteps
<1> HIDE DEF Carried
<1>11. CASE Reconcile(c)
  <2>1. UNCHANGED <<claim, remoteAddon, served>>
    BY <1>11 DEF Reconcile, Others, objects, remote
  <2>2. Carried /\ worker'[c].pc # "mirror"
    <3>1. Cached(h).status.version \in S
      BY <1>1 DEF VersionOK
    <3>2. /\ Started(Cached(h)).copy.status.version \in S
          /\ Started(Cached(h)).status.version \in S /\ Started(Cached(h)).pc # "mirror"
      BY <1>1, <3>1, VersionLocals
    <3>3. ASSUME NEW w, worker'[c] = w,
                 \/ w = Idle \/ w = [Idle EXCEPT !.pc = "cleanup", !.copy = Cached(h)]
                 \/ w = [Idle EXCEPT !.pc = "finalizer", !.copy = Cached(h)]
          PROVE  Carried /\ worker'[c].pc # "mirror"
      <4>1. w.status = Idle.status /\ w.copy \in {Idle.copy, Cached(h)} /\ w.pc # "mirror"
        <5> HIDE DEF h
        <5>1. CASE w = Idle
          BY <5>1 DEF Idle
        <5>2. CASE w = [Idle EXCEPT !.pc = "cleanup", !.copy = Cached(h)]
          BY <5>2 DEF Idle
        <5>3. CASE w = [Idle EXCEPT !.pc = "finalizer", !.copy = Cached(h)]
          BY <5>3 DEF Idle
        <5>4. QED BY <3>3, <5>1, <5>2, <5>3
      <4>2. QED BY <3>1, <3>3, <4>1, VersionLocals DEF Carried
    <3>4. QED BY <1>11, <3>2, <3>3, ReconcileStarts DEF Carried
  <2>3. QED BY <1>3, <2>1, <2>2
<1>12. CASE EnsureFinalizer(c)
  <2>1. UNCHANGED <<remoteAddon, served>>
    BY <1>12 DEF EnsureFinalizer, remote
  <2>2. Carried /\ worker'[c].pc # "mirror"
    <3>1. /\ Started(worker[c].copy).copy.status.version \in S
          /\ Started(worker[c].copy).status.version \in S
          /\ Started(worker[c].copy).pc # "mirror"
      BY <1>2, VersionLocals
    <3>2. worker'[c] = Started(worker[c].copy) \/ Returns(c, TRUE)
      BY <1>1, <1>12 DEF EnsureFinalizer
    <3>3. QED BY <1>9, <3>1, <3>2 DEF Carried
  <2>3. \/ claim'[c] = h
        \/ Current(h) /\ claim'[c] = Append(h, [o EXCEPT !.fin = TRUE])
    BY <1>1, <1>12 DEF EnsureFinalizer
  <2>4. [o EXCEPT !.fin = TRUE] \in Claim /\ [o EXCEPT !.fin = TRUE].status = o.status
    BY <1>1 DEF Claim
  <2>5. o.status.version \in S
    BY <1>1 DEF VersionOK
  <2>6. QED BY <1>3, <2>1, <2>2, <2>3, <2>4, <2>5
<1>13. CASE Connect(c)
  <2>1. UNCHANGED <<claim, remoteAddon, served>>
    BY <1>13 DEF Connect, Others, objects, remote
  <2>2. Carried /\ worker'[c].pc # "mirror"
    <3> DEFINE s == Cached(secret[Key(c)])
    <3>1. ConnectProblem(s) # "" => ConnectProblem(s) \in Reasons
      BY DEF ConnectProblem, Reasons
    <3>2. \/ \E why \in Reasons : \/ Concludes(c, With(n, SetDegraded(why)))
                                  \/ Concludes(c, With(n, SetProgressing(why)))
          \/ Lookup(c, s, "build", "value")
      BY <1>7, <1>13, <3>1 DEF Connect, Concludes
    <3>3. QED BY <1>6, <1>10, <3>2
  <2>3. QED BY <1>3, <2>1, <2>2
<1>14. CASE BuildClient(c) \/ Cleanup(c) \/ DeleteBuild(c)
  <2>1. UNCHANGED <<claim, remoteAddon, served>>
    BY <1>14 DEF BuildClient, Cleanup, DeleteBuild, Others, objects, remote
  <2>2. Carried /\ worker'[c].pc # "mirror"
    <3>1. CASE BuildClient(c)
      <4>1. Built(c, "value") \/ Concludes(c, With(n, SetDegraded("RemoteClientFailed")))
        BY <3>1 DEF BuildClient, Concludes
      <4>2. QED BY <1>6, <1>7, <1>10, <4>1
    <3>2. CASE Cleanup(c) \/ DeleteBuild(c)
      BY <1>9, <1>10, <3>2 DEF Cleanup, DeleteBuild
    <3>3. QED BY <1>14, <3>1, <3>2
  <2>3. QED BY <1>3, <2>1, <2>2
<1>15. CASE SyncValue(c) \/ DeleteValue(c)
  <2>1. UNCHANGED <<claim, remoteAddon, served>>
    BY <1>15 DEF SyncValue, DeleteValue, objects
  <2>2. Carried /\ worker'[c].pc # "mirror"
    BY <1>8, <1>9, <1>10, <1>15 DEF SyncValue, WriteFails, DeleteValue, DeleteFails
  <2>3. QED BY <1>3, <2>1, <2>2
<1>16. CASE SyncAddon(c)
  <2>1. UNCHANGED <<claim, served>>
    BY <1>16 DEF SyncAddon, objects
  <2> DEFINE k == Key(c)
             a == remoteAddon[c][k]
             spec == AddonSpec[worker[c].copy.ver]
  <2>2. k \in Secrets /\ a \in RemoteAddon /\ spec \in 1..MaxVer
    BY StateTypes, EditionAssumption
  <2>3. /\ Updated(a, spec).spec = spec /\ Updated(a, spec) \in RemoteAddon
        /\ isAddonReadyAtCurrentGeneration(Updated(a, spec)) =>
              a.spec = spec /\ isAddonReadyAtCurrentGeneration(a)
    <3> HIDE DEF a, spec
    <3>1. QED BY <2>2, AddonWrites
  <2>4. /\ \A s \in Secrets \ {k} : remoteAddon'[c][s] = remoteAddon[c][s]
        /\ remoteAddon'[c][k] = a \/ remoteAddon'[c][k] = Updated(a, spec)
    BY <1>16, WorkerRemote DEF DeleteAddon, SyncAddon
  <2>5. /\ Carried
        /\ worker'[c].pc = "mirror" =>
               /\ remoteAddon' = [remoteAddon EXCEPT ![c][k] = Updated(@, spec)]
               /\ worker'[c].copy = worker[c].copy
    BY <1>8, <1>10, <1>16 DEF SyncAddon, WriteFails
  <2>6. worker'[c].pc = "mirror" =>
            remoteAddon'[c][Key(c)'].spec \in {AddonSpec[worker'[c].copy.ver], 0}
    <3> HAVE worker'[c].pc = "mirror"
    <3>1. remoteAddon' = [remoteAddon EXCEPT ![c][k] = Updated(a, spec)]
      BY <2>5
    <3>2. remoteAddon'[c][k] = Updated(a, spec)
      BY <2>2, <2>3, <3>1, AddonWrite
    <3>3. Key(c)' = k
      BY <2>5 DEF Key, Ref
    <3>4. QED BY <2>3, <2>5, <3>2, <3>3
  <2>7. \A s \in Secrets : isAddonReadyAtCurrentGeneration(remoteAddon'[c][s]) =>
            remoteAddon'[c][s].spec \in served[c][s]
    <3> HIDE DEF k
    <3>1. isAddonReadyAtCurrentGeneration(remoteAddon'[c][k]) => remoteAddon'[c][k].spec \in served[c][k]
      BY <2>2, <2>3, <2>4 DEF VersionOK
    <3>2. QED BY <2>4, <3>1 DEF VersionOK
  <2>8. \A s \in Secrets : isAddonReadyAtCurrentGeneration(remoteAddon[c][s])' =>
            remoteAddon'[c][s].spec \in served'[c][s]
    BY <2>1, <2>7 DEF isAddonReadyAtCurrentGeneration
  <2>9. Served(c)' = Served(c)
    BY <2>1 DEF Served
  <2> HIDE DEF k, a, spec
  <2>10. QED BY <2>1, <2>5, <2>6, <2>8, <2>9 DEF VersionOK, Carried
<1>17. CASE Mirror(c)
  <2> DEFINE r == IF isAddonReadyAtCurrentGeneration(remoteAddon[c][Key(c)]) THEN "true" ELSE "false"
             m == [n EXCEPT !.ready = r]
             e == syncExternalStatus(c, m)
  <2>1. UNCHANGED <<claim, remoteAddon, served>> /\ worker[c].pc = "mirror"
    BY <1>17 DEF Mirror, objects, remote
  <2>2. determineRequeue(c, e)
    BY <1>17 DEF Mirror
  <2>3. m \in Status /\ m.ready = r /\ m.version = n.version
    BY <1>2 DEF Status
  <2>4. e \in Status /\ e.version \in S
    <3> DEFINE spec == AddonSpec[worker[c].copy.ver]
    <3>1. r = "true" => spec \in Served(c)
      <4>1. Key(c) \in Secrets /\ served[c][Key(c)] \subseteq 1..MaxVer
        BY StateTypes DEF TypeOK
      <4>2. r = "true" => remoteAddon[c][Key(c)].spec \in served[c][Key(c)]
        BY <4>1 DEF VersionOK
      <4>3. 0 \notin 1..MaxVer
        OBVIOUS
      <4>4. r = "true" => spec \in served[c][Key(c)]
        BY <2>1, <4>1, <4>2, <4>3 DEF VersionOK
      <4>5. QED BY <4>1, <4>4 DEF Served
    <3>2. spec \in 0..MaxVer /\ 0 \in 0..MaxVer
      <4>1. worker[c].copy.ver \in 1..MaxVer
        BY StateTypes
      <4>2. spec \in 1..MaxVer
        BY <4>1, EditionAssumption
      <4>3. QED BY <4>2, ClaimAssumption
    <3>3. e = [m EXCEPT !.version = IF c \notin ControlPlanes THEN 0
                                    ELSE IF m.ready = "true" THEN spec ELSE @]
      BY DEF syncExternalStatus
    <3> HIDE DEF m, r, e, spec
    <3>4. QED BY <1>2, <2>3, <3>1, <3>2, <3>3 DEF Status
  <2>5. Carried /\ worker'[c].pc # "mirror"
    <3> HIDE DEF e
    <3>1. e.conds \in Conditions
      BY <2>4 DEF Status
    <3>2. /\ With(e, SetReady("FullyReconciled")) \in Status
          /\ With(e, SetProgressing("AddonNotReady")) \in Status
      BY <1>7, <2>4, <3>1, ConditionTypes, WithTypes
    <3>3. /\ With(e, SetReady("FullyReconciled")).version \in S
          /\ With(e, SetProgressing("AddonNotReady")).version \in S
      BY <1>4, <2>4
    <3>4. \/ Conclude(c, With(e, SetReady("FullyReconciled")), FALSE)
          \/ Conclude(c, With(e, SetProgressing("AddonNotReady")), TRUE)
      BY <2>2 DEF determineRequeue
    <3>5. QED BY <3>2, <3>3, <3>4, VersionLocals DEF Carried, Concludes
  <2>6. QED BY <1>3, <2>1, <2>5
<1>18. CASE UpdateStatus(c)
  <2>1. UNCHANGED <<remoteAddon, served>>
    BY <1>18 DEF UpdateStatus, remote
  <2>2. Carried /\ worker'[c].pc # "mirror"
    BY <1>9, <1>18 DEF UpdateStatus
  <2> DEFINE x == [o EXCEPT !.status = worker[c].status]
  <2>3. \/ claim'[c] = h
        \/ CanWrite(h) /\ claim'[c] = Append(h, x)
    BY <1>1, <1>18 DEF UpdateStatus, Written
  <2>4. x \in Claim /\ x.status.version \in S
    BY <1>1, <1>2 DEF Claim
  <2> HIDE DEF x
  <2>5. QED BY <1>3, <2>1, <2>2, <2>3, <2>4
<1>19. CASE DeleteAddon(c)
  <2>1. UNCHANGED <<claim, served>>
    BY <1>19 DEF DeleteAddon, objects
  <2>2. \A s \in Secrets : /\ remoteAddon'[c][s].spec = remoteAddon[c][s].spec
                            /\ remoteAddon'[c][s].seen = remoteAddon[c][s].seen
                            /\ remoteAddon'[c][s].ready = remoteAddon[c][s].ready
    <3> DEFINE a == remoteAddon[c][Key(c)]
    <3>1. Deleted(a).spec = a.spec /\ Deleted(a).seen = a.seen /\ Deleted(a).ready = a.ready
      BY StateTypes, AddonWrites
    <3>2. /\ \A s \in Secrets \ {Key(c)} : remoteAddon'[c][s] = remoteAddon[c][s]
          /\ remoteAddon'[c][Key(c)] = a \/ remoteAddon'[c][Key(c)] = Deleted(a)
      BY <1>19, WorkerRemote DEF DeleteAddon, SyncAddon
    <3>3. QED BY <3>1, <3>2
  <2>3. Carried /\ worker'[c].pc # "mirror"
    BY <1>9, <1>10, <1>19 DEF DeleteAddon, DeleteFails
  <2>4. QED BY <1>3, <2>1, <2>2, <2>3
<1>20. CASE Unfinalize(c)
  <2>1. UNCHANGED <<remoteAddon, served>>
    BY <1>20 DEF Unfinalize, remote
  <2>2. Carried /\ worker'[c].pc # "mirror"
    BY <1>9, <1>20 DEF Unfinalize
  <2> DEFINE x == [Cached(claim[c]) EXCEPT !.life = "gone", !.fin = FALSE]
  <2>3. \/ claim'[c] = h
        \/ Current(h) /\ claim'[c] = Append(h, x)
    BY <1>1, <1>20 DEF Unfinalize
  <2>4. x \in Claim /\ x.status = Cached(h).status
    BY <1>1 DEF Claim
  <2>5. Cached(h).status.version \in S
    BY <1>1 DEF VersionOK
  <2> HIDE DEF x
  <2>6. QED BY <1>3, <2>1, <2>2, <2>3, <2>4, <2>5
<1>21. QED BY <1>11, <1>12, <1>13, <1>14, <1>15, <1>16, <1>17, <1>18, <1>19, <1>20 DEF WorkerStep

LEMMA VersionNext ==
    ASSUME TypeOK, ~ReadFails, VersionInv, [Next]_vars
    PROVE  VersionInv'
<1> SUFFICES ASSUME NEW d \in Claims PROVE VersionOK(d)'
  BY DEF VersionInv
<1>1. VersionOK(d)
  BY DEF VersionInv
<1>2. CASE \E c \in Claims : ClaimStep(c)
  <2>1. PICK c \in Claims : ClaimStep(c)
    BY <1>2
  <2>2. CASE c = d
    BY <1>1, <2>1, <2>2, VersionWorld, VersionWorker DEF ClaimStep
  <2>3. CASE c # d
    <3>1. SameClaim(d)
      BY <2>1, <2>3, OneClaim
    <3>2. Served(d)' = Served(d)
      BY <3>1 DEF SameClaim, Served
    <3>3. QED BY <1>1, <3>1, <3>2 DEF SameClaim, VersionOK, isAddonReadyAtCurrentGeneration, Key, Ref
  <2>4. QED BY <2>2, <2>3
<1>3. CASE Restart
  <2>1. /\ claim'[d] = <<Stored(claim[d])>> /\ worker'[d] = Idle
        /\ UNCHANGED <<remoteAddon, served>>
    BY <1>3 DEF Restart, remote
  <2>2. claim[d] \in Versions(Claim) /\ Stored(claim[d]) \in Claim /\ Stored(claim[d]) \in Copies(claim[d])
    BY StateTypes, VersionsEnds
  <2>3. Copies(claim'[d]) = {Stored(claim[d])}
    BY <2>1, <2>2, VersionsOne
  <2>4. worker'[d].pc = "idle" /\ worker'[d].copy.status.version = 0 /\ worker'[d].status.version = 0
    BY <2>1 DEF Idle, NewClaim, NewStatus
  <2>5. Served(d)' = Served(d)
    BY <2>1 DEF Served
  <2>6. QED BY <1>1, <2>1, <2>2, <2>3, <2>4, <2>5 DEF VersionOK, isAddonReadyAtCurrentGeneration
<1>4. CASE ~Restart /\ ~\E c \in Claims : ClaimStep(c)
  <2>1. UNCHANGED <<claim, worker, remoteAddon, served>>
    BY <1>4, NoClaim
  <2>2. Served(d)' = Served(d)
    BY <2>1 DEF Served
  <2>3. QED BY <1>1, <2>1, <2>2 DEF VersionOK, isAddonReadyAtCurrentGeneration, Key, Ref
<1>5. QED BY <1>2, <1>3, <1>4

LEMMA VersionInit ==
    ASSUME Init
    PROVE  VersionInv
<1> SUFFICES ASSUME NEW c \in Claims PROVE VersionOK(c)
  BY DEF VersionInv
<1>1. \E l \in {"live", "absent"} : claim[c] = <<NewClaim(l)>>
  BY DEF Init
<1>2. \A l \in {"live", "absent"} : NewClaim(l) \in Claim /\ NewClaim(l).status.version = 0
  BY NewTypes DEF NewClaim, NewStatus
<1>3. \A x \in Copies(claim[c]) : x.status.version = 0
  BY <1>1, <1>2, VersionsOne
<1>4. /\ worker[c].pc = "idle" /\ worker[c].copy.status.version = 0
      /\ worker[c].status.version = 0
  BY DEF Init, Idle, NewClaim, NewStatus
<1>5. \A s \in Secrets : ~isAddonReadyAtCurrentGeneration(remoteAddon[c][s])
  BY DEF Init, NoRemoteAddon, isAddonReadyAtCurrentGeneration
<1>6. QED BY <1>3, <1>4, <1>5 DEF VersionOK

\* As long as the remote Addon can be read after it was written, a published
\* version has been served, whatever copy of the claim the reconcile worked on
\* and however its spec was edited meanwhile.  Without that premise it is wrong:
\* see the run ClaimVersion.
THEOREM ClaimVersionSound ==
    ASSUME ~ReadFails
    PROVE  Spec => []VersionSound
<1>1. Init => VersionInv
  BY VersionInit
<1>2. TypeOK /\ VersionInv => VersionSound
  <2> SUFFICES ASSUME TypeOK, VersionInv, NEW c \in Claims
               PROVE  Stored(claim[c]).status.version \in Served(c) \union {0}
    BY DEF VersionSound, Served
  <2>1. Stored(claim[c]) \in Copies(claim[c])
    BY StateTypes, VersionsEnds
  <2>2. QED BY <2>1 DEF VersionInv, VersionOK
<1>3. TypeOK /\ VersionInv /\ [Next]_vars => VersionInv'
  BY VersionNext
<1>4. QED BY <1>1, <1>2, <1>3, ClaimTypeCorrect, PTL DEF Spec

-----------------------------------------------------------------------------
(* Secrets and the clients built from them. *)

\* The editions of a Secret identify it, and the cached client was built from a
\* kubeconfig.
SecretOK(s) ==
    /\ \A x, y \in Copies(secret[s]) : x.edition = y.edition => x = y
    /\ \A x \in Copies(secret[s]) : x.edition <= Stored(secret[s]).edition
    /\ clients[s] <= Stored(secret[s]).edition
    /\ \A x \in Copies(secret[s]) : x.edition = clients[s] => x.kind # "garbled"

\* A reconcile that is building a client has a Secret that is, or once was, stored.
BuildOK(c) ==
    worker[c].pc \in {"build", "deleteBuild"} =>
        /\ worker[c].secret.edition <= Stored(secret[Key(c)]).edition
        /\ \A x \in Copies(secret[Key(c)]) :
              x.edition = worker[c].secret.edition => x = worker[c].secret

SecretInv == (\A s \in Secrets : SecretOK(s)) /\ (\A c \in Claims : BuildOK(c))

LEMMA SecretParts ==
    ASSUME TypeOK, NEW s \in Secrets
    PROVE  /\ secret[s] \in Versions(Secret) /\ s \in DOMAIN secret
           /\ Cached(secret[s]) \in Copies(secret[s]) /\ Stored(secret[s]) \in Copies(secret[s])
           /\ Cached(secret[s]) \in Secret /\ Stored(secret[s]) \in Secret
           /\ \A x \in Copies(secret[s]) : x \in Secret /\ x.edition \in 1..MaxEdition
           /\ clients[s] \in 0..MaxEdition
<1>1. secret[s] \in Versions(Secret) /\ s \in DOMAIN secret /\ clients[s] \in 0..MaxEdition
  BY DEF TypeOK, CacheTypeOK
<1>2. /\ Cached(secret[s]) \in Copies(secret[s]) /\ Stored(secret[s]) \in Copies(secret[s])
      /\ Copies(secret[s]) \subseteq Secret
  BY <1>1, VersionsEnds
<1>3. QED BY <1>1, <1>2 DEF Secret

\* What a step about c does to the clients and to the Secret it builds from.
LEMMA ClientSteps ==
    ASSUME TypeOK, NEW c \in Claims, ClaimStep(c)
    PROVE  /\ \/ UNCHANGED clients
              \/ /\ worker[c].pc \in {"build", "deleteBuild"} /\ worker[c].secret.kind # "garbled"
                 /\ clients' = [clients EXCEPT ![Key(c)] = worker[c].secret.edition]
           /\ worker'[c].pc \in {"build", "deleteBuild"} =>
                 \/ worker'[c] = worker[c]
                 \/ /\ worker'[c].secret = Cached(secret[Key(c)])
                    /\ worker'[c].copy = worker[c].copy
<1>1. CASE UserStep(c) \/ DeliverClaim(c) \/ RemoteStep(c)
  <2>1. UNCHANGED <<worker, clients>>
    BY <1>1 DEF UserStep, CreateClaim, EditClaim, PauseClaim, DeleteClaim, Put, Change, DeliverClaim,
                RemoteStep, RemoteReport, RemoteObserve, RemoteUnready, RemoteGone, RemoteElse,
                cacheVars
  <2>2. QED BY <2>1
<1>2. \A k : handleRemoteSyncError(c, k) => UNCHANGED clients /\ worker'[c].pc = "status"
  BY PcSteps DEF handleRemoteSyncError, cacheVars, RecordFailure
<1>3. \A n : Proceed(c, n) => UNCHANGED clients /\ worker'[c].pc = n
  BY PcSteps DEF Proceed, cacheVars
<1>4. \A n : Built(c, n) =>
          /\ worker[c].secret.kind # "garbled" /\ worker'[c].pc = n
          /\ clients' = [clients EXCEPT ![Key(c)] = worker[c].secret.edition]
  BY PcSteps DEF Built, StoreClient, ClientAfterBuild
<1>5. CASE Reconcile(c) \/ EnsureFinalizer(c)
  <2>1. UNCHANGED clients
    BY <1>5 DEF Reconcile, EnsureFinalizer, cacheVars
  <2>2. worker'[c].pc \notin {"build", "deleteBuild"}
    <3>0. c \in DOMAIN worker
      BY DEF TypeOK
    <3>1. CASE EnsureFinalizer(c)
      <4>1. worker'[c] = Started(worker[c].copy) \/ Returns(c, TRUE)
        BY <3>0, <3>1 DEF EnsureFinalizer
      <4>2. QED BY <4>1, PcSteps
    <3>2. CASE Reconcile(c)
      <4>1. /\ Idle.pc = "idle" /\ [Idle EXCEPT !.pc = "cleanup", !.copy = Cached(claim[c])].pc = "cleanup"
            /\ [Idle EXCEPT !.pc = "finalizer", !.copy = Cached(claim[c])].pc = "finalizer"
            /\ Started(Cached(claim[c])).pc \in {"status", "connect"}
        BY PcSteps DEF Idle
      <4>2. QED BY <3>2, <4>1, ReconcileStarts
    <3>3. QED BY <1>5, <3>1, <3>2
  <2>3. QED BY <2>1, <2>2
<1>6. CASE Connect(c)
  <2>1. UNCHANGED clients
    BY <1>6 DEF Connect, cacheVars
  <2>2. \/ \E st, r : Conclude(c, st, r)
        \/ Lookup(c, Cached(secret[Key(c)]), "build", "value")
    BY <1>6 DEF Connect
  <2>3. QED BY <2>1, <2>2, PcSteps, LocalSteps
<1>7. CASE BuildClient(c) \/ DeleteBuild(c)
  <2>1. worker[c].pc \in {"build", "deleteBuild"}
    BY <1>7 DEF BuildClient, DeleteBuild
  <2>2. \/ Built(c, "value") \/ Built(c, "deleteAddon")
        \/ UNCHANGED cacheVars /\ (CleanupFails(c) \/ \E st, r : Conclude(c, st, r))
    BY <1>7 DEF BuildClient, DeleteBuild
  <2>3. QED BY <1>4, <2>1, <2>2, PcSteps DEF cacheVars
<1>8. CASE SyncValue(c) \/ SyncAddon(c)
  BY <1>2, <1>3, <1>8 DEF SyncValue, SyncAddon, WriteFails
<1>9. CASE Mirror(c) \/ UpdateStatus(c) \/ Unfinalize(c)
  <2>1. UNCHANGED clients
    BY <1>9 DEF Mirror, RecordSuccess, UpdateStatus, Unfinalize, cacheVars
  <2>2. worker'[c].pc \in {"status", "idle"}
    BY <1>9, PcSteps DEF Mirror, determineRequeue, UpdateStatus, Unfinalize
  <2>3. QED BY <2>1, <2>2
<1>10. CASE Cleanup(c)
  <2>1. UNCHANGED clients
    BY <1>10 DEF Cleanup, cacheVars
  <2>2. CleanupFails(c) \/ Lookup(c, Cached(secret[Key(c)]), "deleteBuild", "deleteAddon")
    BY <1>10 DEF Cleanup
  <2>3. QED BY <2>1, <2>2, PcSteps, LocalSteps
<1>11. CASE DeleteAddon(c) \/ DeleteValue(c)
  <2>1. CleanupFails(c) => worker'[c].pc = "unfinalize"
    BY PcSteps
  <2>2. QED BY <1>3, <1>11, <2>1 DEF DeleteAddon, DeleteValue, DeleteFails, cacheVars
<1>12. QED BY <1>1, <1>5, <1>6, <1>7, <1>8, <1>9, <1>10, <1>11 DEF ClaimStep, WorkerStep

LEMMA SecretNext ==
    ASSUME TypeOK, TypeOK', SecretInv, [Next]_vars
    PROVE  SecretInv'
<1>1. CASE \E c \in Claims : ClaimStep(c)
  <2>1. PICK c \in Claims : ClaimStep(c)
    BY <1>1
  <2>2. UNCHANGED secret /\ \A d \in Claims \ {c} : worker'[d] = worker[d]
    BY <2>1, OneClaim DEF SameClaim
  <2>3. Key(c) \in Secrets
    BY StateTypes
  <2>4. ASSUME NEW s \in Secrets PROVE SecretOK(s)'
    <3>1. SecretOK(s)
      BY DEF SecretInv
    <3>2. CASE clients'[s] = clients[s]
      BY <2>2, <3>1, <3>2 DEF SecretOK
    <3>3. CASE /\ s = Key(c) /\ worker[c].pc \in {"build", "deleteBuild"}
               /\ worker[c].secret.kind # "garbled" /\ clients'[s] = worker[c].secret.edition
      <4>1. BuildOK(c)
        BY DEF SecretInv
      <4>2. QED BY <2>2, <3>1, <3>3, <4>1 DEF SecretOK, BuildOK
    <3>4. clients \in [Secrets -> 0..MaxEdition]
      BY DEF TypeOK, CacheTypeOK
    <3>5. QED BY <2>1, <2>3, <3>2, <3>3, <3>4, ClientSteps
  <2>5. ASSUME NEW d \in Claims PROVE BuildOK(d)'
    <3>1. BuildOK(d)
      BY DEF SecretInv
    <3>2. CASE worker'[d] = worker[d]
      BY <2>2, <3>1, <3>2 DEF BuildOK, Key, Ref
    <3>3. CASE worker'[d].secret = Cached(secret[Key(d)]) /\ worker'[d].copy = worker[d].copy
      <4>1. Key(d) \in Secrets
        BY StateTypes
      <4>2. SecretOK(Key(d)) /\ Cached(secret[Key(d)]) \in Copies(secret[Key(d)])
        BY <4>1, SecretParts DEF SecretInv
      <4>3. Key(d)' = Key(d)
        BY <3>3 DEF Key, Ref
      <4>4. QED BY <2>2, <3>3, <4>2, <4>3 DEF BuildOK, SecretOK
    <3>4. CASE worker'[d].pc \notin {"build", "deleteBuild"}
      BY <3>4 DEF BuildOK
    <3>5. QED BY <2>1, <2>2, <3>2, <3>3, <3>4, ClientSteps
  <2>6. QED BY <2>4, <2>5 DEF SecretInv
<1>2. CASE Restart
  <2>1. ASSUME NEW s \in Secrets PROVE SecretOK(s)'
    <3>1. secret'[s] = <<Stored(secret[s])>> /\ clients'[s] = 0
      BY <1>2 DEF Restart, NoClient
    <3>2. /\ Copies(secret'[s]) = {Stored(secret[s])} /\ Stored(secret'[s]) = Stored(secret[s])
          /\ Stored(secret[s]).edition \in 1..MaxEdition
      BY <3>1, SecretParts, VersionsOne
    <3>3. QED BY <3>1, <3>2 DEF SecretOK
  <2>2. ASSUME NEW c \in Claims PROVE BuildOK(c)'
    BY <1>2 DEF Restart, BuildOK, Idle
  <2>3. QED BY <2>1, <2>2 DEF SecretInv
<1>3. CASE ~Restart /\ ~\E c \in Claims : ClaimStep(c)
  <2>1. UNCHANGED worker
    BY <1>3, NoClaim
  <2>2. CASE \E s \in Secrets : ChangeSecret(s)
    <3>1. PICK s \in Secrets : ChangeSecret(s)
      BY <2>2
    <3> DEFINE e == Stored(secret[s]).edition + 1
    <3>2. PICK k \in {"valid", "invalid", "garbled", "absent"} :
              secret' = [secret EXCEPT ![s] = Append(@, [edition |-> e, kind |-> k])]
      BY <3>1 DEF ChangeSecret
    <3> DEFINE n == [edition |-> e, kind |-> k]
    <3>3. n \in Secret /\ n.edition = e
      BY <3>1, SecretParts, CacheAssumption DEF ChangeSecret, Secret
    <3>4. CanWrite(secret[s]) /\ UNCHANGED clients
      BY <3>1 DEF ChangeSecret, Change, cacheVars
    <3>5. secret'[s] = Append(secret[s], n) /\ \A t \in Secrets \ {s} : secret'[t] = secret[t]
      BY <3>2, SecretParts
    <3> HIDE DEF n
    <3>6. Copies(secret'[s]) = Copies(secret[s]) \union {n} /\ Stored(secret'[s]) = n
      BY <3>3, <3>4, <3>5, SecretParts, VersionsAppend
    <3>7. /\ \A x \in Copies(secret[s]) : x.edition \in Int /\ x.edition < e
          /\ clients[s] < e /\ clients[s] \in Int /\ e \in Int
      BY SecretParts DEF SecretInv, SecretOK
    <3>8. ASSUME NEW t \in Secrets PROVE SecretOK(t)'
      <4>1. SecretOK(t)
        BY DEF SecretInv
      <4>2. CASE t = s
        <5> HIDE DEF e
        <5>1. QED BY <3>3, <3>4, <3>6, <3>7, <4>1, <4>2 DEF SecretOK
      <4>3. CASE t # s
        BY <3>4, <3>5, <4>1, <4>3 DEF SecretOK
      <4>4. QED BY <4>2, <4>3
    <3>9. ASSUME NEW d \in Claims PROVE BuildOK(d)'
      <4>1. BuildOK(d) /\ Key(d) \in Secrets /\ worker[d].secret.edition \in 0..MaxEdition
        BY StateTypes DEF SecretInv
      <4>2. CASE Key(d) = s
        <5>1. worker[d].pc \in {"build", "deleteBuild"} =>
                  worker[d].secret.edition < e /\ worker[d].secret.edition \in Int
          BY <4>1, <4>2, SecretParts DEF BuildOK
        <5> HIDE DEF e
        <5>2. QED BY <2>1, <3>3, <3>6, <3>7, <4>1, <4>2, <5>1 DEF BuildOK, Key, Ref
      <4>3. CASE Key(d) # s
        BY <2>1, <3>5, <4>1, <4>3 DEF BuildOK, Key, Ref
      <4>4. QED BY <4>2, <4>3
    <3>10. QED BY <3>8, <3>9 DEF SecretInv
  <2>3. CASE \E s \in Secrets : DeliverSecret(s)
    <3>1. PICK s \in Secrets : DeliverSecret(s)
      BY <2>3
    <3>2. /\ ~Current(secret[s]) /\ UNCHANGED clients /\ secret'[s] = Tail(secret[s])
          /\ \A t \in Secrets \ {s} : secret'[t] = secret[t]
      BY <3>1, SecretParts DEF DeliverSecret, cacheVars
    <3>3. \A t \in Secrets : /\ Copies(secret'[t]) \subseteq Copies(secret[t])
                             /\ Stored(secret'[t]) = Stored(secret[t])
      BY <3>2, SecretParts, VersionsTail
    <3>4. \A t \in Secrets : SecretOK(t)'
      BY <3>2, <3>3 DEF SecretInv, SecretOK
    <3>5. \A d \in Claims : BuildOK(d)'
      <4>1. \A d \in Claims : Key(d) \in Secrets
        BY StateTypes
      <4>2. QED BY <2>1, <3>3, <4>1 DEF SecretInv, BuildOK, Key, Ref
    <3>6. QED BY <3>4, <3>5 DEF SecretInv
  <2>4. CASE UNCHANGED secret /\ \A s \in Secrets : clients'[s] \in {clients[s], 0}
    <3>1. ASSUME NEW s \in Secrets PROVE SecretOK(s)'
      BY <2>4, SecretParts DEF SecretInv, SecretOK
    <3>2. \A d \in Claims : BuildOK(d)'
      BY <2>1, <2>4 DEF SecretInv, BuildOK, Key, Ref
    <3>3. QED BY <3>1, <3>2 DEF SecretInv
  <2>5. CASE (\E s \in Secrets : Evict(s)) \/ ChangeTemplate \/ TimePasses \/ UNCHANGED vars
    <3>1. UNCHANGED secret
      BY <2>5 DEF Evict, ChangeTemplate, TimePasses, vars, Others, objects
    <3>2. clients \in [Secrets -> 0..MaxEdition]
      BY DEF TypeOK, CacheTypeOK
    <3>3. \A s \in Secrets : clients'[s] \in {clients[s], 0}
      BY <2>5, <3>2 DEF Evict, EvictIdle, NoClient, ChangeTemplate, Change, TimePasses, Tick, vars,
                        cacheVars
    <3>4. QED BY <2>4, <3>1, <3>3
  <2>6. QED BY <1>3, <2>2, <2>3, <2>5 DEF Next, ClaimStep
<1>4. QED BY <1>1, <1>2, <1>3

-----------------------------------------------------------------------------
(* Deletion. *)

\* The remote Addon is deleted only by reconciles that have seen the claim being
\* deleted.
DeletingOK(c) ==
    /\ Absorbing(claim[c], Out)   \* a deletion is not taken back
    /\ (\E s \in Secrets : remoteAddon[c][s].life = "deleting") \/ worker[c].pc \in DeletionSteps =>
           Cached(claim[c]).life \in Out

DeletingInv == \A c \in Claims : DeletingOK(c)

LEMMA DeletingWorld ==
    ASSUME TypeOK, NEW c \in Claims, DeletingOK(c),
           UserStep(c) \/ DeliverClaim(c) \/ RemoteStep(c)
    PROVE  DeletingOK(c)'
<1> DEFINE h == claim[c]
           o == Stored(claim[c])
<1>1. h \in Versions(Claim) /\ o \in Claim /\ c \in DOMAIN claim
  BY StateTypes, VersionsEnds DEF TypeOK
<1>2. CASE UserStep(c)
  <2>1. PICK n \in Claim : (\E k : Put(c, n, k)) /\ o.life \notin Out
    BY <1>2, UserPuts DEF Out
  <2>4. /\ CanWrite(h) /\ claim'[c] = Append(h, n) /\ UNCHANGED <<worker, remoteAddon>>
        /\ o.life \notin Out
    BY <1>1, <2>1 DEF Put, Change, remote
  <2> HIDE DEF h
  <2>5. Absorbing(Append(h, n), Out) /\ Cached(Append(h, n)) = Cached(h)
    <3>1. Absorbing(h, Out)
      BY DEF DeletingOK, h
    <3>2. Stored(h).life \notin Out
      BY <2>4 DEF h
    <3>3. Absorbing(Append(h, n), Out)
      BY <1>1, <2>4, <3>1, <3>2, AbsorbingSteps
    <3>4. Cached(Append(h, n)) = Cached(h)
      BY <1>1, <2>4, VersionsAppend
    <3>5. QED BY <3>3, <3>4
  <2>6. QED BY <2>4, <2>5 DEF DeletingOK, h
<1>3. CASE DeliverClaim(c)
  <2>1. ~Current(h) /\ claim'[c] = Tail(h) /\ UNCHANGED <<worker, remoteAddon>>
    BY <1>1, <1>3 DEF DeliverClaim, remote
  <2>2. Absorbing(h, Out)
    BY DEF DeletingOK
  <2>3. Absorbing(Tail(h), Out) /\ (Cached(h).life \in Out => Cached(Tail(h)).life \in Out)
    BY <1>1, <2>1, <2>2, AbsorbingSteps
  <2>4. QED BY <2>1, <2>3 DEF DeletingOK
<1>4. CASE RemoteStep(c)
  <2>1. UNCHANGED <<claim, worker>>
    BY <1>4, RemoteWrites
  <2>2. PICK s \in Secrets : /\ \A t \in Secrets \ {s} : remoteAddon'[c][t] = remoteAddon[c][t]
                             /\ \/ remoteAddon'[c][s].life = "live"
                                \/ remoteAddon'[c][s] = NoRemoteAddon
    BY <1>4, RemoteWrites
  <2>3. \A t \in Secrets : remoteAddon'[c][t].life = "deleting" => remoteAddon[c][t].life = "deleting"
    BY <2>2 DEF NoRemoteAddon
  <2>4. QED BY <2>1, <2>3 DEF DeletingOK
<1>5. QED BY <1>2, <1>3, <1>4

LEMMA DeletingWorker ==
    ASSUME TypeOK, NEW c \in Claims, DeletingOK(c), Reconcile(c) \/ WorkerStep(c)
    PROVE  DeletingOK(c)'
<1> DEFINE h == claim[c]
           o == Stored(claim[c])
<1>1. /\ h \in Versions(Claim) /\ o \in Claim /\ c \in DOMAIN claim
      /\ Cached(h) \in Claim /\ c \in DOMAIN worker
      /\ Current(h) => o = Cached(h)
  BY StateTypes, VersionsEnds DEF TypeOK
<1>2. ASSUME claim'[c] = h \/ \E x \in Claim : /\ claim'[c] = Append(h, x)
                                               /\ CanWrite(h) \/ Current(h)
                                               /\ o.life \in Out => x.life \in Out,
             \/ \A s \in Secrets :
                   remoteAddon'[c][s].life = "deleting" => remoteAddon[c][s].life = "deleting"
             \/ worker[c].pc \in DeletionSteps,
             worker'[c].pc \in DeletionSteps =>
                 worker[c].pc \in DeletionSteps \/ Cached(h).life \in Out
      PROVE  DeletingOK(c)'
  <2>1. Absorbing(h, Out)
    BY DEF DeletingOK
  <2>3. ASSUME NEW x \in Claim, CanWrite(h) \/ Current(h), o.life \in Out => x.life \in Out
        PROVE  Absorbing(Append(h, x), Out) /\ Cached(Append(h, x)) = Cached(h)
    <3>1. Stored(h).life \in Out => x.life \in Out
      BY <2>3
    <3> HIDE DEF h
    <3>2. Absorbing(Append(h, x), Out)
      BY <1>1, <2>1, <2>3, <3>1, AbsorbingSteps
    <3>3. Cached(Append(h, x)) = Cached(h)
      BY <1>1, <2>3, VersionsAppend
    <3>4. QED BY <3>2, <3>3
  <2> HIDE DEF h, o
  <2>4. Absorbing(claim'[c], Out) /\ Cached(claim'[c]) = Cached(h)
    <3>1. CASE claim'[c] = h
      BY <2>1, <3>1
    <3>2. CASE claim'[c] # h
      <4>1. PICK x \in Claim : /\ claim'[c] = Append(h, x)
                               /\ CanWrite(h) \/ Current(h)
                               /\ o.life \in Out => x.life \in Out
        BY <1>2, <3>2
      <4>2. QED BY <2>3, <4>1
    <3>3. QED BY <3>1, <3>2
  <2>5. QED BY <1>2, <2>4 DEF DeletingOK, h
<1>3. CASE Reconcile(c)
  <2>1. UNCHANGED <<claim, remoteAddon>>
    BY <1>3 DEF Reconcile, Others, objects, remote
  <2>2. worker'[c].pc \in DeletionSteps => Cached(h).life \in Out
    <3>1. /\ Idle.pc = "idle" /\ [Idle EXCEPT !.pc = "finalizer", !.copy = Cached(h)].pc = "finalizer"
          /\ Started(Cached(h)).pc \in {"status", "connect"}
      BY PcSteps DEF Idle
    <3>2. QED BY <1>3, <3>1, ReconcileStarts DEF DeletionSteps, Out
  <2>3. QED BY <1>2, <2>1, <2>2
<1>4. CASE EnsureFinalizer(c)
  <2>1. UNCHANGED remoteAddon
    BY <1>4 DEF EnsureFinalizer, remote
  <2>2. worker'[c].pc \notin DeletionSteps
    <3>1. worker'[c] = Started(worker[c].copy) \/ Returns(c, TRUE)
      BY <1>1, <1>4 DEF EnsureFinalizer
    <3>2. QED BY <3>1, PcSteps DEF DeletionSteps
  <2>3. \/ claim'[c] = h
        \/ Current(h) /\ o.life = "live" /\ claim'[c] = Append(h, [o EXCEPT !.fin = TRUE])
    BY <1>1, <1>4 DEF EnsureFinalizer
  <2>4. [o EXCEPT !.fin = TRUE] \in Claim
    BY <1>1 DEF Claim
  <2>5. QED BY <1>2, <2>1, <2>2, <2>3, <2>4 DEF Out
<1>5. CASE Connect(c) \/ BuildClient(c) \/ Mirror(c) \/ Cleanup(c) \/ DeleteBuild(c)
  <2>1. UNCHANGED <<claim, remoteAddon>>
    BY <1>5 DEF Connect, BuildClient, Mirror, Cleanup, DeleteBuild, Others, objects, remote
  <2>2. worker'[c].pc \in DeletionSteps => worker[c].pc \in DeletionSteps
    <3>1. CASE Connect(c)
      <4>1. (\E st, r : Conclude(c, st, r)) \/ \E s : Lookup(c, s, "build", "value")
        BY <3>1 DEF Connect
      <4>2. QED BY <4>1, PcSteps DEF DeletionSteps
    <3>2. CASE BuildClient(c)
      BY <3>2, PcSteps DEF BuildClient, DeletionSteps
    <3>3. CASE Mirror(c)
      BY <3>3, PcSteps DEF Mirror, determineRequeue, DeletionSteps
    <3>4. CASE Cleanup(c) \/ DeleteBuild(c)
      BY <3>4 DEF Cleanup, DeleteBuild, DeletionSteps
    <3>5. QED BY <1>5, <3>1, <3>2, <3>3, <3>4
  <2>3. QED BY <1>2, <2>1, <2>2
<1>6. CASE SyncValue(c) \/ SyncAddon(c)
  <2>1. UNCHANGED claim
    BY <1>6 DEF SyncValue, SyncAddon, objects
  <2>2. worker'[c].pc \notin DeletionSteps
    BY <1>6, PcSteps DEF SyncValue, SyncAddon, WriteFails, DeletionSteps
  <2>3. \A s \in Secrets : remoteAddon'[c][s].life = "deleting" => remoteAddon[c][s].life = "deleting"
    <3> DEFINE a == remoteAddon[c][Key(c)]
               spec == AddonSpec[worker[c].copy.ver]
    <3>1. a \in RemoteAddon /\ spec \in 1..MaxVer
      BY StateTypes, EditionAssumption
    <3>2. /\ \A s \in Secrets \ {Key(c)} : remoteAddon'[c][s] = remoteAddon[c][s]
          /\ remoteAddon'[c][Key(c)] = a \/ remoteAddon'[c][Key(c)] = Updated(a, spec)
      BY <1>6, WorkerRemote DEF DeleteAddon, SyncAddon, SyncValue
    <3>3. Updated(a, spec).life = "deleting" => a.life = "deleting"
      <4> HIDE DEF a, spec
      <4>1. QED BY <3>1, AddonWrites
    <3>4. QED BY <3>2, <3>3
  <2>4. QED BY <1>2, <2>1, <2>2, <2>3
<1>7. CASE UpdateStatus(c)
  <2>1. UNCHANGED remoteAddon
    BY <1>7 DEF UpdateStatus, remote
  <2>2. worker'[c].pc \notin DeletionSteps
    BY <1>7, PcSteps DEF UpdateStatus, DeletionSteps
  <2> DEFINE x == [o EXCEPT !.status = worker[c].status]
  <2>3. claim'[c] = h \/ (CanWrite(h) /\ claim'[c] = Append(h, x))
    BY <1>1, <1>7 DEF UpdateStatus, Written
  <2>4. x \in Claim /\ x.life = o.life
    BY <1>1, StateTypes DEF Claim
  <2> HIDE DEF x
  <2>5. QED BY <1>2, <2>1, <2>2, <2>3, <2>4
<1>8. CASE DeleteAddon(c) \/ DeleteValue(c)
  <2>1. UNCHANGED claim /\ worker[c].pc \in DeletionSteps
    BY <1>8 DEF DeleteAddon, DeleteValue, objects, DeletionSteps
  <2>2. QED BY <1>2, <2>1
<1>9. CASE Unfinalize(c)
  <2>1. UNCHANGED remoteAddon
    BY <1>9 DEF Unfinalize, remote
  <2>2. worker'[c].pc \notin DeletionSteps
    BY <1>9, PcSteps DEF Unfinalize, DeletionSteps
  <2> DEFINE x == [Cached(claim[c]) EXCEPT !.life = "gone", !.fin = FALSE]
  <2>3. claim'[c] = h \/ (Current(h) /\ claim'[c] = Append(h, x))
    BY <1>1, <1>9 DEF Unfinalize
  <2>4. x \in Claim /\ x.life \in Out
    BY <1>1 DEF Claim, Out
  <2> HIDE DEF x
  <2>5. QED BY <1>2, <2>1, <2>2, <2>3, <2>4
<1>10. QED BY <1>3, <1>4, <1>5, <1>6, <1>7, <1>8, <1>9 DEF WorkerStep

LEMMA DeletingNext ==
    ASSUME TypeOK, DeletingInv, [Next]_vars
    PROVE  DeletingInv'
<1> SUFFICES ASSUME NEW d \in Claims PROVE DeletingOK(d)'
  BY DEF DeletingInv
<1>1. DeletingOK(d)
  BY DEF DeletingInv
<1>2. CASE \E c \in Claims : ClaimStep(c)
  <2>1. PICK c \in Claims : ClaimStep(c)
    BY <1>2
  <2>2. CASE c = d
    BY <1>1, <2>1, <2>2, DeletingWorld, DeletingWorker DEF ClaimStep
  <2>3. CASE c # d
    <3>1. SameClaim(d)
      BY <2>1, <2>3, OneClaim
    <3>2. QED BY <1>1, <3>1 DEF SameClaim, DeletingOK
  <2>4. QED BY <2>2, <2>3
<1>3. CASE Restart
  <2>1. claim'[d] = <<Stored(claim[d])>> /\ worker'[d] = Idle /\ UNCHANGED remoteAddon
    BY <1>3 DEF Restart, remote
  <2>2. claim[d] \in Versions(Claim) /\ Stored(claim[d]) \in Claim
    BY StateTypes, VersionsEnds
  <2>3. /\ Cached(claim'[d]) = Stored(claim[d]) /\ Absorbing(claim'[d], Out)
        /\ Cached(claim[d]).life \in Out => Stored(claim[d]).life \in Out
    BY <1>1, <2>1, <2>2, AbsorbingSteps, VersionsOne DEF DeletingOK
  <2>4. worker'[d].pc = "idle"
    BY <2>1 DEF Idle
  <2>5. QED BY <1>1, <2>1, <2>3, <2>4 DEF DeletingOK, DeletionSteps
<1>4. CASE ~Restart /\ ~\E c \in Claims : ClaimStep(c)
  BY <1>1, <1>4, NoClaim DEF DeletingOK
<1>5. QED BY <1>2, <1>3, <1>4


-----------------------------------------------------------------------------
(* Claims at rest. *)

\* What the remote cluster has of the values of claim version o.
ValueSynced(c, o) ==
    o.ver \notin Valueless => remoteValue[c][Ref(c, o)][ValueLabels[o.ver]] = o.ver

\* Status st says of o that all is well, and it is.
Settled(c, o, st) ==
    /\ st.conds = SetReady("FullyReconciled") /\ st.ready = "true" /\ st.obs = o.ver
    /\ remoteAddon[c][Ref(c, o)].spec = AddonSpec[o.ver]
    /\ AddonSpec[o.ver] \in served[c][Ref(c, o)]
    /\ ValueSynced(c, o)
    /\ c \in ControlPlanes => st.version = AddonSpec[o.ver]
    /\ Cached(secret[Ref(c, o)]).kind = "valid"

Normalised(o) == [o EXCEPT !.status = With(@, EnsureAllConditions(@.conds))]

\* Nothing has happened to claim c that is not being dealt with.
Quiet(c) ==
    /\ c \notin queue /\ Current(claim[c])
    /\ Stored(claim[c]).life = "live" /\ ~Stored(claim[c]).paused

\* The reconcile w of a quiet claim, of which o is stored, works on o, and ends
\* with all well or with a requeue.
OnCourse(c, w, o) ==
    /\ w.pc = "idle" => Settled(c, o, o.status)
    /\ w.pc = "finalizer" => w.copy = o /\ ~o.fin
    /\ w.pc \in {"connect", "build", "value", "addon", "mirror"} => w.copy = Normalised(o)
    /\ w.pc = "build" =>
           w.secret = Cached(secret[Ref(c, o)]) /\ w.secret.kind \in {"valid", "garbled"}
    /\ w.pc \in {"value", "addon", "mirror"} => Cached(secret[Ref(c, o)]).kind = "valid"
    /\ w.pc \in {"addon", "mirror"} => ValueSynced(c, o)
    /\ w.pc = "mirror" => remoteAddon[c][Ref(c, o)].spec = AddonSpec[o.ver]
    /\ w.pc = "status" /\ ~w.requeue =>
           Settled(c, o, w.status) /\ (~w.changed => w.status = o.status)

RestOK(c) == Quiet(c) => OnCourse(c, worker[c], Stored(claim[c]))

RestInv == \A c \in Claims : RestOK(c)

\* What OnCourse depends on, apart from the claim's version o and its reconcile.
SameSurroundings(c, o) ==
    LET s == Ref(c, o)
    IN  /\ remoteAddon'[c][s].spec = remoteAddon[c][s].spec /\ remoteValue'[c] = remoteValue[c]
        /\ served[c][s] \subseteq served'[c][s]
        /\ Cached(secret'[s]) = Cached(secret[s])

\* The reconcile stays on its course while nothing it depends on changes.
LEMMA StaysOnCourse ==
    ASSUME NEW c, RestOK(c), SameSurroundings(c, Stored(claim[c])),
           claim'[c] = claim[c], worker'[c] = worker[c], (c \in queue' <=> c \in queue)
    PROVE  RestOK(c)'
<1>1. Quiet(c)' => Quiet(c)
  BY DEF Quiet
<1>2. \A o, st : SameSurroundings(c, o) /\ Settled(c, o, st) => Settled(c, o, st)'
  BY DEF Settled, ValueSynced, SameSurroundings, Ref
<1>3. \A o : SameSurroundings(c, o) /\ ValueSynced(c, o) => ValueSynced(c, o)'
  BY DEF ValueSynced, SameSurroundings, Ref
<1>4. \A w, o : SameSurroundings(c, o) /\ OnCourse(c, w, o) => OnCourse(c, w, o)'
  <2> SUFFICES ASSUME NEW w, NEW o, SameSurroundings(c, o), OnCourse(c, w, o) PROVE OnCourse(c, w, o)'
    OBVIOUS
  <2>1. QED BY <1>2, <1>3 DEF OnCourse, SameSurroundings, Ref
<1>5. PICK w, o : w = worker[c] /\ o = Stored(claim[c])
  OBVIOUS
<1>6. SameSurroundings(c, o)
  BY <1>5 DEF SameSurroundings, Ref
<1>7. QED BY <1>1, <1>4, <1>5, <1>6 DEF RestOK

LEMMA RefSecret ==
    ASSUME NEW c \in Claims, NEW o \in Claim
    PROVE  /\ Ref(c, o) \in Secrets /\ o.ver \in 1..MaxVer
           /\ AddonSpec[o.ver] \in 1..MaxVer /\ ValueLabels[o.ver] \in 1..MaxVer
<1>1. o.ver \in 1..MaxVer
  BY DEF Claim
<1>2. QED BY <1>1, EditionAssumption DEF Ref

LEMMA RestWorld ==
    ASSUME TypeOK, NEW c \in Claims, DeletingOK(c), RestOK(c),
           UserStep(c) \/ DeliverClaim(c) \/ RemoteStep(c)
    PROVE  RestOK(c)'
<1> DEFINE h == claim[c]
           o == Stored(claim[c])
<1>1. h \in Versions(Claim) /\ o \in Claim /\ c \in DOMAIN claim
  BY StateTypes, VersionsEnds DEF TypeOK
<1>2. CASE UserStep(c)
  <2>1. PICK n, k : Put(c, n, k)
    BY <1>2 DEF UserStep, CreateClaim, EditClaim, PauseClaim, DeleteClaim
  <2>2. claim'[c] = Append(h, n) /\ h \in Seq(Claim) /\ Len(h) \in Nat /\ Len(h) >= 1
    BY <1>1, <2>1, VersionsEnds DEF Put
  <2>3. Len(Append(h, n)) = Len(h) + 1
    BY <2>2
  <2>4. ~Current(claim'[c])
    BY <2>2, <2>3 DEF Current
  <2>5. QED BY <2>4 DEF RestOK, Quiet
<1>3. CASE DeliverClaim(c)
  BY <1>3 DEF DeliverClaim, RestOK, Quiet
<1>4. CASE RemoteStep(c)
  <2>1. UNCHANGED <<claim, worker, queue, secret, remoteValue>>
    BY <1>4, RemoteWrites
  <2>2. PICK s \in Secrets :
            /\ \A t \in Secrets \ {s} :
                  remoteAddon'[c][t] = remoteAddon[c][t] /\ served'[c][t] = served[c][t]
            /\ \/ /\ remoteAddon'[c][s].spec = remoteAddon[c][s].spec
                  /\ served[c][s] \subseteq served'[c][s]
               \/ remoteAddon[c][s].life = "deleting"
    BY <1>4, RemoteWrites
  <2>3. CASE remoteAddon[c][s].life = "deleting"
    <3>1. Cached(h).life \in Out
      BY <2>3 DEF DeletingOK
    <3>2. Current(h) => o.life # "live"
      BY <1>1, <3>1, VersionsEnds DEF Out
    <3>3. QED BY <2>1, <3>2 DEF RestOK, Quiet
  <2>4. CASE remoteAddon[c][s].life # "deleting"
    <3>1. Ref(c, o) \in Secrets
      BY <1>1, RefSecret
    <3>2. SameSurroundings(c, o)
      <4> DEFINE t == Ref(c, o)
      <4>1. remoteAddon'[c][t].spec = remoteAddon[c][t].spec /\ served[c][t] \subseteq served'[c][t]
        BY <2>2, <2>4, <3>1
      <4>2. QED BY <2>1, <4>1 DEF SameSurroundings
    <3>3. QED BY <2>1, <3>2, StaysOnCourse
  <2>5. QED BY <2>3, <2>4
<1>5. QED BY <1>2, <1>3, <1>4


\* A reconcile that has come to a conclusion and will ask for another one.
LEMMA RequeueOnCourse ==
    ASSUME NEW c, worker'[c].pc = "status", worker'[c].requeue
    PROVE  RestOK(c)'
<1>1. OnCourse(c, worker[c], Stored(claim[c]))'
  BY DEF OnCourse
<1>2. QED BY <1>1 DEF RestOK

\* Conclusions other than Ready ask for another reconcile.
LEMMA VerdictOnCourse ==
    ASSUME TypeOK, NEW c \in Claims, NEW why \in Reasons, NEW st \in Status,
           \/ Conclude(c, With(st, SetDegraded(why)), FALSE)
           \/ Conclude(c, With(st, SetProgressing(why)), TRUE)
    PROVE  RestOK(c)'
<1>1. st.conds \in Conditions
  BY DEF Status
<1>2. With(st, SetDegraded(why)) \in Status /\ With(st, SetProgressing(why)) \in Status
  BY <1>1, ConditionTypes, WithTypes
<1>3. With(st, SetDegraded(why)).conds = SetDegraded(why)
  BY DEF With, Status
<1>4. SetDegraded(why).degraded
  BY DEF SetDegraded, Primary
<1>5. worker'[c].pc = "status"
  BY PcSteps
<1>6. CASE Conclude(c, With(st, SetDegraded(why)), FALSE)
  <2>1. worker'[c].requeue
    BY <1>2, <1>3, <1>4, <1>6, ConcludeFields
  <2>2. QED BY <1>5, <2>1, RequeueOnCourse
<1>7. CASE Conclude(c, With(st, SetProgressing(why)), TRUE)
  <2>1. worker'[c].requeue
    BY <1>2, <1>7, ConcludeFields
  <2>2. QED BY <1>5, <2>1, RequeueOnCourse
<1>8. QED BY <1>6, <1>7

\* The normalised status is Ready only if it was so before.
LEMMA NormalisedReady ==
    ASSUME NEW o \in Claim
    PROVE  /\ Normalised(o).ver = o.ver /\ Normalised(o).status \in Status
           /\ Normalised(o).status.conds = SetReady("FullyReconciled") =>
                  Normalised(o).status = o.status
<1>1. o.status \in Status /\ o.status.conds \in Conditions
  BY DEF Claim, Status
<1>2. Normalised(o).ver = o.ver /\ Normalised(o).status = With(o.status, EnsureAllConditions(o.status.conds))
  BY DEF Normalised, Claim
<1>3. "Initializing" \in Reasons
  BY DEF Reasons
<1>4. EnsureAllConditions(o.status.conds) \in Conditions
  BY <1>1, <1>3, ConditionTypes
<1>5. With(o.status, EnsureAllConditions(o.status.conds)) \in Status
  BY <1>1, <1>4, WithTypes
<1>6. With(o.status, EnsureAllConditions(o.status.conds)).conds = EnsureAllConditions(o.status.conds)
  BY <1>1 DEF With, Status
<1>7. SetProgressing("Initializing") # SetReady("FullyReconciled")
  <2>1. SetProgressing("Initializing").ready = FALSE /\ SetReady("FullyReconciled").ready = TRUE
    BY DEF SetProgressing, SetReady, Primary
  <2>2. QED BY <2>1
<1>8. ASSUME EnsureAllConditions(o.status.conds) = SetReady("FullyReconciled")
      PROVE  With(o.status, EnsureAllConditions(o.status.conds)) = o.status
  <2>1. EnsureAllConditions(o.status.conds) = o.status.conds
    BY <1>7, <1>8 DEF EnsureAllConditions
  <2>2. [o.status EXCEPT !.conds = o.status.conds] = o.status
    BY <1>1 DEF Status
  <2>3. QED BY <2>1, <2>2 DEF With
<1>9. QED BY <1>2, <1>5, <1>6, <1>8

\* The conclusion from what was mirrored.
LEMMA MirrorOnCourse ==
    ASSUME TypeOK, ~ReadFails, NEW c \in Claims, VersionOK(c), RestOK(c), Mirror(c)
    PROVE  RestOK(c)'
<1> DEFINE o == Stored(claim[c])
           n == worker[c].copy.status
           r == IF isAddonReadyAtCurrentGeneration(remoteAddon[c][Key(c)]) THEN "true" ELSE "false"
           m == [n EXCEPT !.ready = r]
           e == syncExternalStatus(c, m)
           st == With(e, SetReady("FullyReconciled"))
<1>1. /\ UNCHANGED <<claim, remoteAddon, remoteValue, served, secret>> /\ worker[c].pc = "mirror"
      /\ determineRequeue(c, e)
  BY DEF Mirror, objects, remote
<1> DEFINE spec == AddonSpec[worker[c].copy.ver]
<1>2. o \in Claim /\ n \in Status /\ spec \in 1..MaxVer /\ Key(c) \in Secrets
  <2>1. worker[c].copy \in Claim /\ o \in Claim /\ n \in Status /\ Key(c) \in Secrets
    BY StateTypes, VersionsEnds
  <2>2. spec \in 1..MaxVer
    BY <2>1, RefSecret
  <2>3. QED BY <2>1, <2>2
<1>3. m \in Status /\ m.ready = r
  BY <1>2 DEF Status
<1>4. e = [m EXCEPT !.version = IF c \notin ControlPlanes THEN 0
                                ELSE IF m.ready = "true" THEN spec ELSE @]
  BY DEF syncExternalStatus
<1> HIDE DEF m, e, spec
<1>5. /\ e \in Status /\ e.ready = r
      /\ e.ready = "true" /\ c \in ControlPlanes => e.version = spec
  BY <1>2, <1>3, <1>4, ClaimAssumption DEF Status
<1>6. "FullyReconciled" \in Reasons /\ "AddonNotReady" \in Reasons
  BY DEF Reasons
<1>7. CASE e.ready # "true"
  <2>1. Conclude(c, With(e, SetProgressing("AddonNotReady")), TRUE)
    BY <1>1, <1>7 DEF determineRequeue
  <2>2. QED BY <1>5, <1>6, <2>1, VerdictOnCourse
<1>8. CASE e.ready = "true"
  <2>1. Conclude(c, st, FALSE) /\ UNCHANGED queue
    BY <1>1, <1>8 DEF determineRequeue, Conclude
  <2>2. st \in Status
    BY <1>5, <1>6, ConditionTypes, WithTypes DEF Status
  <2>3. /\ st.conds = SetReady("FullyReconciled") /\ st.ready = "true"
        /\ c \in ControlPlanes => st.version = spec
    BY <1>5, <1>8 DEF With, Status
  <2> HIDE DEF st
  <2>4. Writing(worker'[c], worker[c].copy, st)
    BY <2>1, <2>2, ConcludeFields DEF Concludes
  <2>5. /\ worker'[c].pc = "status" /\ worker'[c].status = [st EXCEPT !.obs = worker[c].copy.ver]
        /\ ~worker'[c].changed => worker'[c].status = n
    BY <2>4 DEF Writing
  <2>6. /\ worker'[c].status.conds = SetReady("FullyReconciled") /\ worker'[c].status.ready = "true"
        /\ worker'[c].status.obs = worker[c].copy.ver
        /\ c \in ControlPlanes => worker'[c].status.version = spec
    BY <2>2, <2>3, <2>5 DEF Status
  <2>7. isAddonReadyAtCurrentGeneration(remoteAddon[c][Key(c)])
    BY <1>5, <1>8
  <2>8. remoteAddon[c][Key(c)].spec \in served[c][Key(c)]
    BY <1>2, <2>7 DEF VersionOK
  <2>9. ASSUME Quiet(c)
        PROVE  OnCourse(c, worker[c], o)'
    <3>1. /\ worker[c].copy = Normalised(o) /\ ValueSynced(c, o)
          /\ Cached(secret[Ref(c, o)]).kind = "valid"
          /\ remoteAddon[c][Ref(c, o)].spec = AddonSpec[o.ver]
      BY <1>1, <2>9 DEF RestOK, OnCourse
    <3>2. /\ worker[c].copy.ver = o.ver /\ (n.conds = SetReady("FullyReconciled") => n = o.status)
          /\ spec = AddonSpec[o.ver] /\ Key(c) = Ref(c, o)
      BY <1>2, <3>1, NormalisedReady DEF spec, Key, Ref
    <3>3. ~worker'[c].changed => worker'[c].status = o.status
      BY <2>5, <2>6, <3>2
    <3> HIDE DEF o
    <3>4. Settled(c, o, worker'[c].status)
      BY <2>6, <2>8, <3>1, <3>2 DEF Settled
    <3>5. o' = o
      BY <1>1 DEF o
    <3>6. \A x, s : Settled(c, x, s) => Settled(c, x, s)'
      BY <1>1 DEF Settled, ValueSynced, Ref
    <3>7. Settled(c, o, worker[c].status)'
      BY <3>4, <3>5, <3>6
    <3>8. QED BY <2>5, <3>3, <3>5, <3>7 DEF OnCourse
  <2>10. Quiet(c)' => Quiet(c)
    BY <1>1, <2>1 DEF Quiet
  <2>11. QED BY <2>9, <2>10 DEF RestOK
<1>9. QED BY <1>7, <1>8


\* The steps of a reconcile of c.
LEMMA RestWorker ==
    ASSUME TypeOK, ~ReadFails, NEW c \in Claims, VersionOK(c), SecretOK(Key(c)), DeletingOK(c),
           RestOK(c), Reconcile(c) \/ WorkerStep(c)
    PROVE  RestOK(c)'
<1> DEFINE h == claim[c]
           o == Stored(claim[c])
           s == Cached(secret[Key(c)])
           t == Cached(secret[Ref(c, o)])
<1>1. /\ h \in Versions(Claim) /\ o \in Claim /\ c \in DOMAIN claim /\ c \in DOMAIN worker
      /\ worker[c].copy \in Claim /\ worker[c].copy.status \in Status
      /\ Current(h) => o = Cached(h)
  BY StateTypes, VersionsEnds DEF TypeOK
<1>2. ASSUME c \in queue' \/ ~Current(claim'[c]) PROVE RestOK(c)'
  BY <1>2 DEF RestOK, Quiet
<1>3. \A r : Returns(c, r) => worker'[c].pc = "idle"
  BY PcSteps
<1>4. \A x \in Claim : CanWrite(h) \/ Current(h) => ~Current(Append(h, x))
  BY <1>1, VersionsAppend
<1>0. worker[c].copy = Normalised(o) => worker[c].copy.ver = o.ver /\ Key(c) = Ref(c, o) /\ s = t
  <2> HAVE worker[c].copy = Normalised(o)
  <2>1. worker[c].copy.ver = o.ver
    BY <1>1, NormalisedReady
  <2>2. QED BY <2>1 DEF Key, Ref
<1>5. CASE Reconcile(c)
  <2>1. UNCHANGED claim
    BY <1>5 DEF Reconcile, Others, objects
  <2>2. ASSUME Quiet(c)' PROVE OnCourse(c, worker[c], o)'
    <3>1. Cached(h) = o /\ o.life = "live" /\ ~o.paused /\ o' = o
      BY <1>1, <2>1, <2>2 DEF Quiet
    <3>2. \/ worker'[c] = [Idle EXCEPT !.pc = "finalizer", !.copy = o] /\ ~o.fin
          \/ worker'[c] = Started(o)
      BY <1>5, <3>1, ReconcileStarts
    <3>3. Started(o) = [Idle EXCEPT !.pc = "connect", !.copy = Normalised(o)]
      BY <1>1, <3>1, StartedFields DEF Normalised
    <3> HIDE DEF o
    <3>4. \/ worker'[c].pc = "finalizer" /\ worker'[c].copy = o /\ ~o.fin
          \/ worker'[c].pc = "connect" /\ worker'[c].copy = Normalised(o)
      BY <3>2, <3>3 DEF Idle
    <3>5. QED BY <3>1, <3>4 DEF OnCourse
  <2>3. QED BY <2>2 DEF RestOK
<1>6. CASE EnsureFinalizer(c)
  <2>1. CASE ~FinalizerNeeded(c) /\ UNCHANGED <<claim, queue>>
    <3>1. ~Quiet(c)
      BY <1>1, <1>6, <2>1 DEF EnsureFinalizer, FinalizerNeeded, RestOK, Quiet, OnCourse
    <3>2. QED BY <2>1, <3>1 DEF RestOK, Quiet
  <2>2. CASE Returns(c, TRUE)
    BY <1>2, <2>2 DEF Returns
  <2>3. CASE Current(h) /\ claim'[c] = Append(h, [o EXCEPT !.fin = TRUE])
    <3>1. [o EXCEPT !.fin = TRUE] \in Claim
      BY <1>1 DEF Claim
    <3>2. QED BY <1>2, <1>4, <2>3, <3>1
  <2>4. QED BY <1>1, <1>6, <2>1, <2>2, <2>3 DEF EnsureFinalizer
<1>7. CASE Connect(c)
  <2>1. UNCHANGED <<claim, secret>> /\ worker[c].pc = "connect"
    BY <1>7 DEF Connect, Others, objects
  <2>2. CASE ConnectProblem(s) # "" \/ ~CheckHealth(Key(c))
    <3>1. ConnectProblem(s) # "" => ConnectProblem(s) \in Reasons
      BY DEF ConnectProblem, Reasons
    <3>2. "RemoteClientFailed" \in Reasons
      BY DEF Reasons
    <3>3. \E why \in Reasons :
              \/ Conclude(c, With(worker[c].copy.status, SetDegraded(why)), FALSE)
              \/ Conclude(c, With(worker[c].copy.status, SetProgressing(why)), TRUE)
      BY <1>7, <2>2, <3>1, <3>2 DEF Connect
    <3>4. QED BY <1>1, <3>3, VerdictOnCourse
  <2>3. CASE ConnectProblem(s) = "" /\ CheckHealth(Key(c))
    <3>1. Lookup(c, s, "build", "value")
      BY <1>7, <2>3 DEF Connect
    <3>2. s \in Secret /\ s \in Copies(secret[Key(c)])
      BY StateTypes, VersionsEnds
    <3>3. s.kind \in {"valid", "garbled"}
      <4>1. s.kind # "absent" /\ s.kind # "invalid"
        BY <2>3 DEF ConnectProblem, TypeOK
      <4>2. QED BY <3>2, <4>1 DEF Secret
    <3>4. Hit(Key(c), s.edition) => s.kind # "garbled"
      BY <3>2 DEF SecretOK, Hit
    <3>5. /\ worker'[c].copy = worker[c].copy /\ worker'[c].secret = s
          /\ worker'[c].pc = IF Hit(Key(c), s.edition) THEN "value" ELSE "build"
      BY <3>1, LocalSteps
    <3>6. UNCHANGED queue
      BY <3>1 DEF Lookup
    <3>7. ASSUME Quiet(c) PROVE OnCourse(c, worker[c], o)'
      <4>1. worker[c].copy = Normalised(o)
        BY <2>1, <3>7 DEF RestOK, OnCourse
      <4>2. o' = o /\ t' = t /\ s = t
        BY <1>0, <2>1, <4>1 DEF Ref
      <4> HIDE DEF o
      <4>3. QED BY <3>3, <3>4, <3>5, <4>1, <4>2 DEF OnCourse
    <3>8. QED BY <2>1, <3>6, <3>7 DEF RestOK, Quiet
  <2>4. QED BY <2>2, <2>3
<1>8. CASE BuildClient(c)
  <2>1. UNCHANGED <<claim, secret>> /\ worker[c].pc = "build"
    BY <1>8 DEF BuildClient, Others, objects
  <2>2. CASE Built(c, "value")
    <3>1. /\ worker'[c].copy = worker[c].copy /\ worker'[c].pc = "value" /\ UNCHANGED queue
          /\ worker[c].secret.kind # "garbled"
      BY <2>2, LocalSteps, PcSteps DEF Built
    <3>2. ASSUME Quiet(c) PROVE OnCourse(c, worker[c], o)'
      <4>1. worker[c].copy = Normalised(o) /\ t.kind = "valid"
        BY <2>1, <3>1, <3>2 DEF RestOK, OnCourse
      <4>2. o' = o /\ t' = t /\ s = t
        BY <1>0, <2>1, <4>1 DEF Ref
      <4> HIDE DEF o
      <4>3. QED BY <3>1, <4>1, <4>2 DEF OnCourse
    <3>3. QED BY <2>1, <3>1, <3>2 DEF RestOK, Quiet
  <2>3. CASE ~Built(c, "value")
    <3>1. "RemoteClientFailed" \in Reasons
      BY DEF Reasons
    <3>2. Conclude(c, With(worker[c].copy.status, SetDegraded("RemoteClientFailed")), FALSE)
      BY <1>8, <2>3 DEF BuildClient
    <3>3. QED BY <1>1, <3>1, <3>2, VerdictOnCourse
  <2>4. QED BY <2>2, <2>3
<1>9. \A k : handleRemoteSyncError(c, k) => RestOK(c)'
  <2>1. /\ "RemoteNotReady" \in Reasons /\ "RemoteRequestInvalid" \in Reasons
        /\ "RemoteOperationFailed" \in Reasons
    BY DEF Reasons
  <2>2. QED BY <1>1, <2>1, VerdictOnCourse DEF handleRemoteSyncError
<1>10. CASE SyncValue(c)
  <2>1. UNCHANGED <<claim, secret>> /\ worker[c].pc = "value"
    BY <1>10 DEF SyncValue, objects
  <2>2. CASE Proceed(c, "addon")
    <3>1. worker'[c].copy = worker[c].copy /\ worker'[c].pc = "addon" /\ UNCHANGED queue
      BY <2>2, LocalSteps, PcSteps DEF Proceed
    <3>2. worker[c].copy.ver \notin Valueless =>
              remoteValue'[c][Key(c)][ValueLabels[worker[c].copy.ver]] = worker[c].copy.ver
      <4> HAVE worker[c].copy.ver \notin Valueless
      <4> DEFINE v == worker[c].copy.ver
                 l == ValueLabels[v]
                 k == Key(c)
      <4>1. k \in Secrets /\ v \in 1..MaxVer /\ v \in 0..MaxVer /\ l \in 1..MaxVer
        BY <1>1, StateTypes, RefSecret, ClaimAssumption
      <4>2. \A class : ~handleRemoteSyncError(c, class)
        BY <3>1, PcSteps
      <4>3. remoteValue' = [remoteValue EXCEPT ![c][k][l] = v]
        BY <1>10, <4>2 DEF SyncValue, WriteFails
      <4> HIDE DEF v, l, k
      <4>4. remoteValue'[c][k][l] = v
        <5>1. WritesValue(c, k, l, v)
          BY <4>3 DEF WritesValue
        <5>2. QED BY <4>1, <5>1, ValueWritten, Zenon
      <4>5. QED BY <4>4 DEF v, l, k
    <3>3. ASSUME Quiet(c) PROVE OnCourse(c, worker[c], o)'
      <4>1. worker[c].copy = Normalised(o) /\ t.kind = "valid"
        BY <2>1, <3>3 DEF RestOK, OnCourse
      <4>2. worker[c].copy.ver = o.ver /\ Key(c) = Ref(c, o)
        BY <1>0, <4>1
      <4>3. o' = o /\ t' = t /\ s = t
        BY <1>0, <2>1, <4>1 DEF Ref
      <4> HIDE DEF o
      <4>4. ValueSynced(c, o)'
        BY <3>2, <4>2, <4>3 DEF ValueSynced, Ref
      <4>5. QED BY <3>1, <4>1, <4>3, <4>4 DEF OnCourse
    <3>4. QED BY <2>1, <3>1, <3>3 DEF RestOK, Quiet
  <2>3. CASE ~Proceed(c, "addon")
    BY <1>9, <1>10, <2>3 DEF SyncValue, WriteFails
  <2>4. QED BY <2>2, <2>3
<1>11. CASE SyncAddon(c)
  <2>1. UNCHANGED <<claim, secret, remoteValue>> /\ worker[c].pc = "addon"
    BY <1>11 DEF SyncAddon, objects
  <2>2. CASE Proceed(c, "mirror")
    <3>1. worker'[c].copy = worker[c].copy /\ worker'[c].pc = "mirror" /\ UNCHANGED queue
      BY <2>2, LocalSteps, PcSteps DEF Proceed
    <3>2. \A k : ~handleRemoteSyncError(c, k)
      BY <3>1, PcSteps
    <3> DEFINE k == Key(c)
               a == remoteAddon[c][k]
               spec == AddonSpec[worker[c].copy.ver]
    <3>3. remoteAddon' = [remoteAddon EXCEPT ![c][k] = Updated(a, spec)]
      BY <1>11, <3>2 DEF SyncAddon, WriteFails
    <3>4. remoteAddon'[c][k].spec = spec
      <4>1. k \in Secrets /\ a \in RemoteAddon /\ spec \in 1..MaxVer
        BY <1>1, StateTypes, RefSecret
      <4> HIDE DEF k, a, spec
      <4>2. Updated(a, spec) \in RemoteAddon /\ Updated(a, spec).spec = spec
        BY <4>1, AddonWrites
      <4>3. remoteAddon'[c][k] = Updated(a, spec)
        BY <3>3, <4>1, <4>2, AddonWrite
      <4>4. QED BY <4>2, <4>3
    <3>5. ASSUME Quiet(c) PROVE OnCourse(c, worker[c], o)'
      <4>1. worker[c].copy = Normalised(o) /\ t.kind = "valid" /\ ValueSynced(c, o)
        BY <2>1, <3>5 DEF RestOK, OnCourse
      <4>2. worker[c].copy.ver = o.ver /\ Key(c) = Ref(c, o)
        BY <1>0, <4>1
      <4>3. o' = o /\ t' = t /\ s = t
        BY <1>0, <2>1, <4>1 DEF Ref
      <4> HIDE DEF o
      <4>4. ValueSynced(c, o)'
        BY <2>1, <4>1, <4>3 DEF ValueSynced, Ref
      <4>5. remoteAddon'[c][Ref(c, o)].spec = AddonSpec[o.ver]
        BY <3>4, <4>2
      <4>6. QED BY <3>1, <4>1, <4>3, <4>4, <4>5 DEF OnCourse, Ref
    <3>6. QED BY <2>1, <3>1, <3>5 DEF RestOK, Quiet
  <2>3. CASE ~Proceed(c, "mirror")
    BY <1>9, <1>11, <2>3 DEF SyncAddon, WriteFails
  <2>4. QED BY <2>2, <2>3
<1>12. CASE Mirror(c)
  BY <1>12, MirrorOnCourse
<1>13. CASE UpdateStatus(c)
  <2> DEFINE x == [o EXCEPT !.status = worker[c].status]
  <2>1. x \in Claim /\ x.status = worker[c].status
    BY <1>1, StateTypes DEF Claim
  <2>2. CASE Returns(c, TRUE) \/ (Returns(c, worker[c].requeue) /\ worker[c].requeue)
    BY <1>2, <2>2 DEF Returns
  <2>3. CASE claim'[c] = Append(h, x) /\ CanWrite(h)
    BY <1>2, <1>4, <2>1, <2>3
  <2>4. CASE /\ claim'[c] = claim[c] /\ Returns(c, worker[c].requeue) /\ ~worker[c].requeue
             /\ ~worker[c].changed \/ x = o
    <3>1. UNCHANGED <<secret, remoteAddon, remoteValue, served>> /\ worker[c].pc = "status"
      BY <1>13 DEF UpdateStatus, remote
    <3>2. worker'[c].pc = "idle" /\ UNCHANGED queue
      BY <1>3, <2>4 DEF Returns
    <3>3. ASSUME Quiet(c) PROVE OnCourse(c, worker[c], o)'
      <4>1. Settled(c, o, worker[c].status) /\ (~worker[c].changed => worker[c].status = o.status)
        BY <2>4, <3>1, <3>3 DEF RestOK, OnCourse
      <4>2. worker[c].status = o.status
        BY <2>1, <2>4, <4>1
      <4>3. \A y, st : Settled(c, y, st) => Settled(c, y, st)'
        BY <3>1 DEF Settled, ValueSynced, Ref
      <4>4. o' = o
        BY <2>4
      <4> HIDE DEF o
      <4>5. Settled(c, o, o.status)
        BY <4>1, <4>2
      <4>6. Settled(c, o, o.status)'
        BY <4>3, <4>4, <4>5
      <4>7. QED BY <3>2, <4>4, <4>6 DEF OnCourse
    <3>4. QED BY <2>4, <3>2, <3>3 DEF RestOK, Quiet
  <2>5. \/ Returns(c, TRUE)
        \/ /\ Returns(c, worker[c].requeue)
           /\ \/ claim'[c] = Append(h, x) /\ CanWrite(h)
              \/ claim'[c] = claim[c] /\ (~worker[c].changed \/ x = o)
    BY <1>1, <1>13 DEF UpdateStatus, Written
  <2>6. worker[c].requeue \in BOOLEAN
    BY StateTypes
  <2> HIDE DEF x, h, o
  <2>7. QED BY <2>2, <2>3, <2>4, <2>5, <2>6
<1>14. CASE Cleanup(c) \/ DeleteBuild(c) \/ DeleteAddon(c) \/ DeleteValue(c)
  <2>1. worker[c].pc \in DeletionSteps /\ UNCHANGED <<claim, queue>>
    BY <1>14 DEF Cleanup, DeleteBuild, DeleteAddon, DeleteValue, DeletionSteps, objects,
                 CleanupFails, Lookup, Built, Proceed, DeleteFails
  <2>2. ~Quiet(c)
    BY <1>1, <2>1 DEF DeletingOK, Quiet, Out
  <2>3. QED BY <2>1, <2>2 DEF RestOK, Quiet
<1>15. CASE Unfinalize(c)
  <2> DEFINE x == [Cached(claim[c]) EXCEPT !.life = "gone", !.fin = FALSE]
  <2>1. \/ Returns(c, TRUE)
        \/ Current(h) /\ claim'[c] = Append(h, x)
    BY <1>1, <1>15 DEF Unfinalize
  <2>2. Cached(h) \in Claim
    BY <1>1, VersionsEnds
  <2>3. x \in Claim
    BY <2>2 DEF Claim
  <2> HIDE DEF x
  <2>4. CASE Returns(c, TRUE)
    BY <1>2, <2>4 DEF Returns
  <2>5. QED BY <1>2, <1>4, <2>1, <2>3, <2>4
<1>16. QED BY <1>5, <1>6, <1>7, <1>8, <1>10, <1>11, <1>12, <1>13, <1>14, <1>15 DEF WorkerStep


LEMMA RestNext ==
    ASSUME TypeOK, ~ReadFails, VersionInv, SecretInv, DeletingInv, RestInv, [Next]_vars
    PROVE  RestInv'
<1> SUFFICES ASSUME NEW d \in Claims PROVE RestOK(d)'
  BY DEF RestInv
<1>1. /\ RestOK(d) /\ VersionOK(d) /\ DeletingOK(d) /\ Key(d) \in Secrets
      /\ claim[d] \in Versions(Claim)
  BY StateTypes DEF RestInv, VersionInv, DeletingInv
<1>2. SecretOK(Key(d))
  BY <1>1 DEF SecretInv
<1>3. CASE \E c \in Claims : ClaimStep(c)
  <2>1. PICK c \in Claims : ClaimStep(c)
    BY <1>3
  <2>2. CASE c = d
    BY <1>1, <1>2, <2>1, <2>2, RestWorld, RestWorker DEF ClaimStep
  <2>3. CASE c # d
    <3>1. UNCHANGED secret /\ SameClaim(d)
      BY <2>1, <2>3, OneClaim
    <3>2. SameSurroundings(d, Stored(claim[d]))
      BY <3>1 DEF SameClaim, SameSurroundings
    <3>3. QED BY <1>1, <3>1, <3>2, StaysOnCourse DEF SameClaim
  <2>4. QED BY <2>2, <2>3
<1>4. CASE Restart
  <2>1. claim'[d] = <<Stored(claim[d])>> /\ (Stored(claim[d]).life = "live" => d \in queue')
    BY <1>4 DEF Restart
  <2>2. Stored(claim'[d]) = Stored(claim[d])
    BY <1>1, <2>1, VersionsEnds, VersionsOne
  <2>3. QED BY <2>1, <2>2 DEF RestOK, Quiet
<1>5. CASE ~Restart /\ ~\E c \in Claims : ClaimStep(c)
  <2> DEFINE k == Ref(d, Stored(claim[d]))
  <2>0. k \in Secrets /\ Stored(claim[d]) \in Claim /\ (Current(claim[d]) => Cached(claim[d]) = Stored(claim[d]))
    BY <1>1, VersionsEnds, RefSecret
  <2>1. UNCHANGED <<claim, worker, remoteAddon, remoteValue, served>>
    BY <1>5, NoClaim
  <2>2. CASE \E s \in Secrets : DeliverSecret(s)
    <3>1. PICK s \in Secrets : DeliverSecret(s)
      BY <2>2
    <3>2. CASE k = s
      <4>1. Current(claim[d]) /\ Stored(claim[d]).life = "live" => d \in queue'
        BY <2>0, <3>1, <3>2 DEF DeliverSecret, findClaimsForSecret, Ref
      <4>2. QED BY <2>1, <4>1 DEF RestOK, Quiet
    <3>3. CASE k # s
      <4>1. secret'[k] = secret[k] /\ (d \in queue => d \in queue')
        BY <2>0, <3>1, <3>3 DEF DeliverSecret, TypeOK
      <4>2. CASE d \in queue'
        BY <4>2 DEF RestOK, Quiet
      <4>3. CASE d \notin queue'
        <5>1. SameSurroundings(d, Stored(claim[d]))
          BY <2>1, <4>1 DEF SameSurroundings
        <5>2. QED BY <1>1, <2>1, <4>1, <4>3, <5>1, StaysOnCourse
      <4>4. QED BY <4>2, <4>3
    <3>4. QED BY <3>2, <3>3
  <2>3. CASE \E s \in Secrets : ChangeSecret(s)
    <3>1. PICK s \in Secrets : ChangeSecret(s)
      BY <2>3
    <3>2. UNCHANGED queue
      BY <3>1 DEF ChangeSecret, Change
    <3>3. Cached(secret'[k]) = Cached(secret[k])
      <4>1. CASE k # s
        BY <2>0, <3>1, <4>1 DEF ChangeSecret, TypeOK
      <4>2. CASE k = s
        <5>1. PICK kind \in {"valid", "invalid", "garbled", "absent"} :
                  secret'[s] = Append(secret[s], [edition |-> Stored(secret[s]).edition + 1, kind |-> kind])
          BY <3>1, SecretParts DEF ChangeSecret
        <5>2. [edition |-> Stored(secret[s]).edition + 1, kind |-> kind] \in Secret
          BY <3>1, SecretParts, CacheAssumption DEF ChangeSecret, Secret
        <5>3. CanWrite(secret[s])
          BY <3>1 DEF ChangeSecret
        <5>4. QED BY <4>2, <5>1, <5>2, <5>3, SecretParts, VersionsAppend
      <4>3. QED BY <4>1, <4>2
    <3>4. SameSurroundings(d, Stored(claim[d]))
      BY <2>1, <3>3 DEF SameSurroundings
    <3>5. QED BY <1>1, <2>1, <3>2, <3>4, StaysOnCourse
  <2>4. CASE (\E s \in Secrets : Evict(s)) \/ ChangeTemplate \/ TimePasses \/ UNCHANGED vars
    <3>1. UNCHANGED <<secret, queue>>
      BY <2>4 DEF Evict, ChangeTemplate, Change, TimePasses, vars, Others, objects
    <3>2. SameSurroundings(d, Stored(claim[d]))
      BY <2>1, <3>1 DEF SameSurroundings
    <3>3. QED BY <1>1, <2>1, <3>1, <3>2, StaysOnCourse
  <2>5. QED BY <1>5, <2>2, <2>3, <2>4 DEF Next, ClaimStep
<1>6. QED BY <1>3, <1>4, <1>5

\* The initial states: every live claim is queued, and the Secrets are new.
LEMMA RestInit ==
    ASSUME Init, TypeOK
    PROVE  VersionInv /\ SecretInv /\ DeletingInv /\ RestInv
<1>1. ASSUME NEW c \in Claims
      PROVE  /\ \E l \in {"live", "absent"} : claim[c] = <<NewClaim(l)>>
             /\ worker[c].pc = "idle" /\ \A s \in Secrets : remoteAddon[c][s].life = "absent"
  BY DEF Init, Idle, NoRemoteAddon
<1>2. \A l \in {"live", "absent"} : NewClaim(l) \in Claim /\ NewClaim(l).life = l
  BY NewTypes DEF NewClaim
<1>3. VersionInv
  BY VersionInit
<1>4. SecretInv
  <2>1. ASSUME NEW s \in Secrets PROVE SecretOK(s)
    <3>1. secret[s] = <<[edition |-> 1, kind |-> "valid"]>> /\ clients[s] = 0
      BY DEF Init, NewCache, NoClient
    <3>2. [edition |-> 1, kind |-> "valid"] \in Secret
      BY CacheAssumption DEF Secret
    <3>3. /\ Copies(secret[s]) = {[edition |-> 1, kind |-> "valid"]}
          /\ Stored(secret[s]) = [edition |-> 1, kind |-> "valid"]
      BY <3>1, <3>2, VersionsOne
    <3>4. QED BY <3>1, <3>3 DEF SecretOK
  <2>2. ASSUME NEW c \in Claims PROVE BuildOK(c)
    BY <1>1 DEF BuildOK
  <2>3. QED BY <2>1, <2>2 DEF SecretInv
<1>5. DeletingInv
  <2> SUFFICES ASSUME NEW c \in Claims PROVE DeletingOK(c)
    BY DEF DeletingInv
  <2>1. Len(claim[c]) = 1 /\ claim[c][1].life \notin Out
    <3>1. PICK l \in {"live", "absent"} : claim[c] = <<NewClaim(l)>>
      BY <1>1
    <3>2. NewClaim(l) \in Claim /\ NewClaim(l).life \notin Out
      BY <1>2 DEF Out
    <3>3. QED BY <3>1, <3>2, VersionsOne
  <2>2. QED BY <1>1, <2>1 DEF DeletingOK, Absorbing, DeletionSteps
<1>6. RestInv
  <2> SUFFICES ASSUME NEW c \in Claims PROVE ~Quiet(c)
    BY DEF RestInv, RestOK
  <2>1. Stored(claim[c]) = Cached(claim[c])
    <3>1. PICK l \in {"live", "absent"} : claim[c] = <<NewClaim(l)>>
      BY <1>1
    <3>2. NewClaim(l) \in Claim
      BY <1>2
    <3>3. QED BY <3>1, <3>2, VersionsOne
  <2>2. QED BY <2>1 DEF Init, Quiet
<1>7. QED BY <1>3, <1>4, <1>5, <1>6

\* As long as the remote Addon can be read after it was written, a claim that
\* nothing is going to reconcile is in order: its spec and values are in the
\* remote cluster, were seen Ready, are reported so, and its Secret works.
\* Everything else that may have happened (edits, rotated credentials, failed
\* calls, evictions, restarts) has an event or a requeue still to come.
THEOREM ClaimRests ==
    ASSUME ~ReadFails
    PROVE  Spec => []ClaimAtRest
<1> DEFINE I == VersionInv /\ SecretInv /\ DeletingInv /\ RestInv
<1>1. Init /\ TypeOK => I
  BY RestInit
<1>2. TypeOK /\ TypeOK' /\ I /\ [Next]_vars => I'
  BY VersionNext, SecretNext, DeletingNext, RestNext
<1>3. TypeOK /\ I => ClaimAtRest
  <2> SUFFICES ASSUME TypeOK, RestInv, NEW c \in Claims, AtRest(c),
                      Stored(claim[c]).life = "live", ~Stored(claim[c]).paused
               PROVE  /\ Settled(c, Stored(claim[c]), Stored(claim[c]).status)
                      /\ Cached(secret[Ref(c, Stored(claim[c]))]) = Stored(secret[Ref(c, Stored(claim[c]))])
    BY DEF ClaimAtRest, Settled, ValueSynced
  <2>1. Quiet(c) /\ worker[c].pc = "idle" /\ Current(secret[Ref(c, Stored(claim[c]))])
    BY DEF AtRest, Quiet
  <2>2. RestOK(c)
    BY DEF RestInv
  <2>3. Cached(secret[Ref(c, Stored(claim[c]))]) = Stored(secret[Ref(c, Stored(claim[c]))])
    <3>1. Ref(c, Stored(claim[c])) \in Secrets
      BY StateTypes, VersionsEnds, RefSecret
    <3>2. QED BY <2>1, <3>1, SecretParts, VersionsEnds
  <2>4. QED BY <2>1, <2>2, <2>3 DEF RestOK, OnCourse
<1> HIDE DEF I
<1>4. QED BY <1>1, <1>2, <1>3, ClaimTypeCorrect, PTL DEF Spec

=============================================================================
