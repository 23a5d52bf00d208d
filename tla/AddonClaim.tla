----------------------------- MODULE AddonClaim -----------------------------
(***************************************************************************)
(* The AddonClaim controller: claims in the system cluster, each of which  *)
(* drives one Addon and one AddonValue in a remote cluster and mirrors the *)
(* Addon's status back.  Claims with the same Secret share a client and a  *)
(* failure backoff (RemoteClientCache).  A reconcile is a step per API     *)
(* call and per critical section of the cache; several workers reconcile   *)
(* different claims at the same time.  Operators named Mut... are faulty   *)
(* variants of the definition that follows and used by no action.          *)
(***************************************************************************)
EXTENDS Integers, FiniteSets, Sequences, Conditions, ObjectVersions, RemoteClientCache

CONSTANTS
    Claims,
    CredentialRef,   \* CredentialRef[c][v]: the Secret that edition v of claim c names
    ValueLabels,     \* the label, in the name of the remote AddonValue, of an edition
    AddonSpec,       \* what an edition renders to: the remote Addon's spec, and its version
    ControlPlanes,   \* claims with the annotation external-status/type
    Rejected,        \* claims whose rendered Addon the remote API server rejects
    Valueless,       \* editions of a claim's spec that have no values
    MaxConcurrentReconciles,
    ReadFails,       \* may the read of the remote status fail after the writes?
    ClaimKinds,      \* bound: kinds of changes by users and the world
    MaxVer,          \* bound: editions of a claim's spec
    MaxChanges,      \* bound: number of those changes
    MaxFaults,       \* bound: failed remote calls and restarts
    MaxEvents        \* bound: changes and faults together

ASSUME ClaimAssumption ==
    /\ ControlPlanes \subseteq Claims /\ Rejected \subseteq Claims
    /\ MaxConcurrentReconciles \in Nat \ {0}
    /\ ReadFails \in BOOLEAN
    /\ ClaimKinds \subseteq {"create", "edit", "pause", "delete", "secret", "template", "unready"}
    /\ MaxVer \in Nat \ {0} /\ MaxChanges \in Nat /\ MaxFaults \in Nat /\ MaxEvents \in Nat

ASSUME EditionAssumption ==
    /\ CredentialRef \in [Claims -> [1..MaxVer -> Secrets]]
    /\ ValueLabels \in [1..MaxVer -> 1..MaxVer] /\ AddonSpec \in [1..MaxVer -> 1..MaxVer]
    /\ Valueless \subseteq 1..MaxVer

VARIABLES
    claim,     \* claim[c]: versions of the AddonClaim from cached to stored
    secret,    \* secret[s]: versions of the Secret
    template,  \* the AddonTemplate all claims refer to
    queue,     \* claims in the work queue, or due to be requeued
    worker,    \* worker[c]: the reconcile of c in progress, if any
    remoteAddon,   \* remoteAddon[c][s]: in the cluster that Secret s leads to
    remoteValue,   \* remoteValue[c][s][l]: there, with label l
    changes, faults,
    served,    \* served[c][s]: specs with which that Addon ever was Ready
    cleanupFailed   \* claims whose remote cleanup failed

objects == <<claim, secret, template>>
remote  == <<remoteAddon, remoteValue, served>>
bounds  == <<changes, faults>>
vars    == <<objects, queue, worker, remote, bounds, cleanupFailed, cacheVars>>

-----------------------------------------------------------------------------
(* Objects. *)

\* ready is a *bool, obs is observedGeneration.  What else is mirrored of the
\* remote Addon is left out.
Status == [ready : {"nil", "false", "true"}, version : 0..MaxVer, obs : 0..MaxVer,
           conds : Conditions]

NewStatus == [ready |-> "nil", version |-> 0, obs |-> 0, conds |-> NoConditions]

\* ver is the edition of the spec, its generation.  What it says is given by the
\* constants: the values are its own, and the Secret, the label and the Addon may
\* be those of other editions too.
Claim == [life : {"absent", "live", "deleting", "gone"}, fin : BOOLEAN, paused : BOOLEAN,
          ver : 1..MaxVer, status : Status]

NewClaim(life) ==
    [life |-> life, fin |-> FALSE, paused |-> FALSE, ver |-> 1, status |-> NewStatus]

\* A Secret may lack the key "value", or hold what is no kubeconfig.
Secret == [edition : 1..MaxEdition, kind : {"valid", "invalid", "garbled", "absent"}]

\* seen: status.observedGeneration equals metadata.generation.
RemoteAddon == [life : {"absent", "live", "deleting"}, spec : 0..MaxVer,
                seen : BOOLEAN, ready : BOOLEAN]

NoRemoteAddon == [life |-> "absent", spec |-> 0, seen |-> FALSE, ready |-> FALSE]

NoSecret == [edition |-> NoClient, kind |-> "absent"]

\* What a reconcile holds: the copy of the claim it read, the Secret it read, the
\* edition its remote client was built from; at the end the status it writes,
\* whether that differs from the one it read, and what it asks the queue for.
Worker == [pc : {"idle", "finalizer", "connect", "build", "value", "addon", "mirror", "status",
                 "cleanup", "deleteBuild", "deleteAddon", "deleteValue", "unfinalize"},
           copy : Claim, secret : Secret \union {NoSecret}, client : 0..MaxEdition,
           status : Status, changed : BOOLEAN, requeue : BOOLEAN]

Idle == [pc |-> "idle", copy |-> NewClaim("absent"), secret |-> NoSecret, client |-> NoClient,
         status |-> NewStatus, changed |-> FALSE, requeue |-> FALSE]

\* Every object version, every local of a reconcile and the cache have the
\* types the Go structs give them; the backoff counter stays below its cap.
TypeOK ==
    /\ CacheTypeOK
    /\ claim \in [Claims -> Versions(Claim)] /\ secret \in [Secrets -> Versions(Secret)]
    /\ template \in {"ok", "absent", "broken"}
    /\ queue \subseteq Claims
    /\ worker \in [Claims -> Worker]
    /\ remoteAddon \in [Claims -> [Secrets -> RemoteAddon]]
    /\ remoteValue \in [Claims -> [Secrets -> [1..MaxVer -> 0..MaxVer]]]
    /\ changes \in 0..MaxChanges /\ faults \in 0..MaxFaults
    /\ served \in [Claims -> [Secrets -> SUBSET (1..MaxVer)]] /\ cleanupFailed \subseteq Claims

Init ==
    /\ claim \in [Claims -> {<<NewClaim("live")>>}
                     \union (IF "create" \in ClaimKinds THEN {<<NewClaim("absent")>>} ELSE {})]
    /\ secret = [s \in Secrets |-> <<[edition |-> 1, kind |-> "valid"]>>]
    /\ template = "ok"
    /\ queue = {c \in Claims : Cached(claim[c]).life = "live"}
    /\ worker = [c \in Claims |-> Idle]
    /\ remoteAddon = [c \in Claims |-> [s \in Secrets |-> NoRemoteAddon]]
    /\ remoteValue = [c \in Claims |-> [s \in Secrets |-> [l \in 1..MaxVer |-> 0]]]
    /\ changes = 0 /\ faults = 0
    /\ served = [c \in Claims |-> [s \in Secrets |-> {}]] /\ cleanupFailed = {}
    /\ NewCache

-----------------------------------------------------------------------------
(* Users, informers and the remote cluster. *)

Change(kind) ==
    /\ kind \in ClaimKinds /\ changes < MaxChanges /\ changes + faults < MaxEvents
    /\ changes' = changes + 1
    /\ UNCHANGED <<queue, worker, faults, cleanupFailed, cacheVars>>

\* A user writes version o of claim c.
Put(c, o, kind) ==
    /\ CanWrite(claim[c])
    /\ claim' = [claim EXCEPT ![c] = Append(@, o)]
    /\ Change(kind)
    /\ UNCHANGED <<secret, template, remote>>

CreateClaim(c) == Stored(claim[c]).life = "absent" /\ Put(c, NewClaim("live"), "create")

\* Any field of the spec but addon.name may change.
EditClaim(c) ==
    LET o == Stored(claim[c])
    IN  /\ o.life = "live"
        /\ \E v \in (o.ver + 1)..MaxVer : Put(c, [o EXCEPT !.ver = v], "edit")

PauseClaim(c) ==
    LET o == Stored(claim[c])
    IN  o.life = "live" /\ Put(c, [o EXCEPT !.paused = ~@], "pause")

DeleteClaim(c) ==
    LET o == Stored(claim[c])
    IN  /\ o.life = "live"
        /\ Put(c, [o EXCEPT !.life = IF o.fin THEN "deleting" ELSE "gone"], "delete")

\* The credentials are rotated, damaged or removed.
ChangeSecret(s) ==
    LET o == Stored(secret[s])
    IN  /\ o.edition < MaxEdition /\ CanWrite(secret[s])
        /\ \E k \in {"valid", "invalid", "garbled", "absent"} :
              secret' = [secret EXCEPT ![s] = Append(@, [edition |-> o.edition + 1, kind |-> k])]
        /\ Change("secret")
        /\ UNCHANGED <<claim, template, remote>>

\* The AddonTemplate is removed, damaged or repaired.  No event comes of it.
ChangeTemplate ==
    /\ \E t \in {"ok", "absent", "broken"} \ {template} : template' = t
    /\ Change("template")
    /\ UNCHANGED <<claim, secret, remote>>

DeliverClaim(c) ==
    /\ ~Current(claim[c])
    /\ claim' = [claim EXCEPT ![c] = Tail(@)]
    /\ queue' = queue \union {c}
    /\ UNCHANGED <<secret, template, worker, remote, bounds, cleanupFailed, cacheVars>>

MutFindClaims(s) == {}

\* findClaimsForSecret: every cached claim that names the Secret.
findClaimsForSecret(s) ==
    {c \in Claims : LET o == Cached(claim[c])
                    IN  o.life \in {"live", "deleting"} /\ CredentialRef[c][o.ver] = s}

DeliverSecret(s) ==
    /\ ~Current(secret[s])
    /\ secret' = [secret EXCEPT ![s] = Tail(@)]
    /\ queue' = queue \union findClaimsForSecret(s)
    /\ UNCHANGED <<claim, template, worker, remote, bounds, cleanupFailed, cacheVars>>

RemoteElse == <<objects, queue, worker, remoteValue, faults, cleanupFailed, cacheVars>>

\* The remote Addon controller reports on the spec it has: the first report on a
\* new generation, and every later one, may or may not be Ready.  Getting worse
\* counts as a change, so that it gets better in the end.
RemoteReport(c, s) ==
    LET a == remoteAddon[c][s]
    IN  /\ a.life = "live" /\ (~a.seen \/ ~a.ready)
        /\ remoteAddon' = [remoteAddon EXCEPT ![c][s] = [a EXCEPT !.seen = TRUE, !.ready = TRUE]]
        /\ served' = [served EXCEPT ![c][s] = @ \union {a.spec}]
        /\ UNCHANGED <<RemoteElse, changes>>

RemoteObserve(c, s) ==
    LET a == remoteAddon[c][s]
    IN  /\ a.life = "live" /\ ~a.seen
        /\ remoteAddon' = [remoteAddon EXCEPT ![c][s] = [a EXCEPT !.seen = TRUE, !.ready = FALSE]]
        /\ UNCHANGED <<RemoteElse, served, changes>>

RemoteUnready(c, s) ==
    LET a == remoteAddon[c][s]
    IN  /\ a.life = "live" /\ a.ready
        /\ remoteAddon' = [remoteAddon EXCEPT ![c][s] = [a EXCEPT !.ready = FALSE]]
        /\ Change("unready")
        /\ UNCHANGED <<objects, remoteValue, served>>

\* The remote Addon's own finalizer is done.
RemoteGone(c, s) ==
    /\ remoteAddon[c][s].life = "deleting"
    /\ remoteAddon' = [remoteAddon EXCEPT ![c][s] = NoRemoteAddon]
    /\ UNCHANGED <<RemoteElse, served, changes>>

-----------------------------------------------------------------------------
(* The reconcile of claim c. *)

Others == <<objects, remote, bounds, cleanupFailed>>

\* The Secret, and with it the remote cluster, that version o of claim c names.
Ref(c, o) == CredentialRef[c][o.ver]

\* The one that the reconcile of c works with.
Key(c) == Ref(c, worker[c].copy)

\* The reconcile ends; the key is queued again if asked for.
Returns(c, requeue) ==
    /\ worker' = [worker EXCEPT ![c] = Idle]
    /\ queue' = IF requeue THEN queue \union {c} ELSE queue

\* From copy o it goes on to write status st, with updateStatus (requeue only if
\* Degraded) or with updateStatusAndRequeue.
Concluded(o, st, requeue) ==
    LET final == [st EXCEPT !.obs = o.ver]
    IN  [Idle EXCEPT !.pc = "status", !.status = final, !.changed = (final # o.status),
                     !.requeue = requeue \/ st.conds.degraded]

Conclude(c, st, requeue) ==
    /\ worker' = [worker EXCEPT ![c] = Concluded(worker[c].copy, st, requeue)]
    /\ UNCHANGED queue

With(st, conds) == [st EXCEPT !.conds = conds]

\* A live claim that has its finalizer.
Started(o) ==
    LET n == [o EXCEPT !.status = With(@, EnsureAllConditions(@.conds))]
    IN  IF o.paused THEN Concluded(n, With(n.status, SetPaused(n.status.conds)), FALSE)
        ELSE [Idle EXCEPT !.pc = "connect", !.copy = n]

Reconcile(c) ==
    /\ c \in queue /\ worker[c].pc = "idle"
    /\ Cardinality({d \in Claims : worker[d].pc # "idle"}) < MaxConcurrentReconciles
    /\ queue' = queue \ {c}
    /\ LET o == Cached(claim[c])
       IN  worker' = [worker EXCEPT ![c] =
              CASE o.life \in {"absent", "gone"} \/ (o.life = "deleting" /\ ~o.fin) -> Idle
                [] o.life = "deleting" /\ o.fin -> [Idle EXCEPT !.pc = "cleanup", !.copy = o]
                [] o.life = "live" /\ ~o.fin -> [Idle EXCEPT !.pc = "finalizer", !.copy = o]
                [] o.life = "live" /\ o.fin -> Started(o)]
    /\ UNCHANGED <<Others, cacheVars>>

MutFinalizerNeeded(c) == FALSE

\* ensureFinalizer reads the cache again; an update of an old copy is a
\* conflict and fails the reconcile.
FinalizerNeeded(c) == ~Cached(claim[c]).fin

EnsureFinalizer(c) ==
    /\ worker[c].pc = "finalizer"
    /\ \/ /\ ~FinalizerNeeded(c)
          /\ worker' = [worker EXCEPT ![c] = Started(worker[c].copy)]
          /\ UNCHANGED <<claim, queue>>
       \/ /\ FinalizerNeeded(c) /\ Current(claim[c]) /\ Cached(claim[c]).life = "live"
          /\ claim' = [claim EXCEPT ![c] = Append(@, [Stored(@) EXCEPT !.fin = TRUE])]
          /\ worker' = [worker EXCEPT ![c] = Started(worker[c].copy)]
          /\ UNCHANGED queue
       \/ /\ FinalizerNeeded(c) /\ (~Current(claim[c]) \/ Cached(claim[c]).life # "live")
          /\ Returns(c, TRUE)
          /\ UNCHANGED claim
    /\ UNCHANGED <<secret, template, remote, bounds, cleanupFailed, cacheVars>>

\* What renderAddon and connectRemote find wrong before they use the cache.
ConnectProblem(s) ==
    CASE template = "absent" -> "TemplateNotFound"
      [] template = "broken" -> "TemplateRenderFailed"
      [] template = "ok" /\ s.kind = "absent" -> "SecretNotFound"
      [] template = "ok" /\ s.kind = "invalid" -> "SecretInvalid"
      [] OTHER -> ""

\* The first look into the client cache, with Secret s: use what is there, or
\* go and build a client.
Lookup(c, s, build, next) ==
    /\ worker' = [worker EXCEPT ![c].secret = s,
          ![c].client = IF Hit(Key(c), s.edition) THEN s.edition ELSE NoClient,
          ![c].pc = IF Hit(Key(c), s.edition) THEN next ELSE build]
    /\ UNCHANGED queue

\* renderAddon and connectRemote, up to there: reads only.  While the cluster
\* is in backoff the claim waits as Progressing.
Connect(c) ==
    /\ worker[c].pc = "connect"
    /\ LET s == Cached(secret[Key(c)])
           n == worker[c].copy.status
       IN  \/ /\ ConnectProblem(s) # ""
              /\ Conclude(c, With(n, SetDegraded(ConnectProblem(s))), FALSE)
           \/ /\ ConnectProblem(s) = "" /\ ~CheckHealth(Key(c))
              /\ Conclude(c, With(n, SetProgressing("RemoteClientFailed")), TRUE)
           \/ /\ ConnectProblem(s) = "" /\ CheckHealth(Key(c))
              /\ Lookup(c, s, "build", "value")
    /\ UNCHANGED <<Others, cacheVars>>

\* The rest of GetOrCreate: the client is built from the Secret that was read,
\* and stored.
Built(c, next) ==
    /\ worker[c].secret.kind # "garbled"
    /\ StoreClient(Key(c), worker[c].secret.edition)
    /\ worker' = [worker EXCEPT ![c].pc = next,
                     ![c].client = ClientAfterBuild(Key(c), worker[c].secret.edition)]
    /\ UNCHANGED queue

BuildClient(c) ==
    /\ worker[c].pc = "build"
    /\ \/ Built(c, "value")
       \/ /\ worker[c].secret.kind = "garbled"
          /\ Conclude(c, With(worker[c].copy.status, SetDegraded("RemoteClientFailed")), FALSE)
          /\ UNCHANGED cacheVars
    /\ UNCHANGED Others

\* Remote calls of a worker fail in the classes of classifyRemoteError.
RemoteFault ==
    /\ faults < MaxFaults /\ changes + faults < MaxEvents
    /\ faults' = faults + 1

MutSyncError(c, class) ==
    LET n == worker[c].copy.status
    IN  \/ /\ class = "notReady"
           /\ Conclude(c, With(n, SetProgressing("RemoteNotReady")), TRUE)
           /\ UNCHANGED cacheVars
        \/ /\ class \in {"rejected", "unreachable"}
           /\ Conclude(c, With(n, SetDegraded("RemoteOperationFailed")), FALSE)
           /\ RecordFailure(Key(c))

\* Only a cluster that is unreachable gets a backoff.
handleRemoteSyncError(c, class) ==
    LET n == worker[c].copy.status
    IN  \/ /\ class = "notReady"
           /\ Conclude(c, With(n, SetProgressing("RemoteNotReady")), TRUE)
           /\ UNCHANGED cacheVars
        \/ /\ class = "rejected"
           /\ Conclude(c, With(n, SetDegraded("RemoteRequestInvalid")), FALSE)
           /\ UNCHANGED cacheVars
        \/ /\ class = "unreachable"
           /\ Conclude(c, With(n, SetDegraded("RemoteOperationFailed")), FALSE)
           /\ RecordFailure(Key(c))

Proceed(c, next) ==
    /\ worker' = [worker EXCEPT ![c].pc = next]
    /\ UNCHANGED <<queue, cacheVars, faults>>

\* A remote write that fails.  Without an answer it may have been made or not.
WriteFails(c, Unmade, Made) ==
    /\ RemoteFault
    /\ \/ handleRemoteSyncError(c, "notReady") /\ Unmade
       \/ handleRemoteSyncError(c, "unreachable") /\ (Unmade \/ Made)

\* reconcileRemoteAddonValue.  Without values the remote AddonValue is let be, and
\* so is one with the label of an earlier edition.
SyncValue(c) ==
    /\ worker[c].pc = "value"
    /\ LET ver  == worker[c].copy.ver
           Made == remoteValue' = [remoteValue EXCEPT ![c][Key(c)][ValueLabels[ver]] = ver]
       IN  \/ ver \in Valueless /\ Proceed(c, "addon") /\ UNCHANGED remoteValue
           \/ ver \notin Valueless /\ Proceed(c, "addon") /\ Made
           \/ ver \notin Valueless /\ WriteFails(c, UNCHANGED remoteValue, Made)
    /\ UNCHANGED <<objects, remoteAddon, served, changes, cleanupFailed>>

\* Create or Update.  A spec that changes gets a new generation, which the
\* remote controller has not seen; labels and annotations are left out.
Updated(a, spec) ==
    IF a.spec = spec THEN a
    ELSE [a EXCEPT !.life = IF a.life = "absent" THEN "live" ELSE a.life,
                   !.spec = spec, !.seen = FALSE]

\* reconcileRemoteAddon.
SyncAddon(c) ==
    /\ worker[c].pc = "addon"
    /\ LET spec == AddonSpec[worker[c].copy.ver]
           Made == remoteAddon' = [remoteAddon EXCEPT ![c][Key(c)] = Updated(@, spec)]
       IN  \/ c \notin Rejected /\ Proceed(c, "mirror") /\ Made
           \/ c \notin Rejected /\ WriteFails(c, UNCHANGED remoteAddon, Made)
           \/ /\ c \in Rejected /\ handleRemoteSyncError(c, "rejected")
              /\ UNCHANGED <<remoteAddon, faults>>
    /\ UNCHANGED <<objects, remoteValue, served, changes, cleanupFailed>>

MutReadyAtGeneration(a) == a.ready

isAddonReadyAtCurrentGeneration(a) == a.seen /\ a.ready

\* syncExternalStatus: the version is published when Ready, and not taken back.
syncExternalStatus(c, n) ==
    [n EXCEPT !.version = IF c \notin ControlPlanes THEN 0
                          ELSE IF n.ready = "true" THEN AddonSpec[worker[c].copy.ver] ELSE @]

MutDetermineRequeue(c, n) ==
    Conclude(c, With(n, IF n.ready = "true" THEN SetReady("FullyReconciled")
                        ELSE SetProgressing("AddonNotReady")), FALSE)

determineRequeue(c, n) ==
    IF n.ready = "true"
    THEN Conclude(c, With(n, SetReady("FullyReconciled")), FALSE)
    ELSE Conclude(c, With(n, SetProgressing("AddonNotReady")), TRUE)

\* The rest of syncRemoteResources.  When the remote Addon cannot be read the
\* claim keeps the readiness that it has.
Mirror(c) ==
    /\ worker[c].pc = "mirror"
    /\ RecordSuccess(Key(c))
    /\ LET n == worker[c].copy.status
           r == IF isAddonReadyAtCurrentGeneration(remoteAddon[c][Key(c)])
                THEN "true" ELSE "false"
       IN  \/ /\ determineRequeue(c, syncExternalStatus(c, [n EXCEPT !.ready = r]))
              /\ UNCHANGED faults
           \/ /\ ReadFails /\ RemoteFault
              /\ determineRequeue(c, syncExternalStatus(c, n))
    /\ UNCHANGED <<objects, remote, changes, cleanupFailed>>

\* doStatusUpdate reads the stored claim, replaces its whole status and writes
\* it, again if there is a conflict.  An equal status is not written.
UpdateStatus(c) ==
    /\ worker[c].pc = "status"
    /\ LET w == worker[c]
           o == Stored(claim[c])
       IN  \/ /\ ~w.changed
              /\ Returns(c, w.requeue)
              /\ UNCHANGED claim
           \/ /\ w.changed /\ o.life # "gone" /\ CanWrite(claim[c])
              /\ claim' = [claim EXCEPT ![c] = Written(@, [o EXCEPT !.status = w.status])]
              /\ Returns(c, w.requeue)
           \/ /\ w.changed /\ o.life = "gone"
              /\ Returns(c, TRUE)
              /\ UNCHANGED claim
    /\ UNCHANGED <<secret, template, remote, bounds, cleanupFailed, cacheVars>>

-----------------------------------------------------------------------------
(* The deletion of claim c. *)

MutCleanupFails(c) ==
    /\ Returns(c, TRUE)
    /\ cleanupFailed' = cleanupFailed \union {c}

\* Whatever fails, the finalizer is removed.
CleanupFails(c) ==
    /\ worker' = [worker EXCEPT ![c] = [Idle EXCEPT !.pc = "unfinalize"]]
    /\ cleanupFailed' = cleanupFailed \union {c}
    /\ UNCHANGED queue

\* deleteRemoteResources, up to the client: it does not ask for the backoff.
Cleanup(c) ==
    /\ worker[c].pc = "cleanup"
    /\ LET s == Cached(secret[Key(c)])
       IN  \/ s.kind \in {"absent", "invalid"} /\ CleanupFails(c)
           \/ /\ s.kind \in {"valid", "garbled"} /\ Lookup(c, s, "deleteBuild", "deleteAddon")
              /\ UNCHANGED cleanupFailed
    /\ UNCHANGED <<objects, remote, bounds, cacheVars>>

DeleteBuild(c) ==
    /\ worker[c].pc = "deleteBuild"
    /\ \/ Built(c, "deleteAddon") /\ UNCHANGED cleanupFailed
       \/ worker[c].secret.kind = "garbled" /\ CleanupFails(c) /\ UNCHANGED cacheVars
    /\ UNCHANGED <<objects, remote, bounds>>

DeleteFails(c, Unmade, Made) ==
    /\ RemoteFault /\ CleanupFails(c) /\ (Unmade \/ Made)
    /\ UNCHANGED cacheVars

\* The remote Addon has a finalizer of its own.
Deleted(a) == [a EXCEPT !.life = IF a.life = "live" THEN "deleting" ELSE a.life]

\* deleteRemoteResourcesByName: the Addon and the AddonValue that the copy names.
DeleteAddon(c) ==
    /\ worker[c].pc = "deleteAddon"
    /\ LET Made == remoteAddon' = [remoteAddon EXCEPT ![c][Key(c)] = Deleted(@)]
       IN  \/ Proceed(c, "deleteValue") /\ Made /\ UNCHANGED cleanupFailed
           \/ DeleteFails(c, UNCHANGED remoteAddon, Made)
    /\ UNCHANGED <<objects, remoteValue, served, changes>>

DeleteValue(c) ==
    /\ worker[c].pc = "deleteValue"
    /\ LET label == ValueLabels[worker[c].copy.ver]
           Made  == remoteValue' = [remoteValue EXCEPT ![c][Key(c)][label] = 0]
       IN  \/ Proceed(c, "unfinalize") /\ Made /\ UNCHANGED cleanupFailed
           \/ DeleteFails(c, UNCHANGED remoteValue, Made)
    /\ UNCHANGED <<objects, remoteAddon, served, changes>>

\* The finalizer is removed from the cached copy; if that is old, or the claim
\* is gone, the reconcile fails.
Unfinalize(c) ==
    /\ worker[c].pc = "unfinalize"
    /\ LET o == Cached(claim[c])
       IN  \/ /\ Current(claim[c]) /\ o.life = "deleting"
              /\ claim' = [claim EXCEPT ![c] = Append(@, [o EXCEPT !.life = "gone", !.fin = FALSE])]
              /\ Returns(c, FALSE)
           \/ /\ ~Current(claim[c]) \/ o.life # "deleting"
              /\ Returns(c, TRUE)
              /\ UNCHANGED claim
    /\ UNCHANGED <<secret, template, remote, bounds, cleanupFailed, cacheVars>>

-----------------------------------------------------------------------------
(* The cache on its own, and restarts. *)

Evict(s) == EvictIdle(s) /\ UNCHANGED <<queue, worker, Others>>

TimePasses == Tick /\ UNCHANGED <<queue, worker, Others>>

\* The process is restarted: reconciles and the cache are lost, the informers
\* list everything anew.
Restart ==
    /\ RemoteFault
    /\ claim' = [c \in Claims |-> <<Stored(claim[c])>>]
    /\ secret' = [s \in Secrets |-> <<Stored(secret[s])>>]
    /\ worker' = [c \in Claims |-> Idle]
    /\ queue' = {c \in Claims : Stored(claim[c]).life \in {"live", "deleting"}}
    /\ clients' = [s \in Secrets |-> NoClient] /\ health' = [s \in Secrets |-> Healthy]
    /\ UNCHANGED <<template, remote, changes, cleanupFailed>>

WorkerStep(c) ==
    \/ EnsureFinalizer(c) \/ Connect(c) \/ BuildClient(c) \/ SyncValue(c) \/ SyncAddon(c)
    \/ Mirror(c) \/ UpdateStatus(c)
    \/ Cleanup(c) \/ DeleteBuild(c) \/ DeleteAddon(c) \/ DeleteValue(c) \/ Unfinalize(c)

UserStep(c) == CreateClaim(c) \/ EditClaim(c) \/ PauseClaim(c) \/ DeleteClaim(c)

RemoteStep(c) == \E s \in Secrets :
    RemoteReport(c, s) \/ RemoteObserve(c, s) \/ RemoteUnready(c, s) \/ RemoteGone(c, s)

Next ==
    \/ \E c \in Claims : \/ UserStep(c) \/ DeliverClaim(c) \/ RemoteStep(c)
                         \/ Reconcile(c) \/ WorkerStep(c)
    \/ \E s \in Secrets : ChangeSecret(s) \/ DeliverSecret(s) \/ Evict(s)
    \/ ChangeTemplate \/ TimePasses \/ Restart

Spec == Init /\ [][Next]_vars

\* Workers run, every queued claim gets its turn (the queue is a FIFO, hence
\* strong fairness), informers deliver and time passes.  The remote controller
\* gets its Addons Ready, and deletes them, in the end.
Fairness ==
    /\ \A c \in Claims : /\ SF_vars(Reconcile(c)) /\ WF_vars(WorkerStep(c))
                         /\ WF_vars(DeliverClaim(c))
                         /\ \A s \in Secrets : WF_vars(RemoteReport(c, s)) /\ WF_vars(RemoteGone(c, s))
    /\ \A s \in Secrets : WF_vars(DeliverSecret(s))
    /\ WF_vars(TimePasses)

FairSpec == Spec /\ Fairness

-----------------------------------------------------------------------------
(* Properties. *)

\* A reconcile that writes to the remote cluster does so with a client built
\* from the very edition of the Secret it read, though several workers build
\* and replace the client of one Secret at a time (GetOrCreate builds outside
\* of the lock).
ClientMatches ==
    \A c \in Claims :
        worker[c].pc \in {"value", "addon", "mirror", "deleteAddon", "deleteValue"} =>
            worker[c].client = worker[c].secret.edition

\* The pause after the n-th failure in a row is the initial one doubled n - 1
\* times, or the maximum if that is less: no overflow of the shift in
\* computeHealthBackoff makes it shorter.  It ends by time, by a success of any
\* claim of the cluster, or by a restart.
BackoffCurve ==
    [][\A s \in Secrets :
         LET n == health'[s].failures
             d == HealthBackoffInitial * 2^(n - 1)
         IN  /\ n > health[s].failures =>
                    health'[s].pause = IF d < HealthBackoffMax THEN d ELSE HealthBackoffMax
             /\ n = health[s].failures /\ n > 0 /\ n < FailureCap =>
                    health'[s].pause \in {health[s].pause, health[s].pause - 1}]_vars

\* A published version has been served: a remote Addon of the claim was Ready at
\* the generation with that version (syncExternalStatus).
VersionSound ==
    \A c \in Claims :
        LET v == Stored(claim[c]).status.version
        IN  v # 0 => \E s \in Secrets : v \in served[c][s]

\* A claim that is gone has left nothing in the remote cluster of its last spec,
\* under the label of that spec, unless a cleanup failed (reconcileDelete,
\* ensureFinalizer before any remote write).  What it has left elsewhere is where
\* an earlier spec told it to write: edits of credentialRef and of valueLabels
\* leave what was written before them, and nothing else is left.
NoRemoteOrphan ==
    \A c \in Claims :
        LET o        == Stored(claim[c])
            Place(v) == <<CredentialRef[c][v], ValueLabels[v]>>
        IN  o.life \in {"absent", "gone"} /\ c \notin cleanupFailed => \A s \in Secrets :
              /\ remoteAddon[c][s].life = "live" =>
                    s # Ref(c, o) /\ \E v \in 1..(o.ver - 1) : s = CredentialRef[c][v]
              /\ \A l \in 1..MaxVer : remoteValue[c][s][l] # 0 =>
                    <<s, l>> # Place(o.ver) /\ \E v \in 1..(o.ver - 1) : <<s, l>> = Place(v)

AtRest(c) ==
    /\ c \notin queue /\ worker[c].pc = "idle"
    /\ Current(claim[c]) /\ Current(secret[Ref(c, Stored(claim[c]))])

\* A claim that nothing is going to reconcile has its last spec and values in
\* the remote cluster that it names, was seen Ready there with this spec, says so, and has a
\* Secret that works: in every other state an event or a requeue is due.
ClaimAtRest ==
    \A c \in Claims :
        LET o  == Stored(claim[c])
            s  == Ref(c, o)
            st == o.status
        IN  AtRest(c) /\ o.life = "live" /\ ~o.paused =>
              /\ st.conds = SetReady("FullyReconciled") /\ st.ready = "true" /\ st.obs = o.ver
              /\ remoteAddon[c][s].spec = AddonSpec[o.ver] /\ AddonSpec[o.ver] \in served[c][s]
              /\ o.ver \notin Valueless => remoteValue[c][s][ValueLabels[o.ver]] = o.ver
              /\ c \in ControlPlanes => st.version = AddonSpec[o.ver]
              /\ Stored(secret[s]).kind = "valid"

Workable(c) ==
    LET o == Stored(claim[c])
    IN  /\ o.life = "live" /\ ~o.paused /\ c \notin Rejected
        /\ template = "ok" /\ Stored(secret[Ref(c, o)]).kind = "valid"

\* A claim whose template and Secret are in order in the end becomes and stays
\* Ready with its last spec, whatever failed before and whatever happens to
\* other claims of the same cluster: only unreachability moves the shared
\* backoff (handleRemoteSyncError).
ClaimBecomesReady ==
    \A c \in Claims :
        <>[]Workable(c) => <>[](LET o == Stored(claim[c])
                                IN  o.status.conds.ready /\ o.status.obs = o.ver)

\* A claim that is deleted goes away: no failure of the remote cluster holds
\* the finalizer (reconcileDelete).
ClaimDeletionEnds ==
    \A c \in Claims : Stored(claim[c]).life = "deleting" ~> Stored(claim[c]).life = "gone"

=============================================================================
