-------------------------- MODULE AddonClaimProofs --------------------------
(***************************************************************************)
(* Proofs about AddonClaim, for any claims, Secrets and bounds.            *)
(***************************************************************************)
EXTENDS AddonClaim, ObjectVersionsProofs

-----------------------------------------------------------------------------
(* The backoff. *)

\* The pause after n failures is the initial one doubled n - 1 times, cut off at
\* the maximum, although the shift may overflow into the sign of a Duration.
LEMMA BackoffValue ==
    ASSUME NEW n \in 1..FailureCap
    PROVE  LET d == HealthBackoffInitial * 2^(n - 1)
           IN  /\ computeHealthBackoff(n) = IF d < HealthBackoffMax THEN d ELSE HealthBackoffMax
               /\ computeHealthBackoff(n) \in 0..HealthBackoffMax
<1> DEFINE d == HealthBackoffInitial * 2^(n - 1)
           half == 2^(Width - 1)
<1>1. /\ HealthBackoffInitial \in Nat /\ HealthBackoffInitial >= 1 /\ HealthBackoffMax \in Nat
      /\ ShiftLimit \in Nat /\ n \in Nat /\ n >= 1 /\ n <= ShiftLimit + 2
  BY CacheAssumption DEF FailureCap
<1>2. half \in Int /\ HealthBackoffMax < half
  BY CacheAssumption
<1>3. CASE n - 1 <= ShiftLimit
  <2>1. n - 1 \in 0..ShiftLimit
    BY <1>1, <1>3
  <2>2. d \in Int /\ d >= 1 /\ d < 2 * half
    BY <2>1, <1>2, CacheAssumption
  <2>3. computeHealthBackoff(n) = IF Wrapped(d) <= 0 \/ Wrapped(d) > HealthBackoffMax
                                  THEN HealthBackoffMax ELSE Wrapped(d)
    BY <1>1, <1>3 DEF computeHealthBackoff
  <2>4. CASE d < half
    <3>1. (d + half) % (2 * half) = d + half
      <4> DEFINE x == d + half
                 m == 2 * half
      <4>1. x \in Nat /\ m \in Nat /\ m > 0 /\ x < m
        BY <1>1, <1>2, <2>2, <2>4
      <4> HIDE DEF x, m
      <4>2. x % m = x
        BY <4>1
      <4>3. QED BY <4>2 DEF x, m
    <3>2. Wrapped(d) = d
      BY <3>1, <1>2, <2>2 DEF Wrapped
    <3>3. QED BY <1>1, <2>2, <2>3, <3>2
  <2>5. CASE d >= half
    <3>1. (d + half) % (2 * half) = d - half
      <4> DEFINE x == d + half
                 m == 2 * half
      <4>1. x \in Nat /\ m \in Nat /\ m > 0 /\ x >= m /\ x < 2 * m
        BY <1>1, <1>2, <2>2, <2>5
      <4> HIDE DEF x, m
      <4>2. x % m = x - m
        BY <4>1
      <4>3. QED BY <4>2, <1>2, <2>2 DEF x, m
    <3>2. Wrapped(d) = d - 2 * half
      BY <3>1, <1>2, <2>2 DEF Wrapped
    <3>3. QED BY <1>1, <1>2, <2>2, <2>3, <2>5, <3>2
  <2>6. QED BY <2>2, <1>2, <2>4, <2>5
<1>4. CASE n - 1 > ShiftLimit
  <2>1. n - 1 = ShiftLimit + 1
    BY <1>1, <1>4
  <2>2. HealthBackoffMax <= d /\ d \in Int
    BY <2>1, <1>1, CacheAssumption
  <2>3. computeHealthBackoff(n) = HealthBackoffMax
    BY <1>1, <1>4 DEF computeHealthBackoff
  <2>4. QED BY <1>1, <2>2, <2>3
<1>5. QED BY <1>1, <1>3, <1>4

-----------------------------------------------------------------------------
(* Type correctness. *)

\* A remote Addon that is there has a spec; so served only holds editions.
RemoteHasSpec ==
    \A c \in Claims, s \in Secrets :
        remoteAddon[c][s].life = "live" => remoteAddon[c][s].spec # 0

TypeInv == TypeOK /\ RemoteHasSpec

LEMMA WithTypes ==
    ASSUME NEW st \in Status, NEW cs \in Conditions
    PROVE  With(st, cs) \in Status
BY DEF With, Status

LEMMA NewTypes ==
    /\ \A l \in {"absent", "live", "deleting", "gone"} : NewClaim(l) \in Claim
    /\ NewStatus \in Status /\ Idle \in Worker
    /\ NoSecret \in Secret \union {NoSecret}
BY ClaimAssumption, CacheAssumption
DEF Conditions, NoConditions, Primary, Reasons, NewClaim, NewStatus, Claim, Status, Idle, Worker,
    NoClient

LEMMA ConcludedTypes ==
    ASSUME NEW o \in Claim, NEW st \in Status, NEW requeue \in BOOLEAN
    PROVE  Concluded(o, st, requeue) \in Worker
<1>1. [st EXCEPT !.obs = o.ver] \in Status
  BY ClaimAssumption DEF Status, Claim
<1>2. st.conds.degraded \in BOOLEAN
  BY DEF Status, Conditions
<1>3. QED BY <1>1, <1>2, NewTypes DEF Concluded, Worker

LEMMA StartedTypes ==
    ASSUME NEW o \in Claim
    PROVE  Started(o) \in Worker
<1> DEFINE n == [o EXCEPT !.status = With(@, EnsureAllConditions(@.conds))]
<1>1. o.status \in Status /\ o.status.conds \in Conditions
  BY DEF Claim, Status
<1>2. With(o.status, EnsureAllConditions(o.status.conds)) \in Status
  BY <1>1, WithTypes, ConditionTypes DEF Reasons
<1>3. n \in Claim
  BY <1>2 DEF Claim
<1>4. n.status \in Status /\ n.status.conds \in Conditions
  BY <1>3 DEF Claim, Status
<1>5. With(n.status, SetPaused(n.status.conds)) \in Status
  BY <1>4, WithTypes, ConditionTypes DEF Reasons
<1>6. CASE o.paused
  <2>1. Started(o) = Concluded(n, With(n.status, SetPaused(n.status.conds)), FALSE)
    BY <1>6 DEF Started
  <2>2. QED BY <2>1, <1>3, <1>5, ConcludedTypes
<1>7. CASE ~o.paused
  <2>1. Started(o) = [Idle EXCEPT !.pc = "connect", !.copy = n]
    BY <1>7 DEF Started
  <2>2. QED BY <2>1, <1>3, NewTypes DEF Worker
<1>8. QED BY <1>6, <1>7

\* The parts of a well-typed state.
LEMMA StateTypes ==
    ASSUME TypeOK, NEW c \in Claims
    PROVE  /\ claim[c] \in Versions(Claim)
           /\ Key(c) \in Secrets /\ secret[Key(c)] \in Versions(Secret)
           /\ worker[c] \in Worker /\ worker[c].copy \in Claim /\ worker[c].copy.status \in Status
           /\ worker[c].copy.ver \in 1..MaxVer
           /\ worker[c].status \in Status
           /\ worker[c].secret \in Secret \union {NoSecret}
           /\ worker[c].secret.edition \in 0..MaxEdition
           /\ worker[c].requeue \in BOOLEAN
           /\ remoteAddon[c][Key(c)] \in RemoteAddon
<1>1. worker[c] \in Worker /\ claim[c] \in Versions(Claim)
  BY DEF TypeOK
<1>3. /\ worker[c].copy \in Claim /\ worker[c].status \in Status
      /\ worker[c].secret \in Secret \union {NoSecret} /\ worker[c].requeue \in BOOLEAN
  BY <1>1 DEF Worker
<1>4. worker[c].copy.status \in Status /\ worker[c].copy.ver \in 1..MaxVer
  BY <1>3 DEF Claim
<1>2. /\ Key(c) \in Secrets /\ secret[Key(c)] \in Versions(Secret)
      /\ remoteAddon[c][Key(c)] \in RemoteAddon
  <2>1. Key(c) \in Secrets
    BY <1>4, EditionAssumption DEF Key, Ref
  <2>2. QED BY <2>1 DEF TypeOK
<1>5. worker[c].secret.edition \in 0..MaxEdition
  BY <1>3, CacheAssumption DEF Secret, NoSecret, NoClient
<1>6. QED BY <1>1, <1>2, <1>3, <1>4, <1>5

\* A write of one remote Addon, and of one remote AddonValue.
LEMMA AddonWrite ==
    ASSUME TypeOK, NEW c \in Claims, NEW s \in Secrets, NEW a \in RemoteAddon,
           remoteAddon' = [remoteAddon EXCEPT ![c][s] = a]
    PROVE  /\ remoteAddon' \in [Claims -> [Secrets -> RemoteAddon]]
           /\ remoteAddon'[c][s] = a
           /\ \A t \in Secrets \ {s} : remoteAddon'[c][t] = remoteAddon[c][t]
           /\ \A d \in Claims \ {c} : remoteAddon'[d] = remoteAddon[d]
<1>1. /\ remoteAddon \in [Claims -> [Secrets -> RemoteAddon]]
      /\ remoteAddon[c] \in [Secrets -> RemoteAddon]
  BY DEF TypeOK
<1>2. remoteAddon' = [remoteAddon EXCEPT ![c] = [remoteAddon[c] EXCEPT ![s] = a]]
  BY <1>1
<1>3. [remoteAddon[c] EXCEPT ![s] = a] \in [Secrets -> RemoteAddon]
  BY <1>1
<1>4. remoteAddon'[c] = [remoteAddon[c] EXCEPT ![s] = a]
  BY <1>1, <1>2
<1>5. QED BY <1>1, <1>2, <1>3, <1>4

LEMMA AddonWriteTypes ==
    ASSUME TypeInv, NEW c \in Claims, NEW s \in Secrets, NEW a \in RemoteAddon,
           a.life = "live" => a.spec # 0,
           remoteAddon' = [remoteAddon EXCEPT ![c][s] = a]
    PROVE  remoteAddon' \in [Claims -> [Secrets -> RemoteAddon]] /\ RemoteHasSpec'
<1>1. TypeOK /\ RemoteHasSpec
  BY DEF TypeInv
<1>2. /\ remoteAddon' \in [Claims -> [Secrets -> RemoteAddon]]
      /\ remoteAddon'[c][s] = a
      /\ \A t \in Secrets \ {s} : remoteAddon'[c][t] = remoteAddon[c][t]
      /\ \A d \in Claims \ {c} : remoteAddon'[d] = remoteAddon[d]
  BY <1>1, AddonWrite
<1>3. ASSUME NEW d \in Claims, NEW t \in Secrets, remoteAddon'[d][t].life = "live"
      PROVE  remoteAddon'[d][t].spec # 0
  <2>1. CASE d = c /\ t = s
    BY <1>2, <2>1, <1>3
  <2>2. CASE d # c \/ t # s
    <3>1. remoteAddon'[d][t] = remoteAddon[d][t]
      BY <1>2, <2>2
    <3>2. QED BY <1>1, <1>3, <3>1 DEF RemoteHasSpec
  <2>3. QED BY <2>1, <2>2
<1>4. QED BY <1>2, <1>3 DEF RemoteHasSpec

LEMMA ValueWrite ==
    ASSUME TypeOK, NEW c \in Claims, NEW s \in Secrets, NEW l \in 1..MaxVer, NEW v \in 0..MaxVer,
           remoteValue' = [remoteValue EXCEPT ![c][s][l] = v]
    PROVE  /\ remoteValue' \in [Claims -> [Secrets -> [1..MaxVer -> 0..MaxVer]]]
           /\ remoteValue'[c][s][l] = v
           /\ \A t \in Secrets, k \in 1..MaxVer :
                  t # s \/ k # l => remoteValue'[c][t][k] = remoteValue[c][t][k]
           /\ \A d \in Claims \ {c} : remoteValue'[d] = remoteValue[d]
<1> DEFINE V == [1..MaxVer -> 0..MaxVer]
           n == [remoteValue[c][s] EXCEPT ![l] = v]
<1>1. /\ remoteValue \in [Claims -> [Secrets -> V]] /\ remoteValue[c] \in [Secrets -> V]
      /\ remoteValue[c][s] \in V
  BY DEF TypeOK
<1>2. n \in V /\ n[l] = v /\ \A k \in 1..MaxVer : k # l => n[k] = remoteValue[c][s][k]
  BY <1>1
<1>3. remoteValue' = [remoteValue EXCEPT ![c] = [remoteValue[c] EXCEPT ![s] = n]]
  BY <1>1
<1> HIDE DEF n, V
<1>4. /\ [remoteValue[c] EXCEPT ![s] = n] \in [Secrets -> V]
      /\ remoteValue'[c] = [remoteValue[c] EXCEPT ![s] = n]
  BY <1>1, <1>2, <1>3
<1>5. /\ remoteValue'[c][s] = n
      /\ \A t \in Secrets \ {s} : remoteValue'[c][t] = remoteValue[c][t]
  BY <1>1, <1>4
<1>6. /\ remoteValue' \in [Claims -> [Secrets -> V]]
      /\ \A d \in Claims \ {c} : remoteValue'[d] = remoteValue[d]
  BY <1>1, <1>3, <1>4
<1>7. QED BY <1>2, <1>5, <1>6 DEF V

\* What is written: the update and the deletion of an Addon, and the reports.
LEMMA AddonWrites ==
    ASSUME NEW a \in RemoteAddon
    PROVE  /\ \A spec \in 1..MaxVer :
                  /\ Updated(a, spec) \in RemoteAddon /\ Updated(a, spec).spec = spec
                  /\ Updated(a, spec).life = "deleting" => a.life = "deleting"
                  /\ isAddonReadyAtCurrentGeneration(Updated(a, spec)) =>
                         a.spec = spec /\ isAddonReadyAtCurrentGeneration(a)
           /\ Deleted(a) \in RemoteAddon /\ Deleted(a).life # "live" /\ Deleted(a).spec = a.spec
           /\ Deleted(a).seen = a.seen /\ Deleted(a).ready = a.ready
<1>1. ASSUME NEW spec \in 1..MaxVer
      PROVE  /\ Updated(a, spec) \in RemoteAddon /\ Updated(a, spec).spec = spec
             /\ Updated(a, spec).life = "deleting" => a.life = "deleting"
             /\ isAddonReadyAtCurrentGeneration(Updated(a, spec)) =>
                    a.spec = spec /\ isAddonReadyAtCurrentGeneration(a)
  <2>1. spec \in 0..MaxVer
    BY ClaimAssumption
  <2>2. CASE a.spec = spec
    BY <2>2 DEF Updated
  <2>3. CASE a.spec # spec
    <3>1. Updated(a, spec) = [a EXCEPT !.life = IF a.life = "absent" THEN "live" ELSE a.life,
                                       !.spec = spec, !.seen = FALSE]
      BY <2>3 DEF Updated
    <3>2. QED BY <2>1, <3>1 DEF RemoteAddon, isAddonReadyAtCurrentGeneration
  <2>4. QED BY <2>2, <2>3
<1>2. /\ Deleted(a) \in RemoteAddon /\ Deleted(a).life # "live" /\ Deleted(a).spec = a.spec
      /\ Deleted(a).seen = a.seen /\ Deleted(a).ready = a.ready
  BY DEF Deleted, RemoteAddon
<1>3. QED BY <1>1, <1>2

\* Every critical section of the cache keeps it well-typed.
LEMMA CacheTypes ==
    ASSUME CacheTypeOK, NEW s \in Secrets
    PROVE  /\ RecordFailure(s) => CacheTypeOK'
           /\ RecordSuccess(s) => CacheTypeOK'
           /\ \A e \in 0..MaxEdition : StoreClient(s, e) => CacheTypeOK'
           /\ EvictIdle(s) => CacheTypeOK'
           /\ Tick => CacheTypeOK'
           /\ UNCHANGED cacheVars => CacheTypeOK'
<1> USE CacheAssumption
<1>1. FailureCap \in Nat /\ FailureCap >= 1
  BY DEF FailureCap
<1>2. ASSUME RecordFailure(s) PROVE CacheTypeOK'
  <2> DEFINE n == IF health[s].failures < FailureCap THEN health[s].failures + 1 ELSE FailureCap
  <2>1. n \in 1..FailureCap
    BY <1>1 DEF CacheTypeOK
  <2>2. computeHealthBackoff(n) \in 0..HealthBackoffMax
    BY <2>1, BackoffValue
  <2>3. n \in 0..FailureCap
    BY <2>1, <1>1
  <2> HIDE DEF n
  <2>4. [failures |-> n, pause |-> computeHealthBackoff(n)]
            \in [failures : 0..FailureCap, pause : 0..HealthBackoffMax]
    BY <2>2, <2>3
  <2>5. /\ health' = [health EXCEPT ![s] = [failures |-> n, pause |-> computeHealthBackoff(n)]]
        /\ UNCHANGED clients
    BY <1>2 DEF RecordFailure, n
  <2>6. QED BY <2>4, <2>5 DEF CacheTypeOK
<1>3. ASSUME RecordSuccess(s) PROVE CacheTypeOK'
  BY <1>3, <1>1 DEF RecordSuccess, CacheTypeOK, Healthy
<1>4. ASSUME NEW e \in 0..MaxEdition, StoreClient(s, e) PROVE CacheTypeOK'
  BY <1>4 DEF StoreClient, ClientAfterBuild, CacheTypeOK
<1>5. ASSUME EvictIdle(s) PROVE CacheTypeOK'
  BY <1>5 DEF EvictIdle, CacheTypeOK, NoClient
<1>6. ASSUME Tick PROVE CacheTypeOK'
  BY <1>6, <1>1 DEF Tick, CacheTypeOK
<1>7. ASSUME UNCHANGED cacheVars PROVE CacheTypeOK'
  BY <1>7 DEF cacheVars, CacheTypeOK
<1>8. QED BY <1>2, <1>3, <1>4, <1>5, <1>6, <1>7

\* The ends of a reconcile.
LEMMA ReturnTypes ==
    ASSUME TypeOK, NEW c \in Claims
    PROVE  /\ \A r \in BOOLEAN : Returns(c, r) =>
                  worker' \in [Claims -> Worker] /\ queue' \subseteq Claims
           /\ \A st \in Status, r \in BOOLEAN : Conclude(c, st, r) =>
                  worker' \in [Claims -> Worker] /\ queue' \subseteq Claims
           /\ CleanupFails(c) => worker' \in [Claims -> Worker] /\ queue' \subseteq Claims
                                     /\ cleanupFailed' \subseteq Claims
<1>1. ASSUME NEW r \in BOOLEAN, Returns(c, r)
      PROVE  worker' \in [Claims -> Worker] /\ queue' \subseteq Claims
  BY <1>1, NewTypes DEF Returns, TypeOK
<1>2. ASSUME NEW st \in Status, NEW r \in BOOLEAN, Conclude(c, st, r)
      PROVE  worker' \in [Claims -> Worker] /\ queue' \subseteq Claims
  <2>1. Concluded(worker[c].copy, st, r) \in Worker
    BY StateTypes, ConcludedTypes
  <2>2. QED BY <1>2, <2>1 DEF Conclude, TypeOK
<1>3. ASSUME CleanupFails(c)
      PROVE  /\ worker' \in [Claims -> Worker] /\ queue' \subseteq Claims
             /\ cleanupFailed' \subseteq Claims
  <2>1. [Idle EXCEPT !.pc = "unfinalize"] \in Worker
    BY NewTypes DEF Worker
  <2>2. QED BY <1>3, <2>1 DEF CleanupFails, TypeOK
<1>4. QED BY <1>1, <1>2, <1>3

\* A user's write of a well-typed version.
LEMMA PutTypes ==
    ASSUME TypeInv, NEW c \in Claims, NEW o \in Claim, NEW kind, Put(c, o, kind)
    PROVE  TypeInv'
<1>1. Append(claim[c], o) \in Versions(Claim)
  BY StateTypes, VersionsAppend DEF TypeInv, Put
<1>2. claim' \in [Claims -> Versions(Claim)]
  BY <1>1 DEF Put, TypeInv, TypeOK
<1>3. changes' \in 0..MaxChanges
  BY ClaimAssumption DEF Put, Change, TypeInv, TypeOK
<1>4. CacheTypeOK'
  BY DEF Put, Change, cacheVars, CacheTypeOK, TypeInv, TypeOK
<1>5. QED
  BY <1>2, <1>3, <1>4 DEF Put, Change, TypeInv, TypeOK, RemoteHasSpec, remote

\* What users, informers and the remote cluster do to a claim.
LEMMA WorldTypes ==
    ASSUME TypeInv, NEW c \in Claims
    PROVE  /\ UserStep(c) => TypeInv'
           /\ DeliverClaim(c) => TypeInv'
           /\ RemoteStep(c) => TypeInv'
<1> USE DEF TypeInv
<1>1. claim[c] \in Versions(Claim) /\ Stored(claim[c]) \in Claim
  BY StateTypes, VersionsEnds
<1>3. ASSUME UserStep(c) PROVE TypeInv'
  <2>1. CASE CreateClaim(c)
    <3>1. NewClaim("live") \in Claim
      BY NewTypes
    <3>2. QED BY <2>1, <3>1, PutTypes DEF CreateClaim
  <2>2. CASE EditClaim(c)
    <3>1. \A v \in (Stored(claim[c]).ver + 1)..MaxVer :
              [Stored(claim[c]) EXCEPT !.ver = v] \in Claim
      BY <1>1, ClaimAssumption DEF Claim
    <3>2. QED BY <2>2, <3>1, PutTypes DEF EditClaim
  <2>3. CASE PauseClaim(c)
    <3>1. [Stored(claim[c]) EXCEPT !.paused = ~@] \in Claim
      BY <1>1 DEF Claim
    <3>2. QED BY <2>3, <3>1, PutTypes DEF PauseClaim
  <2>4. CASE DeleteClaim(c)
    <3>1. [Stored(claim[c]) EXCEPT !.life = IF Stored(claim[c]).fin THEN "deleting" ELSE "gone"]
              \in Claim
      BY <1>1 DEF Claim
    <3>2. QED BY <2>4, <3>1, PutTypes DEF DeleteClaim
  <2>5. QED BY <1>3, <2>1, <2>2, <2>3, <2>4 DEF UserStep
<1>4. ASSUME DeliverClaim(c) PROVE TypeInv'
  <2>1. Tail(claim[c]) \in Versions(Claim)
    BY <1>1, <1>4, VersionsTail DEF DeliverClaim
  <2>2. claim' \in [Claims -> Versions(Claim)]
    BY <2>1, <1>4 DEF DeliverClaim, TypeOK
  <2>3. CacheTypeOK'
    BY <1>4 DEF DeliverClaim, cacheVars, CacheTypeOK, TypeOK
  <2>4. QED BY <1>4, <2>2, <2>3 DEF DeliverClaim, TypeOK, RemoteHasSpec, remote, bounds
<1>5. ASSUME RemoteStep(c) PROVE TypeInv'
  <2>1. CacheTypeOK'
    BY <1>5 DEF RemoteStep, RemoteReport, RemoteObserve, RemoteUnready, RemoteGone, RemoteElse,
                Change, cacheVars, CacheTypeOK, TypeOK
  <2>2. /\ remoteAddon' \in [Claims -> [Secrets -> RemoteAddon]] /\ RemoteHasSpec'
        /\ served' \in [Claims -> [Secrets -> SUBSET (1..MaxVer)]]
    <3>1. PICK s \in Secrets :
              RemoteReport(c, s) \/ RemoteObserve(c, s) \/ RemoteUnready(c, s) \/ RemoteGone(c, s)
      BY <1>5 DEF RemoteStep
    <3> DEFINE a == remoteAddon[c][s]
    <3>2. a \in RemoteAddon /\ (a.life = "live" => a.spec # 0)
      BY DEF TypeOK, RemoteHasSpec
    <3>3. \/ UNCHANGED served
          \/ a.life = "live" /\ served' = [served EXCEPT ![c][s] = @ \union {a.spec}]
      BY <3>1 DEF RemoteReport, RemoteObserve, RemoteUnready, RemoteGone
    <3>4. PICK b : remoteAddon' = [remoteAddon EXCEPT ![c][s] = b] /\
              b \in {[a EXCEPT !.seen = TRUE, !.ready = TRUE], [a EXCEPT !.seen = TRUE, !.ready = FALSE],
                     [a EXCEPT !.ready = FALSE], NoRemoteAddon}
      BY <3>1 DEF RemoteReport, RemoteObserve, RemoteUnready, RemoteGone
    <3> HIDE DEF a
    <3>5. b \in RemoteAddon /\ (b.life = "live" => b.spec # 0)
      <4>1. CASE b = NoRemoteAddon
        <5>1. 0 \in 0..MaxVer
          BY ClaimAssumption
        <5>2. QED BY <4>1, <5>1 DEF RemoteAddon, NoRemoteAddon
      <4>2. CASE b # NoRemoteAddon
        <5>1. /\ b.life = a.life /\ b.spec = a.spec /\ b \in RemoteAddon
          BY <3>2, <3>4, <4>2 DEF RemoteAddon
        <5>2. QED BY <3>2, <5>1
      <4>3. QED BY <4>1, <4>2
    <3>6. remoteAddon' \in [Claims -> [Secrets -> RemoteAddon]] /\ RemoteHasSpec'
      BY <3>4, <3>5, AddonWriteTypes
    <3>7. served' \in [Claims -> [Secrets -> SUBSET (1..MaxVer)]]
      <4>1. a.life = "live" => a.spec \in 1..MaxVer
        BY <3>2, ClaimAssumption DEF RemoteAddon
      <4>2. served \in [Claims -> [Secrets -> SUBSET (1..MaxVer)]]
        BY DEF TypeOK
      <4>3. CASE a.life = "live" /\ served' = [served EXCEPT ![c][s] = @ \union {a.spec}]
        <5>1. served[c] \in [Secrets -> SUBSET (1..MaxVer)]
          BY <4>2
        <5>2. [served[c] EXCEPT ![s] = @ \union {a.spec}] \in [Secrets -> SUBSET (1..MaxVer)]
          BY <4>1, <4>3, <5>1
        <5>3. QED BY <4>2, <4>3, <5>1, <5>2
      <4>4. QED BY <3>3, <4>2, <4>3
    <3>8. QED BY <3>6, <3>7
  <2>3. changes' \in 0..MaxChanges
    BY <1>5, ClaimAssumption
    DEF RemoteStep, RemoteReport, RemoteObserve, RemoteUnready, RemoteGone, Change, TypeOK
  <2>4. UNCHANGED <<claim, secret, template, queue, worker, remoteValue, faults, cleanupFailed>>
    BY <1>5 DEF RemoteStep, RemoteReport, RemoteObserve, RemoteUnready, RemoteGone, RemoteElse,
                Change, objects
  <2>5. QED BY <2>1, <2>2, <2>3, <2>4 DEF TypeOK
<1>6. QED BY <1>3, <1>4, <1>5

\* What they do to Secrets and to the template.
LEMMA SecretTypes ==
    ASSUME TypeInv
    PROVE  /\ \A s \in Secrets : ChangeSecret(s) => TypeInv'
           /\ \A s \in Secrets : DeliverSecret(s) => TypeInv'
           /\ ChangeTemplate => TypeInv'
<1> USE DEF TypeInv
<1>2. ASSUME NEW s \in Secrets
      PROVE  secret[s] \in Versions(Secret) /\ Stored(secret[s]) \in Secret
  <2>1. secret[s] \in Versions(Secret)
    BY DEF TypeOK
  <2>2. QED BY <2>1, VersionsEnds
<1>6. ASSUME NEW s \in Secrets, ChangeSecret(s) PROVE TypeInv'
  <2>1. PICK k \in {"valid", "invalid", "garbled", "absent"} :
            secret' = [secret EXCEPT ![s] =
                Append(@, [edition |-> Stored(secret[s]).edition + 1, kind |-> k])]
    BY <1>6 DEF ChangeSecret
  <2>2. [edition |-> Stored(secret[s]).edition + 1, kind |-> k] \in Secret
    BY <1>6, <1>2, CacheAssumption DEF ChangeSecret, Secret
  <2>3. secret' \in [Secrets -> Versions(Secret)]
    BY <1>6, <1>2, <2>1, <2>2, VersionsAppend DEF ChangeSecret, TypeOK
  <2>4. changes' \in 0..MaxChanges
    BY <1>6, ClaimAssumption DEF ChangeSecret, Change, TypeOK
  <2>5. CacheTypeOK'
    BY <1>6 DEF ChangeSecret, Change, cacheVars, CacheTypeOK, TypeOK
  <2>6. QED BY <1>6, <2>3, <2>4, <2>5 DEF ChangeSecret, Change, TypeOK, RemoteHasSpec, remote
<1>7. ASSUME NEW s \in Secrets, DeliverSecret(s) PROVE TypeInv'
  <2>1. Tail(secret[s]) \in Versions(Secret)
    BY <1>2, <1>7, VersionsTail DEF DeliverSecret
  <2>2. secret' \in [Secrets -> Versions(Secret)]
    BY <2>1, <1>7 DEF DeliverSecret, TypeOK
  <2>3. CacheTypeOK'
    BY <1>7 DEF DeliverSecret, cacheVars, CacheTypeOK, TypeOK
  <2>4. queue' \subseteq Claims
    BY <1>7 DEF DeliverSecret, findClaimsForSecret, TypeOK
  <2>5. QED BY <1>7, <2>2, <2>3, <2>4 DEF DeliverSecret, TypeOK, RemoteHasSpec, remote, bounds
<1>8. ASSUME ChangeTemplate PROVE TypeInv'
  <2>1. changes' \in 0..MaxChanges
    BY <1>8, ClaimAssumption DEF ChangeTemplate, Change, TypeOK
  <2>2. CacheTypeOK'
    BY <1>8 DEF ChangeTemplate, Change, cacheVars, CacheTypeOK, TypeOK
  <2>3. QED BY <1>8, <2>1, <2>2 DEF ChangeTemplate, Change, TypeOK, RemoteHasSpec, remote
<1>9. QED BY <1>6, <1>7, <1>8

\* What stays well-typed when only the worker, the queue and the cache change.
LEMMA LocalTypes ==
    ASSUME TypeInv, worker' \in [Claims -> Worker], queue' \subseteq Claims, CacheTypeOK',
           cleanupFailed' \subseteq Claims, faults' \in 0..MaxFaults,
           UNCHANGED <<objects, remote, changes>>
    PROVE  TypeInv'
BY DEF TypeInv, TypeOK, RemoteHasSpec, objects, remote

\* A step that goes on with another remote client, or with the same one.
LEMMA MoveTypes ==
    ASSUME TypeOK, NEW c \in Claims,
           NEW s \in Secret \union {NoSecret}, NEW e \in 0..MaxEdition,
           NEW pc \in {"build", "value", "addon", "mirror",
                        "deleteBuild", "deleteAddon", "deleteValue", "unfinalize"}
    PROVE  /\ [worker[c] EXCEPT !.secret = s, !.client = e, !.pc = pc] \in Worker
           /\ [worker[c] EXCEPT !.pc = pc, !.client = e] \in Worker
           /\ [worker[c] EXCEPT !.pc = pc] \in Worker
<1> DEFINE w == worker[c]
<1>1. w \in Worker
  BY StateTypes
<1> HIDE DEF w
<1>2. QED BY <1>1 DEF Worker, w

\* The first look into the cache, and the client that is built.
LEMMA ClientTypes ==
    ASSUME TypeOK, NEW c \in Claims,
           NEW build \in {"build", "deleteBuild"}, NEW next \in {"value", "deleteAddon"}
    PROVE  /\ Lookup(c, Cached(secret[Key(c)]), build, next) =>
                  worker' \in [Claims -> Worker] /\ queue' \subseteq Claims
           /\ Built(c, next) =>
                  worker' \in [Claims -> Worker] /\ queue' \subseteq Claims /\ CacheTypeOK'
<1>1. ASSUME Lookup(c, Cached(secret[Key(c)]), build, next)
      PROVE  worker' \in [Claims -> Worker] /\ queue' \subseteq Claims
  <2> DEFINE s == Cached(secret[Key(c)])
             e == IF Hit(Key(c), s.edition) THEN s.edition ELSE NoClient
             pc == IF Hit(Key(c), s.edition) THEN next ELSE build
  <2>1. s \in Secret
    BY StateTypes, VersionsEnds
  <2>2. e \in 0..MaxEdition
    BY <2>1, CacheAssumption DEF Secret, NoClient
  <2>3. pc \in {"build", "value", "deleteBuild", "deleteAddon"}
    OBVIOUS
  <2>4. /\ worker' = [worker EXCEPT ![c] = [@ EXCEPT !.secret = s, !.client = e, !.pc = pc]]
        /\ UNCHANGED queue
    <3>1. /\ worker' = [worker EXCEPT ![c].secret = s, ![c].client = e, ![c].pc = pc]
          /\ UNCHANGED queue
      BY <1>1 DEF Lookup
    <3> HIDE DEF s, e, pc
    <3>2. worker = [d \in Claims |-> worker[d]]
      BY DEF TypeOK
    <3>3. QED BY <3>1, <3>2
  <2> HIDE DEF s, e, pc
  <2>5. [worker[c] EXCEPT !.secret = s, !.client = e, !.pc = pc] \in Worker
    BY <2>1, <2>2, <2>3, MoveTypes
  <2>6. QED BY <2>4, <2>5 DEF TypeOK
<1>2. ASSUME Built(c, next)
      PROVE  worker' \in [Claims -> Worker] /\ queue' \subseteq Claims /\ CacheTypeOK'
  <2> DEFINE e == ClientAfterBuild(Key(c), worker[c].secret.edition)
  <2>1. worker[c].secret.edition \in 0..MaxEdition /\ Key(c) \in Secrets
    BY StateTypes
  <2>2. e \in 0..MaxEdition
    BY <2>1 DEF ClientAfterBuild
  <2>3. CacheTypeOK'
    BY <1>2, <2>1, CacheTypes DEF Built, TypeOK
  <2>4. worker' = [worker EXCEPT ![c] = [@ EXCEPT !.pc = next, !.client = e]] /\ UNCHANGED queue
    <3>1. worker' = [worker EXCEPT ![c].pc = next, ![c].client = e] /\ UNCHANGED queue
      BY <1>2 DEF Built
    <3> HIDE DEF e
    <3>2. worker = [d \in Claims |-> worker[d]]
      BY DEF TypeOK
    <3>3. QED BY <3>1, <3>2
  <2> HIDE DEF e
  <2>5. [worker[c] EXCEPT !.pc = next, !.client = e] \in Worker
    BY <2>2, MoveTypes, NewTypes
  <2>6. QED BY <2>3, <2>4, <2>5 DEF TypeOK
<1>3. QED BY <1>1, <1>2

\* The conditions a reconcile concludes with.
LEMMA VerdictTypes ==
    ASSUME TypeOK, NEW c \in Claims, NEW why \in Reasons
    PROVE  /\ With(worker[c].copy.status, SetDegraded(why)) \in Status
           /\ With(worker[c].copy.status, SetProgressing(why)) \in Status
<1>1. worker[c].copy.status \in Status
  BY StateTypes
<1>2. worker[c].copy.status.conds \in Conditions
  BY <1>1 DEF Status
<1>3. QED BY <1>1, <1>2, WithTypes, ConditionTypes

\* The steps of a reconcile up to the remote client.
LEMMA ConnectTypes ==
    ASSUME TypeInv, NEW c \in Claims
    PROVE  /\ Reconcile(c) => TypeInv'
           /\ EnsureFinalizer(c) => TypeInv'
           /\ Connect(c) => TypeInv'
           /\ BuildClient(c) => TypeInv'
<1> USE DEF TypeInv
<1>1. claim[c] \in Versions(Claim) /\ Stored(claim[c]) \in Claim /\ Cached(claim[c]) \in Claim
  BY StateTypes, VersionsEnds
<1>2. Cached(secret[Key(c)]) \in Secret
  BY StateTypes, VersionsEnds
<1>3. UNCHANGED cacheVars => CacheTypeOK'
  BY CacheTypes, StateTypes DEF TypeOK
<1>4. UNCHANGED Others => /\ UNCHANGED <<objects, remote, changes>>
                          /\ cleanupFailed' \subseteq Claims /\ faults' \in 0..MaxFaults
  BY DEF Others, TypeOK, bounds
<1>5. ASSUME Reconcile(c) PROVE TypeInv'
  <2> DEFINE o == Cached(claim[c])
  <2>1. Started(o) \in Worker
    BY <1>1, StartedTypes
  <2>2. /\ Idle \in Worker /\ [Idle EXCEPT !.pc = "cleanup", !.copy = o] \in Worker
        /\ [Idle EXCEPT !.pc = "finalizer", !.copy = o] \in Worker
    BY <1>1, NewTypes DEF Worker
  <2>3. o.life \in {"absent", "live", "deleting", "gone"} /\ o.fin \in BOOLEAN
    BY <1>1 DEF Claim
  <2>4. PICK w : worker' = [worker EXCEPT ![c] = w] /\ w \in Worker
    <3> HIDE DEF o
    <3>1. (CASE o.life \in {"absent", "gone"} \/ (o.life = "deleting" /\ ~o.fin) -> Idle
             [] o.life = "deleting" /\ o.fin -> [Idle EXCEPT !.pc = "cleanup", !.copy = o]
             [] o.life = "live" /\ ~o.fin -> [Idle EXCEPT !.pc = "finalizer", !.copy = o]
             [] o.life = "live" /\ o.fin -> Started(o)) \in Worker
      BY <2>1, <2>2, <2>3
    <3>2. QED BY <1>5, <3>1 DEF Reconcile, o
  <2>5. worker' \in [Claims -> Worker] /\ queue' \subseteq Claims
    BY <2>4, <1>5 DEF TypeOK, Reconcile
  <2>6. QED BY <1>5, <1>3, <1>4, <2>5, LocalTypes DEF Reconcile
<1>6. ASSUME EnsureFinalizer(c) PROVE TypeInv'
  <2>1. Started(worker[c].copy) \in Worker
    BY StateTypes, StartedTypes
  <2>2. worker' \in [Claims -> Worker] /\ queue' \subseteq Claims
    BY <1>6, <2>1, ReturnTypes DEF EnsureFinalizer, TypeOK
  <2>3. [Stored(claim[c]) EXCEPT !.fin = TRUE] \in Claim
    BY <1>1 DEF Claim
  <2>4. Current(claim[c]) =>
            Append(claim[c], [Stored(claim[c]) EXCEPT !.fin = TRUE]) \in Versions(Claim)
    BY <1>1, <2>3, VersionsAppend
  <2>5. claim' \in [Claims -> Versions(Claim)]
    BY <1>6, <2>4 DEF EnsureFinalizer, TypeOK
  <2>6. CacheTypeOK'
    BY <1>6, <1>3 DEF EnsureFinalizer
  <2>7. UNCHANGED <<secret, template, remote, bounds, cleanupFailed>>
    BY <1>6 DEF EnsureFinalizer
  <2>8. QED BY <2>2, <2>5, <2>6, <2>7 DEF TypeOK, RemoteHasSpec, remote, bounds
<1>7. ASSUME Connect(c) PROVE TypeInv'
  <2> DEFINE s == Cached(secret[Key(c)])
             n == worker[c].copy.status
  <2>2. ConnectProblem(s) # "" => ConnectProblem(s) \in Reasons
    BY DEF ConnectProblem, Reasons
  <2>3. "RemoteClientFailed" \in Reasons
    BY DEF Reasons
  <2>4. /\ ConnectProblem(s) # "" => With(n, SetDegraded(ConnectProblem(s))) \in Status
        /\ With(n, SetProgressing("RemoteClientFailed")) \in Status
    BY <2>2, <2>3, VerdictTypes
  <2>5. worker' \in [Claims -> Worker] /\ queue' \subseteq Claims
    BY <1>7, <2>4, ClientTypes, ReturnTypes DEF Connect
  <2>6. QED BY <1>7, <1>3, <1>4, <2>5, LocalTypes DEF Connect
<1>8. ASSUME BuildClient(c) PROVE TypeInv'
  <2>1. "RemoteClientFailed" \in Reasons
    BY DEF Reasons
  <2>2. With(worker[c].copy.status, SetDegraded("RemoteClientFailed")) \in Status
    BY <2>1, VerdictTypes
  <2>3. worker' \in [Claims -> Worker] /\ queue' \subseteq Claims /\ CacheTypeOK'
    BY <1>8, <1>3, <2>2, ClientTypes, ReturnTypes DEF BuildClient
  <2>4. QED BY <1>8, <1>4, <2>3, LocalTypes DEF BuildClient
<1>9. QED BY <1>5, <1>6, <1>7, <1>8

\* Proceeding, and a failed remote call.
LEMMA RemoteCallTypes ==
    ASSUME TypeOK, NEW c \in Claims
    PROVE  /\ \A next \in {"addon", "mirror", "deleteValue", "unfinalize"} : Proceed(c, next) =>
                  /\ worker' \in [Claims -> Worker] /\ queue' \subseteq Claims
                  /\ CacheTypeOK' /\ faults' \in 0..MaxFaults
           /\ \A class \in {"notReady", "rejected", "unreachable"} :
                  handleRemoteSyncError(c, class) =>
                      worker' \in [Claims -> Worker] /\ queue' \subseteq Claims /\ CacheTypeOK'
           /\ RemoteFault => faults' \in 0..MaxFaults
<1>1. ASSUME NEW next \in {"addon", "mirror", "deleteValue", "unfinalize"}, Proceed(c, next)
      PROVE  /\ worker' \in [Claims -> Worker] /\ queue' \subseteq Claims
             /\ CacheTypeOK' /\ faults' \in 0..MaxFaults
  <2>1. [worker[c] EXCEPT !.pc = next] \in Worker
    <3>1. NoSecret \in Secret \union {NoSecret} /\ 0 \in 0..MaxEdition
      BY CacheAssumption
    <3>2. QED BY <3>1, MoveTypes
  <2>2. worker' = [worker EXCEPT ![c] = [worker[c] EXCEPT !.pc = next]]
    BY <1>1 DEF Proceed, TypeOK
  <2>3. QED BY <1>1, <2>1, <2>2 DEF Proceed, TypeOK, cacheVars, CacheTypeOK
<1>2. ASSUME NEW class \in {"notReady", "rejected", "unreachable"},
             handleRemoteSyncError(c, class)
      PROVE  worker' \in [Claims -> Worker] /\ queue' \subseteq Claims /\ CacheTypeOK'
  <2>1. /\ "RemoteNotReady" \in Reasons /\ "RemoteRequestInvalid" \in Reasons
        /\ "RemoteOperationFailed" \in Reasons
    BY DEF Reasons
  <2>2. Key(c) \in Secrets /\ CacheTypeOK
    BY StateTypes DEF TypeOK
  <2>3. QED BY <1>2, <2>1, <2>2, VerdictTypes, ReturnTypes, CacheTypes DEF handleRemoteSyncError
<1>3. ASSUME RemoteFault PROVE faults' \in 0..MaxFaults
  BY <1>3, ClaimAssumption DEF RemoteFault, TypeOK
<1>4. QED BY <1>1, <1>2, <1>3

\* The remote writes, what is mirrored of them, and the status.
LEMMA SyncTypes ==
    ASSUME TypeInv, NEW c \in Claims
    PROVE  /\ SyncValue(c) => TypeInv'
           /\ SyncAddon(c) => TypeInv'
           /\ Mirror(c) => TypeInv'
           /\ UpdateStatus(c) => TypeInv'
<1> USE DEF TypeInv
<1>0. TypeOK /\ worker[c].copy.ver \in 1..MaxVer /\ worker[c].copy.ver \in 0..MaxVer
  BY StateTypes, ClaimAssumption
<1>1. ASSUME SyncValue(c) PROVE TypeInv'
  <2>1. /\ worker' \in [Claims -> Worker] /\ queue' \subseteq Claims
        /\ CacheTypeOK' /\ faults' \in 0..MaxFaults
    BY <1>1, RemoteCallTypes DEF SyncValue, WriteFails
  <2>2. remoteValue' \in [Claims -> [Secrets -> [1..MaxVer -> 0..MaxVer]]]
    <3>1. \/ UNCHANGED remoteValue
          \/ remoteValue' = [remoteValue EXCEPT ![c][Key(c)][ValueLabels[worker[c].copy.ver]] =
                                worker[c].copy.ver]
      BY <1>1 DEF SyncValue, WriteFails
    <3>2. Key(c) \in Secrets /\ ValueLabels[worker[c].copy.ver] \in 1..MaxVer
      BY <1>0, StateTypes, EditionAssumption
    <3>3. QED BY <3>1, <3>2, <1>0, ValueWrite DEF TypeOK
  <2>3. UNCHANGED <<claim, secret, template, remoteAddon, served, changes, cleanupFailed>>
    BY <1>1 DEF SyncValue, objects
  <2>4. QED BY <2>1, <2>2, <2>3 DEF TypeOK, RemoteHasSpec
<1>2. ASSUME SyncAddon(c) PROVE TypeInv'
  <2>1. /\ worker' \in [Claims -> Worker] /\ queue' \subseteq Claims
        /\ CacheTypeOK' /\ faults' \in 0..MaxFaults
    BY <1>2, RemoteCallTypes DEF SyncAddon, WriteFails, TypeOK
  <2>2. remoteAddon' \in [Claims -> [Secrets -> RemoteAddon]] /\ RemoteHasSpec'
    <3> DEFINE a == Updated(remoteAddon[c][Key(c)], AddonSpec[worker[c].copy.ver])
    <3>1. UNCHANGED remoteAddon \/ remoteAddon' = [remoteAddon EXCEPT ![c][Key(c)] = a]
      BY <1>2 DEF SyncAddon, WriteFails
    <3>2. Key(c) \in Secrets /\ AddonSpec[worker[c].copy.ver] \in 1..MaxVer
      BY <1>0, StateTypes, EditionAssumption
    <3>3. a \in RemoteAddon /\ a.spec # 0
      BY <3>2, StateTypes, AddonWrites
    <3> HIDE DEF a
    <3>4. CASE UNCHANGED remoteAddon
      BY <3>4 DEF TypeOK, RemoteHasSpec
    <3>5. CASE remoteAddon' = [remoteAddon EXCEPT ![c][Key(c)] = a]
      BY <3>2, <3>3, <3>5, AddonWriteTypes
    <3>6. QED BY <3>1, <3>4, <3>5
  <2>3. UNCHANGED <<claim, secret, template, remoteValue, served, changes, cleanupFailed>>
    BY <1>2 DEF SyncAddon, objects
  <2>4. QED BY <2>1, <2>2, <2>3 DEF TypeOK
<1>3. ASSUME Mirror(c) PROVE TypeInv'
  <2>1. ASSUME NEW st \in Status, determineRequeue(c, syncExternalStatus(c, st))
        PROVE  worker' \in [Claims -> Worker] /\ queue' \subseteq Claims
    <3> DEFINE n == syncExternalStatus(c, st)
    <3>1. n \in Status
      <4>1. AddonSpec[worker[c].copy.ver] \in 1..MaxVer
        BY <1>0, EditionAssumption
      <4>2. {0, AddonSpec[worker[c].copy.ver]} \subseteq 0..MaxVer
        BY <4>1, ClaimAssumption
      <4>3. QED BY <4>2 DEF syncExternalStatus, Status
    <3>2. n.conds \in Conditions
      BY <3>1 DEF Status
    <3>3. "FullyReconciled" \in Reasons /\ "AddonNotReady" \in Reasons
      BY DEF Reasons
    <3>4. determineRequeue(c, n)
      BY <2>1
    <3> HIDE DEF n
    <3>5. With(n, SetReady("FullyReconciled")) \in Status
          /\ With(n, SetProgressing("AddonNotReady")) \in Status
      BY <3>1, <3>2, <3>3, WithTypes, ConditionTypes
    <3>6. QED BY <3>4, <3>5, ReturnTypes DEF determineRequeue
  <2>2. \A r \in {"true", "false"} : [worker[c].copy.status EXCEPT !.ready = r] \in Status
    BY StateTypes DEF Status
  <2>3. worker[c].copy.status \in Status
    BY StateTypes
  <2>4. worker' \in [Claims -> Worker] /\ queue' \subseteq Claims
    BY <1>3, <2>1, <2>2, <2>3 DEF Mirror
  <2>5. faults' \in 0..MaxFaults
    BY <1>3, RemoteCallTypes DEF Mirror, TypeOK
  <2>6. CacheTypeOK'
    BY <1>3, CacheTypes, StateTypes DEF Mirror, TypeOK
  <2>7. UNCHANGED <<objects, remote, changes, cleanupFailed>>
    BY <1>3 DEF Mirror
  <2>8. QED BY <2>4, <2>5, <2>6, <2>7, LocalTypes DEF TypeOK
<1>4. ASSUME UpdateStatus(c) PROVE TypeInv'
  <2> DEFINE o == Stored(claim[c])
  <2>1. worker' \in [Claims -> Worker] /\ queue' \subseteq Claims
    BY <1>4, StateTypes, ReturnTypes DEF UpdateStatus
  <2>2. o \in Claim /\ claim[c] \in Versions(Claim)
    BY StateTypes, VersionsEnds
  <2>3. [o EXCEPT !.status = worker[c].status] \in Claim
    BY <2>2, StateTypes DEF Claim
  <2>4. CanWrite(claim[c]) =>
            Written(claim[c], [o EXCEPT !.status = worker[c].status]) \in Versions(Claim)
    BY <2>2, <2>3, VersionsWritten
  <2>5. claim' \in [Claims -> Versions(Claim)]
    BY <1>4, <2>4 DEF UpdateStatus, TypeOK
  <2>6. UNCHANGED <<secret, template, remote, bounds, cleanupFailed, cacheVars>>
    BY <1>4 DEF UpdateStatus
  <2>7. QED BY <2>1, <2>5, <2>6
            DEF TypeOK, RemoteHasSpec, remote, bounds, cacheVars, CacheTypeOK
<1>5. QED BY <1>1, <1>2, <1>3, <1>4

\* The deletion of a claim.
LEMMA DeletionTypes ==
    ASSUME TypeInv, NEW c \in Claims
    PROVE  /\ Cleanup(c) => TypeInv'
           /\ DeleteBuild(c) => TypeInv'
           /\ DeleteAddon(c) => TypeInv'
           /\ DeleteValue(c) => TypeInv'
           /\ Unfinalize(c) => TypeInv'
<1> USE DEF TypeInv
<1>0. UNCHANGED cacheVars => CacheTypeOK'
  BY CacheTypes, StateTypes DEF TypeOK
<1>1. ASSUME Cleanup(c) PROVE TypeInv'
  <2>1. /\ worker' \in [Claims -> Worker] /\ queue' \subseteq Claims
        /\ cleanupFailed' \subseteq Claims
    BY <1>1, ReturnTypes, ClientTypes DEF Cleanup, TypeOK
  <2>2. QED BY <1>1, <1>0, <2>1, LocalTypes DEF Cleanup, bounds, TypeOK
<1>2. ASSUME DeleteBuild(c) PROVE TypeInv'
  <2>1. /\ worker' \in [Claims -> Worker] /\ queue' \subseteq Claims
        /\ cleanupFailed' \subseteq Claims /\ CacheTypeOK'
    BY <1>2, <1>0, ReturnTypes, ClientTypes DEF DeleteBuild, TypeOK
  <2>2. QED BY <1>2, <2>1, LocalTypes DEF DeleteBuild, bounds, TypeOK
<1>3. ASSUME DeleteAddon(c) PROVE TypeInv'
  <2>1. /\ worker' \in [Claims -> Worker] /\ queue' \subseteq Claims
        /\ cleanupFailed' \subseteq Claims /\ CacheTypeOK' /\ faults' \in 0..MaxFaults
    BY <1>3, <1>0, ReturnTypes, RemoteCallTypes DEF DeleteAddon, DeleteFails, TypeOK
  <2>2. remoteAddon' \in [Claims -> [Secrets -> RemoteAddon]] /\ RemoteHasSpec'
    <3> DEFINE a == Deleted(remoteAddon[c][Key(c)])
    <3>1. UNCHANGED remoteAddon \/ remoteAddon' = [remoteAddon EXCEPT ![c][Key(c)] = a]
      BY <1>3 DEF DeleteAddon, DeleteFails
    <3>2. Key(c) \in Secrets /\ a \in RemoteAddon /\ a.life # "live"
      BY StateTypes, AddonWrites
    <3> HIDE DEF a
    <3>3. CASE UNCHANGED remoteAddon
      BY <3>3 DEF TypeOK, RemoteHasSpec
    <3>4. CASE remoteAddon' = [remoteAddon EXCEPT ![c][Key(c)] = a]
      BY <3>2, <3>4, AddonWriteTypes
    <3>5. QED BY <3>1, <3>3, <3>4
  <2>3. UNCHANGED <<claim, secret, template, remoteValue, served, changes>>
    BY <1>3 DEF DeleteAddon, objects
  <2>4. QED BY <2>1, <2>2, <2>3 DEF TypeOK
<1>4. ASSUME DeleteValue(c) PROVE TypeInv'
  <2>1. /\ worker' \in [Claims -> Worker] /\ queue' \subseteq Claims
        /\ cleanupFailed' \subseteq Claims /\ CacheTypeOK' /\ faults' \in 0..MaxFaults
    BY <1>4, <1>0, ReturnTypes, RemoteCallTypes DEF DeleteValue, DeleteFails, TypeOK
  <2>2. remoteValue' \in [Claims -> [Secrets -> [1..MaxVer -> 0..MaxVer]]]
    <3>1. \/ UNCHANGED remoteValue
          \/ remoteValue' = [remoteValue EXCEPT ![c][Key(c)][ValueLabels[worker[c].copy.ver]] = 0]
      BY <1>4 DEF DeleteValue, DeleteFails
    <3>2. /\ Key(c) \in Secrets /\ ValueLabels[worker[c].copy.ver] \in 1..MaxVer
          /\ 0 \in 0..MaxVer
      <4>1. 0 \in 0..MaxVer
        BY ClaimAssumption
      <4>2. QED BY <4>1, StateTypes, EditionAssumption
    <3>3. QED BY <3>1, <3>2, ValueWrite DEF TypeOK
  <2>3. UNCHANGED <<claim, secret, template, remoteAddon, served, changes>>
    BY <1>4 DEF DeleteValue, objects
  <2>4. QED BY <2>1, <2>2, <2>3 DEF TypeOK, RemoteHasSpec
<1>5. ASSUME Unfinalize(c) PROVE TypeInv'
  <2> DEFINE o == Cached(claim[c])
  <2>1. worker' \in [Claims -> Worker] /\ queue' \subseteq Claims
    BY <1>5, ReturnTypes DEF Unfinalize
  <2>2. o \in Claim /\ claim[c] \in Versions(Claim)
    BY StateTypes, VersionsEnds
  <2>3. [o EXCEPT !.life = "gone", !.fin = FALSE] \in Claim
    BY <2>2 DEF Claim
  <2>4. Current(claim[c]) =>
            Append(claim[c], [o EXCEPT !.life = "gone", !.fin = FALSE]) \in Versions(Claim)
    BY <2>2, <2>3, VersionsAppend
  <2>5. claim' \in [Claims -> Versions(Claim)]
    BY <1>5, <2>4 DEF Unfinalize, TypeOK
  <2>6. UNCHANGED <<secret, template, remote, bounds, cleanupFailed, cacheVars>>
    BY <1>5 DEF Unfinalize
  <2>7. QED BY <2>1, <2>5, <2>6
            DEF TypeOK, RemoteHasSpec, remote, bounds, cacheVars, CacheTypeOK
<1>6. QED BY <1>1, <1>2, <1>3, <1>4, <1>5

\* Evictions, time and restarts.
LEMMA ProcessTypes ==
    ASSUME TypeInv
    PROVE  /\ \A s \in Secrets : Evict(s) => TypeInv'
           /\ TimePasses => TypeInv'
           /\ Restart => TypeInv'
<1> USE DEF TypeInv
<1>1. ASSUME NEW s \in Secrets, Evict(s) PROVE TypeInv'
  <2>1. CacheTypeOK'
    BY <1>1, CacheTypes DEF Evict, TypeOK
  <2>2. QED BY <1>1, <2>1, LocalTypes DEF Evict, Others, bounds, TypeOK
<1>2. ASSUME TimePasses PROVE TypeInv'
  <2>1. CacheTypeOK'
    BY <1>2, CacheTypes DEF TimePasses, Tick, TypeOK
  <2>2. QED BY <1>2, <2>1, LocalTypes DEF TimePasses, Others, bounds, TypeOK
<1>3. ASSUME Restart PROVE TypeInv'
  <2>1. claim' \in [Claims -> Versions(Claim)]
    <3>1. \A c \in Claims : <<Stored(claim[c])>> \in Versions(Claim)
      BY StateTypes, VersionsEnds, VersionsOne
    <3>2. QED BY <1>3, <3>1 DEF Restart
  <2>2. secret' \in [Secrets -> Versions(Secret)]
    <3>1. \A s \in Secrets : secret[s] \in Versions(Secret)
      BY DEF TypeOK
    <3>2. \A s \in Secrets : <<Stored(secret[s])>> \in Versions(Secret)
      BY <3>1, VersionsEnds, VersionsOne
    <3>3. QED BY <1>3, <3>2 DEF Restart
  <2>3. worker' \in [Claims -> Worker] /\ queue' \subseteq Claims
    BY <1>3, NewTypes DEF Restart
  <2>4. CacheTypeOK'
    BY <1>3, CacheAssumption DEF Restart, CacheTypeOK, NoClient, Healthy, FailureCap
  <2>5. faults' \in 0..MaxFaults
    BY <1>3, RemoteCallTypes, ClaimAssumption DEF Restart, RemoteFault, TypeOK
  <2>6. UNCHANGED <<template, remote, changes, cleanupFailed>>
    BY <1>3 DEF Restart
  <2>7. QED BY <2>1, <2>2, <2>3, <2>4, <2>5, <2>6 DEF TypeOK, RemoteHasSpec, remote
<1>4. QED BY <1>1, <1>2, <1>3

LEMMA InitTypes == Init => TypeInv
<1> SUFFICES ASSUME Init PROVE TypeInv
  OBVIOUS
<1>1. claim \in [Claims -> Versions(Claim)]
  <2>1. <<NewClaim("live")>> \in Versions(Claim) /\ <<NewClaim("absent")>> \in Versions(Claim)
    BY NewTypes, VersionsOne
  <2>2. QED BY <2>1 DEF Init
<1>2. secret \in [Secrets -> Versions(Secret)]
  <2>1. [edition |-> 1, kind |-> "valid"] \in Secret
    BY CacheAssumption DEF Secret
  <2>2. <<[edition |-> 1, kind |-> "valid"]>> \in Versions(Secret)
    BY <2>1, VersionsOne
  <2>3. QED BY <2>2 DEF Init
<1>3. CacheTypeOK
  BY CacheAssumption DEF Init, NewCache, CacheTypeOK, NoClient, Healthy, FailureCap
<1>4. worker \in [Claims -> Worker]
  BY NewTypes DEF Init
<1>5. /\ template \in {"ok", "absent", "broken"} /\ queue \subseteq Claims
      /\ remoteAddon \in [Claims -> [Secrets -> RemoteAddon]]
      /\ remoteValue \in [Claims -> [Secrets -> [1..MaxVer -> 0..MaxVer]]]
      /\ changes \in 0..MaxChanges /\ faults \in 0..MaxFaults
      /\ served \in [Claims -> [Secrets -> SUBSET (1..MaxVer)]] /\ cleanupFailed \subseteq Claims
      /\ RemoteHasSpec
  BY ClaimAssumption DEF Init, RemoteAddon, NoRemoteAddon, RemoteHasSpec
<1>6. QED BY <1>1, <1>2, <1>3, <1>4, <1>5 DEF TypeInv, TypeOK

LEMMA NextTypes == TypeInv /\ [Next]_vars => TypeInv'
<1> SUFFICES ASSUME TypeInv, [Next]_vars PROVE TypeInv'
  OBVIOUS
<1>1. ASSUME NEW c \in Claims,
             UserStep(c) \/ DeliverClaim(c) \/ RemoteStep(c) \/ Reconcile(c) \/ WorkerStep(c)
      PROVE  TypeInv'
  <2>1. Key(c) \in Secrets
    BY StateTypes DEF TypeInv
  <2>2. CASE UserStep(c) \/ DeliverClaim(c) \/ RemoteStep(c)
    BY <2>1, <2>2, WorldTypes
  <2>3. CASE Reconcile(c) \/ WorkerStep(c)
    BY <2>3, ConnectTypes, SyncTypes, DeletionTypes DEF WorkerStep
  <2>4. QED BY <1>1, <2>2, <2>3
<1>2. ASSUME NEW s \in Secrets, ChangeSecret(s) PROVE TypeInv'
  BY <1>2, SecretTypes
<1>3. ASSUME NEW s \in Secrets, DeliverSecret(s) PROVE TypeInv'
  BY <1>3, SecretTypes
<1>4. ASSUME ChangeTemplate PROVE TypeInv'
  BY <1>4, SecretTypes
<1>5. CASE UNCHANGED vars
  BY <1>5 DEF vars, objects, remote, bounds, cacheVars, TypeInv, TypeOK, CacheTypeOK, RemoteHasSpec
<1>6. QED BY <1>1, <1>2, <1>3, <1>4, <1>5, ProcessTypes DEF Next

\* Every object version, every local of a reconcile and the cache keep their
\* types, whatever the workers, users and clusters do: in particular no status
\* gets a version or a generation that no spec had, the lag stays within its
\* bound and computeHealthBackoff never gives a negative pause.
THEOREM ClaimTypeCorrect == Spec => []TypeOK
<1>1. TypeInv => TypeOK
  BY DEF TypeInv
<1>2. QED BY InitTypes, NextTypes, <1>1, PTL DEF Spec

-----------------------------------------------------------------------------
(* The remote client of a reconcile. *)

\* The steps in which a reconcile makes remote calls with its client.
Calling == {"value", "addon", "mirror", "deleteAddon", "deleteValue"}

\* A reconcile that begins, or goes on to its end, holds no client to use.
LEMMA NotCalling ==
    /\ Idle.pc \notin Calling
    /\ \A o, st, r : Concluded(o, st, r).pc \notin Calling
    /\ \A o : Started(o).pc \notin Calling
<1>1. Idle.pc = "idle"
  BY DEF Idle
<1>2. \A o, st, r : Concluded(o, st, r).pc = "status"
  BY DEF Concluded, Idle
<1>3. \A o : Started(o).pc \in {"status", "connect"}
  BY <1>2 DEF Started, Idle
<1>4. QED BY <1>1, <1>2, <1>3 DEF Calling

\* How a reconcile begins.
LEMMA ReconcileStarts ==
    ASSUME TypeOK, NEW c \in Claims, Reconcile(c)
    PROVE  LET o == Cached(claim[c])
           IN  \/ /\ worker'[c] = Idle /\ o.life # "live"
                  /\ o.life \in {"absent", "gone"} \/ ~o.fin
               \/ /\ worker'[c] = [Idle EXCEPT !.pc = "cleanup", !.copy = o]
                  /\ o.life = "deleting" /\ o.fin
               \/ /\ worker'[c] = [Idle EXCEPT !.pc = "finalizer", !.copy = o]
                  /\ o.life = "live" /\ ~o.fin
               \/ worker'[c] = Started(o) /\ o.life = "live" /\ o.fin
<1> DEFINE o == Cached(claim[c])
           w == CASE o.life \in {"absent", "gone"} \/ (o.life = "deleting" /\ ~o.fin) -> Idle
                  [] o.life = "deleting" /\ o.fin -> [Idle EXCEPT !.pc = "cleanup", !.copy = o]
                  [] o.life = "live" /\ ~o.fin -> [Idle EXCEPT !.pc = "finalizer", !.copy = o]
                  [] o.life = "live" /\ o.fin -> Started(o)
<1>1. o \in Claim
  BY StateTypes, VersionsEnds
<1>2. o.life \in {"absent", "live", "deleting", "gone"} /\ o.fin \in BOOLEAN
  BY <1>1 DEF Claim
<1>3. worker'[c] = w
  BY DEF Reconcile, TypeOK
<1> HIDE DEF o
<1>4. QED BY <1>2, <1>3 DEF o

\* A step of claim c leaves the reconciles of the others alone.
LEMMA OneWorker ==
    ASSUME TypeOK, NEW c \in Claims, Reconcile(c) \/ WorkerStep(c), NEW d \in Claims, d # c
    PROVE  worker'[d] = worker[d]
<1>1. /\ \A r : Returns(c, r) => worker'[d] = worker[d]
      /\ \A st, r : Conclude(c, st, r) => worker'[d] = worker[d]
      /\ \A s, b, n : Lookup(c, s, b, n) => worker'[d] = worker[d]
      /\ \A n : Built(c, n) => worker'[d] = worker[d]
      /\ \A n : Proceed(c, n) => worker'[d] = worker[d]
      /\ CleanupFails(c) => worker'[d] = worker[d]
  BY DEF TypeOK, Returns, Conclude, Lookup, Built, Proceed, CleanupFails
<1>2. \A class : handleRemoteSyncError(c, class) => worker'[d] = worker[d]
  BY <1>1 DEF handleRemoteSyncError
<1>3. CASE Reconcile(c) \/ EnsureFinalizer(c)
  BY <1>1, <1>3 DEF Reconcile, EnsureFinalizer, TypeOK
<1>4. CASE Connect(c) \/ BuildClient(c) \/ Cleanup(c) \/ DeleteBuild(c)
  BY <1>1, <1>4 DEF Connect, BuildClient, Cleanup, DeleteBuild
<1>5. CASE SyncValue(c) \/ SyncAddon(c)
  BY <1>1, <1>2, <1>5 DEF SyncValue, SyncAddon, WriteFails
<1>6. CASE Mirror(c) \/ UpdateStatus(c) \/ Unfinalize(c)
  BY <1>1, <1>6 DEF Mirror, determineRequeue, UpdateStatus, Unfinalize
<1>7. CASE DeleteAddon(c) \/ DeleteValue(c)
  BY <1>1, <1>7 DEF DeleteAddon, DeleteValue, DeleteFails
<1>8. QED BY <1>3, <1>4, <1>5, <1>6, <1>7 DEF WorkerStep

\* Users, informers, the remote cluster, evictions and time leave all
\* reconciles alone; a restart ends them.
LEMMA WorldWorker ==
    ASSUME [Next]_vars, NEW d \in Claims, ~\E c \in Claims : Reconcile(c) \/ WorkerStep(c)
    PROVE  worker'[d] = worker[d] \/ worker'[d] = Idle
<1>1. ASSUME NEW c \in Claims, UserStep(c) \/ DeliverClaim(c) \/ RemoteStep(c)
      PROVE  UNCHANGED worker
  BY <1>1 DEF UserStep, CreateClaim, EditClaim, PauseClaim, DeleteClaim, Put, Change, DeliverClaim,
              RemoteStep, RemoteReport, RemoteObserve, RemoteUnready, RemoteGone, RemoteElse
<1>2. ASSUME NEW s \in Secrets, ChangeSecret(s) \/ DeliverSecret(s) \/ Evict(s)
      PROVE  UNCHANGED worker
  BY <1>2 DEF ChangeSecret, Change, DeliverSecret, Evict
<1>3. ChangeTemplate \/ TimePasses \/ UNCHANGED vars => UNCHANGED worker
  BY DEF ChangeTemplate, Change, TimePasses, vars
<1>4. Restart => worker'[d] = Idle
  BY DEF Restart
<1>5. QED BY <1>1, <1>2, <1>3, <1>4 DEF Next

\* The client that a step of c has for the remote calls after it.
LEMMA ClientStep ==
    ASSUME TypeOK, ClientMatches, NEW c \in Claims, Reconcile(c) \/ WorkerStep(c)
    PROVE  worker'[c].pc \in Calling => worker'[c].client = worker'[c].secret.edition
<1> DEFINE Good == worker'[c].pc \in Calling => worker'[c].client = worker'[c].secret.edition
<1>1. /\ \A r : Returns(c, r) => Good
      /\ \A st, r : Conclude(c, st, r) => Good
      /\ CleanupFails(c) => Good
  BY NotCalling DEF TypeOK, Returns, Conclude, CleanupFails, Idle, Calling
<1>2. ASSUME NEW s, NEW b \in {"build", "deleteBuild"}, NEW n, Lookup(c, s, b, n)
      PROVE  Good
  <2>1. worker[c] \in Worker /\ c \in DOMAIN worker
    BY StateTypes DEF TypeOK
  <2>2. worker'[c] = [worker[c] EXCEPT !.secret = s,
            !.client = IF Hit(Key(c), s.edition) THEN s.edition ELSE NoClient,
            !.pc = IF Hit(Key(c), s.edition) THEN n ELSE b]
    BY <1>2, <2>1 DEF Lookup
  <2>3. /\ worker'[c].secret = s
        /\ worker'[c].client = IF Hit(Key(c), s.edition) THEN s.edition ELSE NoClient
        /\ worker'[c].pc = IF Hit(Key(c), s.edition) THEN n ELSE b
    BY <2>1, <2>2 DEF Worker
  <2>4. QED BY <2>3 DEF Calling
<1>3. ASSUME NEW n, Built(c, n) PROVE Good
  <2>1. worker[c] \in Worker /\ c \in DOMAIN worker
    BY StateTypes DEF TypeOK
  <2>2. worker'[c] = [worker[c] EXCEPT !.pc = n,
                         !.client = ClientAfterBuild(Key(c), worker[c].secret.edition)]
    BY <1>3, <2>1 DEF Built
  <2>3. worker'[c].client = worker[c].secret.edition /\ worker'[c].secret = worker[c].secret
    BY <2>1, <2>2 DEF Worker, ClientAfterBuild
  <2>4. QED BY <2>3
<1>4. ASSUME NEW n, Proceed(c, n), worker[c].pc \in Calling PROVE Good
  <2>1. worker[c] \in Worker /\ c \in DOMAIN worker
    BY StateTypes DEF TypeOK
  <2>2. worker'[c] = [worker[c] EXCEPT !.pc = n]
    BY <1>4, <2>1 DEF Proceed
  <2>3. worker'[c].client = worker[c].client /\ worker'[c].secret = worker[c].secret
    BY <2>1, <2>2 DEF Worker
  <2>4. QED BY <1>4, <2>3 DEF ClientMatches, Calling
<1>5. \A class : handleRemoteSyncError(c, class) => Good
  BY <1>1 DEF handleRemoteSyncError
<1> SUFFICES Good
  OBVIOUS
<1> HIDE DEF Good
<1>6. CASE Reconcile(c)
  BY <1>6, ReconcileStarts, NotCalling DEF Idle, Calling, Good
<1>7. CASE EnsureFinalizer(c)
  <2>1. worker' = [worker EXCEPT ![c] = Started(worker[c].copy)] => Good
    BY NotCalling DEF Good, TypeOK
  <2>2. QED BY <1>1, <1>7, <2>1 DEF EnsureFinalizer
<1>8. CASE Connect(c) \/ BuildClient(c) \/ Cleanup(c) \/ DeleteBuild(c)
  BY <1>1, <1>2, <1>3, <1>8 DEF Connect, BuildClient, Cleanup, DeleteBuild
<1>9. CASE SyncValue(c) \/ SyncAddon(c)
  BY <1>4, <1>5, <1>9 DEF SyncValue, SyncAddon, WriteFails, Calling
<1>10. CASE Mirror(c) \/ UpdateStatus(c) \/ Unfinalize(c)
  BY <1>1, <1>10 DEF Mirror, determineRequeue, UpdateStatus, Unfinalize
<1>11. CASE DeleteAddon(c) \/ DeleteValue(c)
  BY <1>1, <1>4, <1>11 DEF DeleteAddon, DeleteValue, DeleteFails, Calling
<1>12. QED BY <1>6, <1>7, <1>8, <1>9, <1>10, <1>11 DEF WorkerStep, Good

\* However many workers build, store and evict clients of one Secret at a time,
\* every remote call is made with a client of the very edition of the Secret
\* that its reconcile read.
THEOREM ClaimClientMatches == Spec => []ClientMatches
<1>1. Init => ClientMatches
  BY NotCalling DEF Init, ClientMatches, Calling
<1>2. TypeOK /\ ClientMatches /\ [Next]_vars => ClientMatches'
  <2> SUFFICES ASSUME TypeOK, ClientMatches, [Next]_vars, NEW d \in Claims,
                      worker'[d].pc \in Calling
               PROVE  worker'[d].client = worker'[d].secret.edition
    BY DEF ClientMatches, Calling
  <2>1. CASE \E c \in Claims : Reconcile(c) \/ WorkerStep(c)
    BY <2>1, OneWorker, ClientStep DEF ClientMatches, Calling
  <2>2. CASE ~\E c \in Claims : Reconcile(c) \/ WorkerStep(c)
    BY <2>2, WorldWorker, NotCalling DEF ClientMatches, Calling
  <2>3. QED BY <2>1, <2>2
<1>3. QED BY <1>1, <1>2, ClaimTypeCorrect, PTL DEF Spec

-----------------------------------------------------------------------------
(* The shared backoff. *)

\* What a step does to the health of a cluster.
HealthStep(s) ==
    \/ health'[s] = health[s]
    \/ health'[s] = Healthy
    \/ health[s].pause > 0 /\ health'[s] = [health[s] EXCEPT !.pause = @ - 1]
    \/ LET n == IF health[s].failures < FailureCap THEN health[s].failures + 1 ELSE FailureCap
       IN  health'[s] = [failures |-> n, pause |-> computeHealthBackoff(n)]

LEMMA HealthSteps ==
    ASSUME TypeOK, [Next]_vars, NEW s \in Secrets
    PROVE  HealthStep(s)
<1>0. health = [t \in Secrets |-> health[t]]
  BY DEF TypeOK, CacheTypeOK
<1>1. /\ \A t : RecordFailure(t) => HealthStep(s)
      /\ \A t : RecordSuccess(t) => HealthStep(s)
      /\ \A t, e : StoreClient(t, e) => HealthStep(s)
      /\ \A t : EvictIdle(t) => HealthStep(s)
      /\ UNCHANGED cacheVars => HealthStep(s)
      /\ Tick => HealthStep(s)
      /\ Restart => HealthStep(s)
  BY <1>0 DEF HealthStep, RecordFailure, RecordSuccess, StoreClient, EvictIdle, cacheVars, Tick,
              Restart
<1> HIDE DEF HealthStep
<1>2. ASSUME NEW c \in Claims, Reconcile(c) \/ WorkerStep(c) PROVE HealthStep(s)
  <2>1. \A class : handleRemoteSyncError(c, class) => HealthStep(s)
    BY <1>1 DEF handleRemoteSyncError
  <2>2. \A n : Proceed(c, n) => HealthStep(s)
    BY <1>1 DEF Proceed
  <2>3. \A n : Built(c, n) => HealthStep(s)
    BY <1>1 DEF Built
  <2>4. QED BY <1>1, <1>2, <2>1, <2>2, <2>3
         DEF WorkerStep, Reconcile, EnsureFinalizer, Connect, BuildClient, SyncValue, SyncAddon,
             WriteFails, Mirror, UpdateStatus, Cleanup, DeleteBuild, DeleteAddon, DeleteValue,
             DeleteFails, Unfinalize
<1>3. ASSUME NEW c \in Claims, UserStep(c) \/ DeliverClaim(c) \/ RemoteStep(c)
      PROVE  UNCHANGED cacheVars
  BY <1>3 DEF UserStep, CreateClaim, EditClaim, PauseClaim, DeleteClaim, Put, Change, DeliverClaim,
              RemoteStep, RemoteReport, RemoteObserve, RemoteUnready, RemoteGone, RemoteElse
<1>4. ASSUME NEW t \in Secrets, ChangeSecret(t) \/ DeliverSecret(t)
      PROVE  UNCHANGED cacheVars
  BY <1>4 DEF ChangeSecret, Change, DeliverSecret
<1>5. ChangeTemplate \/ UNCHANGED vars => UNCHANGED cacheVars
  BY DEF ChangeTemplate, Change, vars
<1>6. QED BY <1>1, <1>2, <1>3, <1>4, <1>5 DEF Next, Evict, TimePasses

\* The pause after the n-th failure in a row is the initial one doubled n - 1
\* times or the maximum, although the shift wraps around; nothing else makes a
\* pause longer, and only a success, time or a restart make it shorter.
THEOREM ClaimBackoffCurve == Spec => BackoffCurve
<1> DEFINE Curve ==
        \A s \in Secrets :
            LET n == health'[s].failures
                d == HealthBackoffInitial * 2^(n - 1)
            IN  /\ n > health[s].failures =>
                       health'[s].pause = IF d < HealthBackoffMax THEN d ELSE HealthBackoffMax
                /\ n = health[s].failures /\ n > 0 /\ n < FailureCap =>
                       health'[s].pause \in {health[s].pause, health[s].pause - 1}
<1>1. TypeOK /\ [Next]_vars => Curve
  <2> SUFFICES ASSUME TypeOK, [Next]_vars, NEW s \in Secrets
               PROVE  LET n == health'[s].failures
                          d == HealthBackoffInitial * 2^(n - 1)
                      IN  /\ n > health[s].failures =>
                                 health'[s].pause = IF d < HealthBackoffMax THEN d
                                                    ELSE HealthBackoffMax
                          /\ n = health[s].failures /\ n > 0 /\ n < FailureCap =>
                                 health'[s].pause \in {health[s].pause, health[s].pause - 1}
    OBVIOUS
  <2>1. HealthStep(s)
    BY HealthSteps
  <2>2. /\ health[s] \in [failures : 0..FailureCap, pause : 0..HealthBackoffMax]
        /\ FailureCap \in Nat /\ FailureCap >= 1
    BY CacheAssumption DEF TypeOK, CacheTypeOK, FailureCap
  <2>3. CASE health'[s] = health[s]
    BY <2>2, <2>3
  <2>4. CASE health'[s] = Healthy
    <3>1. health'[s].failures = 0 /\ health[s].failures \in Nat
      BY <2>2, <2>4 DEF Healthy
    <3>2. ~(health'[s].failures > health[s].failures) /\ ~(health'[s].failures > 0)
      BY <3>1
    <3>3. QED BY <3>2, Zenon
  <2>5. CASE health'[s] = [health[s] EXCEPT !.pause = @ - 1]
    BY <2>2, <2>5
  <2>6. CASE LET n == IF health[s].failures < FailureCap THEN health[s].failures + 1
                      ELSE FailureCap
             IN  health'[s] = [failures |-> n, pause |-> computeHealthBackoff(n)]
    <3> DEFINE n == IF health[s].failures < FailureCap THEN health[s].failures + 1 ELSE FailureCap
    <3>1. n \in 1..FailureCap /\ (n = health[s].failures => n = FailureCap)
      BY <2>2
    <3>2. health'[s].failures = n /\ health'[s].pause = computeHealthBackoff(n)
      BY <2>6
    <3> HIDE DEF n
    <3>3. QED BY <3>1, <3>2, BackoffValue
  <2>7. QED BY <2>1, <2>3, <2>4, <2>5, <2>6 DEF HealthStep
<1>2. TypeOK /\ [Next]_vars => [Curve]_vars
  BY <1>1
<1>3. QED BY <1>2, ClaimTypeCorrect, PTL DEF Spec, BackoffCurve

=============================================================================
