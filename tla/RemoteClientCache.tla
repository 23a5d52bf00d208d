-------------------------- MODULE RemoteClientCache --------------------------
(***************************************************************************)
(* The cache of clients for remote clusters, one per credential Secret,    *)
(* and the failure backoff ("health") of each cluster, which all claims    *)
(* with the same Secret share.  Every operator here is one critical        *)
(* section of Cache.mu.  Time is counted in units of the initial backoff;  *)
(* health[s].pause is what openUntil is ahead of now.                      *)
(***************************************************************************)
EXTENDS Integers

CONSTANTS
    Secrets,
    MaxEdition,            \* bound: editions (resourceVersions) of a Secret
    HealthBackoffInitial,
    HealthBackoffMax,
    ShiftLimit,            \* the largest shift that computeHealthBackoff makes
    Width                  \* bits of a Duration

\* What the shifts reach overflows into the sign at most, as 15s << 30 in
\* nanoseconds does in 64 bits, and one shift more would exceed the maximum.
ASSUME CacheAssumption ==
    /\ MaxEdition \in Nat \ {0} /\ ShiftLimit \in Nat /\ Width \in Nat \ {0}
    /\ HealthBackoffInitial \in Nat \ {0} /\ HealthBackoffMax \in Nat
    /\ HealthBackoffInitial <= HealthBackoffMax
    /\ HealthBackoffMax < 2^(Width - 1)
    /\ \A k \in 0..ShiftLimit : HealthBackoffInitial * 2^k \in 1..(2 * 2^(Width - 1) - 1)
    /\ HealthBackoffMax <= HealthBackoffInitial * 2^(ShiftLimit + 1)

VARIABLES
    clients,  \* for each Secret, the edition its cached client was built from
    health    \* for each Secret, consecutive failures and what is left of the pause

cacheVars == <<clients, health>>

NoClient == 0
Healthy  == [failures |-> 0, pause |-> 0]

\* More failures than this all give the longest backoff.
FailureCap == ShiftLimit + 2

CacheTypeOK ==
    /\ clients \in [Secrets -> 0..MaxEdition]
    /\ health \in [Secrets -> [failures : 0..FailureCap, pause : 0..HealthBackoffMax]]

NewCache ==
    /\ clients = [s \in Secrets |-> NoClient]
    /\ health = [s \in Secrets |-> Healthy]

\* GetOrCreate, first look: is there a client of just this edition?
Hit(s, edition) == clients[s] = edition

MutClientAfterBuild(s, edition) == IF clients[s] = NoClient THEN edition ELSE clients[s]

\* GetOrCreate, after building outside of the lock: the client of another
\* worker if it is of the same edition, else the new one, which replaces what
\* is there, be it newer or older.
ClientAfterBuild(s, edition) == IF clients[s] = edition THEN clients[s] ELSE edition

StoreClient(s, edition) ==
    /\ clients' = [clients EXCEPT ![s] = ClientAfterBuild(s, edition)]
    /\ UNCHANGED health

\* evictIdle: unused for maxIdleDuration.  A worker that has the client keeps it.
EvictIdle(s) ==
    /\ clients[s] # NoClient
    /\ clients' = [clients EXCEPT ![s] = NoClient]
    /\ UNCHANGED health

\* A signed integer of Width bits.
Wrapped(n) == LET half == 2^(Width - 1) IN ((n + half) % (2 * half)) - half

MutHealthBackoff(failures) ==
    IF failures - 1 > ShiftLimit THEN HealthBackoffMax
    ELSE LET d == Wrapped(HealthBackoffInitial * 2^(failures - 1))
         IN  IF d > HealthBackoffMax THEN HealthBackoffMax ELSE d

computeHealthBackoff(failures) ==
    IF failures < 1 THEN HealthBackoffInitial
    ELSE IF failures - 1 > ShiftLimit THEN HealthBackoffMax
    ELSE LET d == Wrapped(HealthBackoffInitial * 2^(failures - 1))
         IN  IF d <= 0 \/ d > HealthBackoffMax THEN HealthBackoffMax ELSE d

CheckHealth(s) == health[s].pause <= 0

RecordFailure(s) ==
    LET n == IF health[s].failures < FailureCap THEN health[s].failures + 1 ELSE FailureCap
    IN  /\ health' = [health EXCEPT ![s] = [failures |-> n, pause |-> computeHealthBackoff(n)]]
        /\ UNCHANGED clients

RecordSuccess(s) ==
    /\ health' = [health EXCEPT ![s] = Healthy]
    /\ UNCHANGED clients

\* Time passes, for all clusters alike.
Tick ==
    /\ \E s \in Secrets : health[s].pause > 0
    /\ health' = [s \in Secrets |->
                     IF health[s].pause > 0 THEN [health[s] EXCEPT !.pause = @ - 1] ELSE health[s]]
    /\ UNCHANGED clients

=============================================================================
