---------------------------- MODULE WatchLeases -----------------------------
(***************************************************************************)
(* What the dynamic-watch code promises, without mutexes, loops and        *)
(* counters: Addons take and give back leases on kinds, and a kind is      *)
(* registered exactly while somebody needs it.                             *)
(***************************************************************************)
CONSTANTS Addons, GVKs, Bootstrap

VARIABLES
    held,        \* held[a] : the kinds Addon a has a lease on
    registered   \* the kinds with an entry in the watch manager

vars == <<held, registered>>

Init ==
    /\ held = [a \in Addons |-> {}]
    /\ registered = Bootstrap

\* A lease is taken on a kind the Addon does not hold yet; the kind is
\* registered from then on.
Acquire(a, g) ==
    /\ g \notin held[a]
    /\ held' = [held EXCEPT ![a] = held[a] \union {g}]
    /\ registered' = registered \union {g}

\* A lease is given back; the kind stays registered while it is a bootstrap
\* kind or another Addon still has a lease on it.
Release(a, g) ==
    /\ g \in held[a]
    /\ held' = [held EXCEPT ![a] = held[a] \ {g}]
    /\ registered' =
          IF g \in Bootstrap \/ \E b \in Addons \ {a} : g \in held[b]
          THEN registered
          ELSE registered \ {g}

Next == \E a \in Addons, g \in GVKs : Acquire(a, g) \/ Release(a, g)

Spec == Init /\ [][Next]_vars

=============================================================================
