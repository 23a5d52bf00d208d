--------------------------- MODULE ObjectVersions ---------------------------
(***************************************************************************)
(* An object of the API server as the controllers see it.  It is the       *)
(* sequence of its versions that the informer cache has not left behind:   *)
(* the first one is what a cached Get returns, the last one is what the    *)
(* API server stores.  A write appends a version, the informer delivers by *)
(* dropping the first.                                                     *)
(***************************************************************************)
EXTENDS Naturals, Sequences

CONSTANT MaxLag  \* bound: versions the cache may be behind

ASSUME LagAssumption == MaxLag \in Nat \ {0}

Stored(versions) == versions[Len(versions)]
Cached(versions) == Head(versions)

\* The cached copy has the resourceVersion of the stored object.
Current(versions) == Len(versions) = 1

\* The bound MaxLag holds a write back until the informer has caught up.
CanWrite(versions) == Len(versions) <= MaxLag

\* A write that changes nothing makes no new version.
Written(versions, o) ==
    IF o = Stored(versions) THEN versions ELSE Append(versions, o)

Versions(S) == {h \in Seq(S) : Len(h) \in 1..(MaxLag + 1)}

=============================================================================
