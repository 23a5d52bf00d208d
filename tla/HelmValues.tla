------------------------------ MODULE HelmValues ------------------------------
(***************************************************************************)
(* How the values aggregator makes Helm values of AddonValues: selectors   *)
(* in the order of their priority, the AddonValues of each by name, all    *)
(* merged deeply.  A map is a function from keys to nodes, a node is a     *)
(* scalar (or a list, which is replaced like one) or a map.  The merge is  *)
(* unrolled to two levels, the depth of the contents that are modelled.    *)
(***************************************************************************)
EXTENDS Integers, Sequences, FiniteSets, SequencesExt

CONSTANT AddonKeys   \* label keys with the prefix addons.in-cloud.io/

EmptyMap   == [k \in {} |-> 0]
ScalarOf(n) == [map |-> FALSE, val |-> n, sub |-> EmptyMap]
MapOf(f)   == [map |-> TRUE, val |-> 0, sub |-> f]

\* A merge of maps that have no maps below them: the overlay wins.
Overlaid(base, overlay) ==
    [k \in DOMAIN base \union DOMAIN overlay |->
        IF k \in DOMAIN overlay THEN overlay[k] ELSE base[k]]

MutDeepMerge(base, overlay) == Overlaid(base, overlay)

DeepMerge(base, overlay) ==
    [k \in DOMAIN base \union DOMAIN overlay |->
        IF k \notin DOMAIN overlay THEN base[k]
        ELSE LET o == overlay[k]
             IN  IF o.map /\ k \in DOMAIN base
                 THEN LET b == base[k]
                      IN  IF b.map THEN MapOf(Overlaid(b.sub, o.sub)) ELSE o
                 ELSE o]

\* Labels are sets of pairs of key and value.
FilterAddonLabels(labels) == {l \in labels : l[1] \in AddonKeys}

MutExactMatch(selector, resource) == FilterAddonLabels(selector) \subseteq resource

ExactMatchAddonLabels(selector, resource) ==
    FilterAddonLabels(selector) = FilterAddonLabels(resource)

\* A finite set in the order before, a set of pairs: the i-th element is the one
\* with i - 1 before it.
Arranged(S, before) ==
    [i \in 1..Cardinality(S) |->
        CHOOSE x \in S : Cardinality({y \in S : <<y, x>> \in before}) = i - 1]

\* The selectors i and j with i before j: by priority, lowest first, else as they
\* are listed (the sort is stable).
PriorityOrder(selectors) ==
    {p \in (DOMAIN selectors) \X (DOMAIN selectors) :
        LET i == selectors[p[1]].priority
            j == selectors[p[2]].priority
        IN  i < j \/ (i = j /\ p[1] < p[2])}

MutSorted(selectors) == selectors

SortedByPriority(selectors) ==
    LET order == Arranged(DOMAIN selectors, PriorityOrder(selectors))
    IN  [i \in DOMAIN selectors |-> selectors[order[i]]]

\* The values of a function on numbers, in the order of its arguments.
InOrder(f) ==
    LET order == Arranged(DOMAIN f, {p \in (DOMAIN f) \X (DOMAIN f) : p[1] < p[2]})
    IN  [i \in 1..Cardinality(DOMAIN f) |-> f[order[i]]]

\* The contents of the AddonValues in store that a selector matches, by name;
\* names are numbers.
Matching(selector, store) ==
    InOrder([v \in {w \in DOMAIN store : ExactMatchAddonLabels(selector.labels, store[w].labels)}
                |-> store[v].content])

\* The loops over AddonValues and over selectors: each one is merged over the
\* result so far.
MergeAll(maps) ==
    LET merged[i \in 0..Len(maps)] ==
            IF i = 0 THEN EmptyMap ELSE DeepMerge(merged[i - 1], maps[i])
    IN  merged[Len(maps)]

aggregateForSelector(selector, store) == MergeAll(Matching(selector, store))

AggregateValues(selectors, store) ==
    LET sorted == SortedByPriority(selectors)
    IN  MergeAll([i \in DOMAIN sorted |-> aggregateForSelector(sorted[i], store)])

-----------------------------------------------------------------------------
(* What the values should be, leaf by leaf and without sorting or merging.  *)

\* Contents have two levels at most and no maps without entries.
IsContent(m) ==
    \A k \in DOMAIN m : m[k].map =>
        DOMAIN m[k].sub # {} /\ \A l \in DOMAIN m[k].sub : ~m[k].sub[l].map

IsStore(store) ==
    /\ IsFiniteSet(DOMAIN store) /\ DOMAIN store \subseteq Nat
    /\ \A v \in DOMAIN store : IsContent(store[v].content)

IsSelectors(selectors) ==
    /\ selectors \in Seq(Range(selectors))
    /\ \A i \in DOMAIN selectors : selectors[i].priority \in Int

Leaves(m) ==
    UNION {IF m[k].map THEN {[path |-> <<k, l>>, val |-> m[k].sub[l].val] : l \in DOMAIN m[k].sub}
           ELSE {[path |-> <<k>>, val |-> m[k].val]} : k \in DOMAIN m}

\* A later leaf takes the place of one at the same path, above it or below it.
Displaces(later, leaf) == IsPrefix(later.path, leaf.path) \/ IsPrefix(leaf.path, later.path)

\* Of the AddonValues of one selector, the last name wins.
SelectorLeaves(selector, store) ==
    LET Of(v) == IF \A l \in selector.labels \union store[v].labels :
                       l[1] \in AddonKeys => l \in selector.labels \cap store[v].labels
                 THEN Leaves(store[v].content) ELSE {}
    IN  UNION {{leaf \in Of(v) :
                   \A w \in DOMAIN store : w > v =>
                       \A later \in Of(w) : ~Displaces(later, leaf)} : v \in DOMAIN store}

\* Of the selectors, the highest priority wins, and the last one of the list
\* among equals.
ExpectedLeaves(selectors, store) ==
    LET Of(i) == SelectorLeaves(selectors[i], store)
        Over(j, i) == \/ selectors[j].priority > selectors[i].priority
                      \/ selectors[j].priority = selectors[i].priority /\ j > i
    IN  UNION {{leaf \in Of(i) :
                   \A j \in DOMAIN selectors : Over(j, i) =>
                       \A later \in Of(j) : ~Displaces(later, leaf)} : i \in DOMAIN selectors}

=============================================================================
