------------------------------ MODULE MCRollout ------------------------------
(***************************************************************************)
(* Instances of Rollout: Addon "b" depends on "a"; each has a selector of  *)
(* its own in its spec, and its phase may add a shared one.                *)
(***************************************************************************)
EXTENDS Rollout

BOnA == [x \in Addons |-> IF x = "b" THEN Addons \ {"b"} ELSE {}]

TrueFalse == [p \in {"^T"} |-> {"True"}]

Crit(source, path, operator, value) ==
    [source |-> source, path |-> path, operator |-> operator, value |-> value]

IsReady == Crit("addon", "ready", "Equal", JsonString("True"))

\* Every operator, met sooner or later or never; expected values of wrong types;
\* paths that are not there at first.
OtherCriteria ==
    {Crit("addon", "ready", "NotEqual", JsonString("False")),
     Crit("addon", "ready", "In", JsonList({JsonString("True"), JsonString("Unknown")})),
     Crit("addon", "ready", "NotIn", JsonList({JsonString("False")})),
     Crit("addon", "ready", "In", JsonString("True")),
     Crit("addon", "ready", "Matches", JsonString("^T")),
     Crit("addon", "ready", "Matches", JsonString("(")),
     Crit("addon", "deployed", "Exists", Missing),
     Crit("addon", "deployed", "NotExists", Missing),
     Crit("addon", "generation", "Equal", NumericString("1.0", 1)),
     Crit("addon", "generation", "GreaterThan", JsonNumber(0)),
     Crit("addon", "generation", "GreaterOrEqual", NumericString("1", 1)),
     Crit("addon", "generation", "LessThan", JsonNumber(1)),
     Crit("addon", "generation", "LessOrEqual", Missing)}

Scenario(criterion, kinds, n) == [criterion |-> criterion, kinds |-> kinds, changes |-> n]

\* The Addons come up with every criterion; their order, the values and the
\* other resource change with one.
SomeScenarios ==
    {Scenario(c, {}, 0) : c \in OtherCriteria}
    \union {Scenario(Crit("external", "phase", "Equal", JsonString("Ready")), {"external"}, 2),
            Scenario(IsReady, {"create"}, 2)}
    \union {Scenario(IsReady, {kind}, 1) : kind \in {"selectors", "value", "relabel", "remove"}}

Own(x)    == {<<"addon", x>>}
Shared    == {<<"addon", "shared">>}
Sel(l, p) == [labels |-> l, priority |-> p]

\* The phase's selector comes after those of the spec and is merged first.
SpecSel  == [x \in Addons |-> <<Sel(Own(x), 20)>>]
PhaseSel == [x \in Addons |-> IF x = "b" THEN <<Sel(Shared, 10)>> ELSE <<>>]

\* Maps and scalars at the same keys.
MapP(n)  == MapOf([l \in {"p"} |-> ScalarOf(n)])
MapPQ(n) == MapOf([l \in {"p", "q"} |-> ScalarOf(n)])
Content(x, y) == [k \in {"x", "y"} |-> IF k = "x" THEN x ELSE y]

SomeContents == {Content(MapP(3), MapPQ(3)), Content(ScalarOf(4), MapP(4))}

\* Also one that is no match for its second addon label, and one that is, for
\* all its other label.
SomeLabels   == {Own("b"), Shared, Own("b") \union {<<"env", "e">>}, Own("b") \union {<<"team", "t">>}}

Two == [v \in {1, 2} |-> IF v = 1 THEN [labels |-> Own("b"), content |-> Content(MapP(1), MapP(1))]
                         ELSE [labels |-> Shared, content |-> Content(MapPQ(2), ScalarOf(2))]]

=============================================================================
