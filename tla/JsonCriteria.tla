---------------------------- MODULE JsonCriteria ----------------------------
(***************************************************************************)
(* Criteria on JSON objects: the operators of pkg/criteria, and the way    *)
(* the dependency checker applies one criterion to an object.  An object   *)
(* is a function from the JSONPaths that select something in it to the     *)
(* first value selected.  Of a value only its type, its identity and the   *)
(* number it denotes matter.                                               *)
(***************************************************************************)
EXTENDS Integers

CONSTANTS
    Regex,       \* Regex[p]: the strings that pattern p matches
    BadPatterns  \* patterns that do not compile

NotNumeric == -1

\* A string may denote a number too (strconv.ParseFloat).
JsonString(s)          == [t |-> "string", id |-> s, num |-> NotNumeric, items |-> {}]
NumericString(s, n)    == [t |-> "string", id |-> s, num |-> n, items |-> {}]
JsonNumber(n)          == [t |-> "number", id |-> "", num |-> n, items |-> {}]
JsonBool(b)            == [t |-> "bool", id |-> b, num |-> NotNumeric, items |-> {}]
JsonNull               == [t |-> "null", id |-> "", num |-> NotNumeric, items |-> {}]
JsonList(items)        == [t |-> "list", id |-> "", num |-> NotNumeric, items |-> items]

\* criterion.value is left out.
Missing == [t |-> "missing", id |-> "", num |-> NotNumeric, items |-> {}]

Outcome(holds) == IF holds THEN "true" ELSE "false"

\* The negating operators return the negated result along with the error, which
\* every caller tests first.
Negated(outcome) ==
    CASE outcome = "true" -> "false" [] outcome = "false" -> "true" [] OTHER -> "error"

\* toFloat64 fails.
IsNumeric(v) == v.num # NotNumeric

\* Equal as Go values, or equal as numbers.
deepEqual(a, b) == a = b \/ (IsNumeric(a) /\ IsNumeric(b) /\ a.num = b.num)

EvalEqual(actual, expected) ==
    IF expected = Missing THEN Outcome(actual = JsonNull) ELSE Outcome(deepEqual(actual, expected))

\* JSON null is read as the empty list.
EvalIn(actual, expected) ==
    CASE expected.t \in {"missing", "null"} -> "false"
      [] expected.t = "list" -> Outcome(\E item \in expected.items : deepEqual(actual, item))
      [] OTHER -> "error"

\* The four orders: an actual value that is no number does not match, an
\* expected value that is none is an error.
EvalNumeric(actual, expected, holds) ==
    CASE ~IsNumeric(actual) -> "false"
      [] IsNumeric(actual) /\ ~IsNumeric(expected) -> "error"
      [] OTHER -> Outcome(holds)

EvalMatches(actual, expected) ==
    CASE actual.t # "string" -> "false"
      [] actual.t = "string" /\ expected.id \in BadPatterns -> "error"
      [] OTHER -> Outcome(actual.id \in Regex[expected.id])

\* The values that the constructors above can make.
IsJson(v) ==
    /\ v.num \in Nat \union {NotNumeric}
    /\ v.t # "list" => v.items = {}
    /\ v.t = "null" => v = JsonNull
    /\ v.t = "missing" => v = Missing

Operators == {"Equal", "NotEqual", "In", "NotIn", "GreaterThan", "GreaterOrEqual",
              "LessThan", "LessOrEqual", "Exists", "NotExists", "Matches"}

\* What the schema lets through as a criterion.
WellFormed(c) ==
    /\ c.operator \in Operators /\ IsJson(c.value)
    /\ \A i \in c.value.items : IsJson(i) /\ i.t # "missing"

\* compareValues of the dependency checker, for a value that was found.
compareValues(actual, operator, expected) ==
    CASE operator = "Equal"     -> EvalEqual(actual, expected)
      [] operator = "NotEqual"  -> Negated(EvalEqual(actual, expected))
      [] operator = "Exists"    -> Outcome(actual # JsonNull)
      [] operator = "NotExists" -> Outcome(actual = JsonNull)
      [] operator = "In"        -> EvalIn(actual, expected)
      [] operator = "NotIn"     -> Negated(EvalIn(actual, expected))
      [] operator = "GreaterThan"    -> EvalNumeric(actual, expected, actual.num > expected.num)
      [] operator = "GreaterOrEqual" -> EvalNumeric(actual, expected, actual.num >= expected.num)
      [] operator = "LessThan"       -> EvalNumeric(actual, expected, actual.num < expected.num)
      [] operator = "LessOrEqual"    -> EvalNumeric(actual, expected, actual.num <= expected.num)
      [] operator = "Matches"   -> EvalMatches(actual, expected)
      [] OTHER -> "error"

\* evaluateCriterion of the dependency checker: a path that selects nothing is
\* not satisfied, whatever the operator.
evaluateCriterion(object, c) ==
    IF c.path \notin DOMAIN object THEN "false"
    ELSE compareValues(object[c.path], c.operator, c.value)

-----------------------------------------------------------------------------
(* What a criterion means, by docs/reference/criteria-operators.md. *)

\* The values of a JSON value, seen as text and as number.
Same(a, b) == a = b \/ {a.num} \cap {b.num} \cap Nat # {}

\* A value that is left out stands for null, and null for an empty list.
Given(value) == IF value.t = "missing" THEN JsonNull ELSE value

\* A value that is found is in the relation that the operator names; comparisons
\* are between numbers only, and a path exists whatever is found there.
Related(v, operator, value) ==
    CASE operator = "Equal"     -> Same(v, Given(value))
      [] operator = "NotEqual"  -> ~Same(v, Given(value))
      [] operator = "In"        -> \E i \in value.items : Same(v, i)
      [] operator = "NotIn"     -> /\ Given(value).t \in {"list", "null"}
                                   /\ \A i \in value.items : ~Same(v, i)
      [] operator = "Exists"    -> TRUE
      [] operator = "NotExists" -> FALSE
      [] operator = "Matches"   -> /\ v.t = "string" /\ value.id \notin BadPatterns
                                   /\ v.id \in Regex[value.id]
      [] OTHER -> /\ v.num \in Nat /\ value.num \in Nat
                  /\ operator = "GreaterThan"    => v.num > value.num
                  /\ operator = "GreaterOrEqual" => ~(v.num < value.num)
                  /\ operator = "LessThan"       => v.num < value.num
                  /\ operator = "LessOrEqual"    => ~(v.num > value.num)

\* The operators that a path which is not there satisfies.
Negating == {"NotEqual", "NotIn", "NotExists"}

\* The criterion is fulfilled, as documented.
Fulfilled(object, c) ==
    IF c.path \in DOMAIN object THEN Related(object[c.path], c.operator, c.value)
    ELSE c.operator \in Negating

\* Where the documentation and evaluateCriterion contradict each other: on a path
\* that is not there, and on whether a null exists.
Contested(object, c) ==
    IF c.path \in DOMAIN object
    THEN object[c.path].t = "null" /\ c.operator \in {"Exists", "NotExists"}
    ELSE c.operator \in Negating

=============================================================================
