----------------------------- MODULE Conditions -----------------------------
(***************************************************************************)
(* Conditions of a decision point (execution/decision_processor.go).       *)
(* A value is a text, the sequence of its characters, that may also be a   *)
(* number (num): the decimal digits are the characters 0 to 9.             *)
(***************************************************************************)
EXTENDS Integers, Sequences, FiniteSetsExt, SequencesExt

Nil == [num |-> FALSE, text |-> <<-1>>]      \* printed as <nil>
Number(v) == FoldLeft(LAMBDA n, d : 10 * n + d, 0, v.text)

Aliases ==
    [eq |-> {"eq", "equal", "==", "equals"},
     neq |-> {"neq", "not_equal", "!="},
     gt |-> {"gt", "greater_than", ">", "greaterthan"},
     lt |-> {"lt", "less_than", "<", "lessthan"},
     gte |-> {"gte", "greater_than_or_equal", ">=", "greaterthanorequal"},
     lte |-> {"lte", "less_than_or_equal", "<=", "lessthanorequal"},
     in |-> {"in"}, nin |-> {"nin"}, contains |-> {"contains"}]

\* normalizeOperator: an unknown operator stays as it is.
NormalizeOperator(op) ==
    IF \E c \in DOMAIN Aliases : op \in Aliases[c]
    THEN CHOOSE c \in DOMAIN Aliases : op \in Aliases[c]
    ELSE op

SubString(part, whole) ==
    \E i \in 1 .. Len(whole) + 1 : \E j \in 0 .. Len(whole) : SubSeq(whole, i, j) = part

Bool(b) == IF b THEN "true" ELSE "false"

\* compareValues: equality and containment of the printed values, order of numbers only;
\* every other operator is an error, in and nin included.
CompareValues(lhs, operator, rhs) ==
    LET op == NormalizeOperator(operator)
        numeric == lhs.num /\ rhs.num
    IN  CASE op = "eq" -> Bool(lhs.text = rhs.text)
          [] op = "neq" -> Bool(lhs.text # rhs.text)
          [] op = "gt" /\ numeric -> Bool(Number(lhs) > Number(rhs))
          [] op = "lt" /\ numeric -> Bool(Number(lhs) < Number(rhs))
          [] op = "gte" /\ numeric -> Bool(Number(lhs) >= Number(rhs))
          [] op = "lte" /\ numeric -> Bool(Number(lhs) <= Number(rhs))
          [] op = "contains" -> Bool(SubString(rhs.text, lhs.text))
          [] OTHER -> "error"

\* evaluateCondition: the left side from the values generated so far when a path is given,
\* else from the answer of the model; nil when it is missing.
EvaluateCondition(c, data, generated) ==
    LET from == IF c.path THEN generated ELSE data
        lhs == IF c.field \in DOMAIN from THEN from[c.field] ELSE Nil
    IN  CompareValues(lhs, c.op, c.value)

\* evaluateBranch, once the model has answered: the conditions in order, up to the first
\* that fails or is false; a branch without conditions never matches.
EvaluateBranch(conditions, data, generated) ==
    LET holds(i) == EvaluateCondition(conditions[i], data, generated)
        failing == {i \in DOMAIN conditions : holds(i) # "true"}
    IN  IF conditions = <<>> THEN "false"
        ELSE IF failing = {} THEN "true" ELSE holds(Min(failing))
=============================================================================
