------------------------------ MODULE QuerySpec ------------------------------
(***************************************************************************)
(* Filter specs over the cache: build_expression of workflows/             *)
(* query_spec.py and the filters of WorkflowQuery.  The expressions are    *)
(* evaluated by pyarrow in three-valued logic; a query keeps the rows for  *)
(* which its expression is true.                                           *)
(*                                                                         *)
(* Values are numbers; operators on text test text the way `eq' tests a    *)
(* number and are left out, as are relative dates.  A spec is a record     *)
(* with one of the keys all, any and not, or a condition.                  *)
(***************************************************************************)
EXTENDS Integers, Sequences, FiniteSets, SequencesExt

CONSTANT MaxDepth   \* bound: how deep the groups and negations of a spec nest

Null == -1000   \* no value of a column
Tri(b) == IF b THEN "true" ELSE "false"

\* and_kleene, invert and or_kleene of pyarrow.
And(a, b) ==
  IF "false" \in {a, b} THEN "false"
  ELSE IF "unknown" \in {a, b} THEN "unknown"
  ELSE "true"
Not(a) == CASE a = "true" -> "false" [] a = "false" -> "true" [] OTHER -> a
Or(a, b) == Not(And(Not(a), Not(b)))

Compare(op, v, args) ==
  CASE op = "eq" -> v = args[1]
    [] op = "ne" -> v # args[1]
    [] op = "gt" -> v > args[1]
    [] op = "ge" -> v >= args[1]
    [] op = "lt" -> v < args[1]
    [] op = "le" -> v <= args[1]
    [] op = "between" -> args[1] <= v /\ v <= args[2]
    [] op = "in" -> v \in ToSet(args)
    [] op = "is_null" -> v = Null
    [] op = "is_not_null" -> v # Null

\* Mutant: every condition is false for a null.
OpsTwoValued(op, v, args) == Tri(Compare(op, v, args) /\ (v # Null \/ op = "is_null"))

\* _OPS: comparisons are unknown for a null; isin and is_valid never are.
_OPS(op, v, args) ==
  IF v = Null /\ op \notin {"in", "is_null", "is_not_null"} THEN "unknown"
  ELSE Tri(Compare(op, v, args))

\* Mutant: each condition of a group replaces the ones before it.
CombineLast(truths, op) == Last(truths)

\* A group has at least one condition.
_combine(truths, op) ==
  FoldLeft(LAMBDA a, b : IF op = "and" THEN And(a, b) ELSE Or(a, b),
           Head(truths), Tail(truths))

Ops == {"eq", "ne", "gt", "ge", "lt", "le", "between", "in", "is_null", "is_not_null"}
\* Two columns of any meaning, and those the specs of JobSpecs test.
Columns == {"a", "b", "event", "job_status", "job_conclusion"}
Conditions == [column: Columns, op: Ops, args: Seq(Int)]
Groups(S) == Seq(S) \ {<<>>}

\* The specs of some conditions that nest at most n deep.
SpecsOver(Conds, n) ==
  LET Nested[d \in 0..MaxDepth] ==
        IF d = 0 THEN Conds
        ELSE LET Inner == Nested[d - 1] IN
             [all: Groups(Inner)] \cup [any: Groups(Inner)] \cup [not: Inner] \cup Inner
  IN Nested[n]

\* The value of the expression a spec is compiled to, for a row.
build_expression(spec, row) ==
  LET Truth[n \in 0..MaxDepth] ==
        [s \in SpecsOver(Conditions, n) |->
           CASE "all" \in DOMAIN s -> _combine([k \in DOMAIN s.all |-> Truth[n - 1][s.all[k]]], "and")
             [] "any" \in DOMAIN s -> _combine([k \in DOMAIN s.any |-> Truth[n - 1][s.any[k]]], "or")
             [] "not" \in DOMAIN s -> Not(Truth[n - 1][s["not"]])
             [] OTHER -> _OPS(s.op, row[s.column], s.args)]
  IN Truth[MaxDepth][spec]

Keeps(spec, row) == build_expression(spec, row) = "true"

\* What a spec says, read in two-valued logic.
Holds(spec, row) ==
  LET Says[n \in 0..MaxDepth] ==
        [s \in SpecsOver(Conditions, n) |->
           CASE "all" \in DOMAIN s -> \A k \in DOMAIN s.all : Says[n - 1][s.all[k]]
             [] "any" \in DOMAIN s -> \E k \in DOMAIN s.any : Says[n - 1][s.any[k]]
             [] "not" \in DOMAIN s -> ~Says[n - 1][s["not"]]
             [] OTHER -> Compare(s.op, row[s.column], s.args)]
  IN Says[MaxDepth][spec]

\* The rows a row with nulls may stand for.
Completions(row, Values) ==
  {r \in [DOMAIN row -> Values] : \A c \in DOMAIN row : row[c] # Null => r[c] = row[c]}
=============================================================================
