--------------------------- MODULE StorageFilter ---------------------------
(***************************************************************************)
(* What a Repository filter selects: the WHERE clause that mapper.rs       *)
(* builds for SurrealDB, and the comparison of the in-memory backend.  A   *)
(* filter is a tree, as the JSON value it is:                              *)
(*   [key |-> "object", of |-> its entries, in their order],               *)
(*   [key |-> "$and" or "$or", of |-> objects],                            *)
(*   [key |-> "$not", of |-> one object],                                  *)
(*   [key |-> "val", tests |-> sequence of <<operator, operand>>], the     *)
(*    tests of a field; a bare value is the test "=" of it.                *)
(* Records have one field, val, which holds a scalar: $contains, the names *)
(* of fields and values that are not objects or arrays where they should   *)
(* be are left out.                                                        *)
(***************************************************************************)
EXTENDS Naturals, Sequences

CONSTANTS
    Values,     \* of a record's one field, ordered as numbers
    Nodes,      \* filters, and the nodes they consist of
    Depth       \* of a node, as a JSON value is finite

\* A scalar or an array.
Operands == [value : Values] \cup [values : SUBSET Values]

\* Values bound to parameters, in the order of their numbers.
Params == Seq(Operands)

ASSUME NodesAssumption ==
    /\ Values \subseteq Nat
    /\ Depth \in [Nodes -> Nat]
    /\ \A n \in Nodes :
          \/ n \in [key : {"val"}, tests : Seq(STRING \X Operands)]
          \/ /\ n \in [key : {"object", "$and", "$or", "$not"}, of : Seq(Nodes)]
             /\ n.key = "$not" => Len(n.of) = 1
             /\ \A k \in DOMAIN n.of : /\ Depth[n.of[k]] < Depth[n]
                                       /\ n.key = "object" <=> n.of[k].key # "object"

\* The filter that selects everything.
NoFilter == [key |-> "object", of |-> <<>>]

Operators == {"=", "$eq", "$ne", "$gt", "$gte", "$lt", "$lte", "$in", "$nin"}

\* How a comparison comes out: the operators of the clause and of the filter.
Compares(op, value, operand) ==
    CASE op \in {"=", "$eq"} -> operand = [value |-> value]
      [] op = "$ne" -> operand # [value |-> value]
      [] op = "$gt" -> value > operand.value
      [] op = "$gte" -> value >= operand.value
      [] op = "$lt" -> value < operand.value
      [] op = "$lte" -> value <= operand.value
      [] op = "$in" -> value \in operand.values
      [] op = "$nin" -> value \notin operand.values
      [] OTHER -> FALSE

-----------------------------------------------------------------------------
(* Building the clause.  A clause is kept as what it says of a value under  *)
(* a binding of its parameters: "yes", "no", "none" for an empty one,       *)
(* "blank" for that of a field without tests.  It is built when start has   *)
(* been bound before it; params is what has been bound after it.            *)

Asked == [value : Values, start : Params, bound : Params]

Verdict(holds) == IF holds THEN "yes" ELSE "no"

\* Slip: every field starts with the first number.
NumberAfresh(start, i) == i

\* next_param: one counter for the whole filter.
Number(start, i) == Len(start) + i

\* An unknown operator is an error, and so is $in without an array.
Supported(op, operand) ==
    op \in Operators /\ (op \in {"$in", "$nin"} => operand \in [values : SUBSET Values])

\* build_field_clause: all the tests of a field.
FieldClause(tests, asked) ==
    LET param(i) == Number(asked.start, i)
        holds(i) == /\ param(i) \in DOMAIN asked.bound
                    /\ Compares(tests[i][1], asked.value, asked.bound[param(i)])
    IN  [ok |-> \A i \in DOMAIN tests : Supported(tests[i][1], tests[i][2]),
         says |-> IF tests = <<>> THEN "blank" ELSE Verdict(\A i \in DOMAIN tests : holds(i)),
         params |-> asked.start \o [i \in DOMAIN tests |-> tests[i][2]]]

\* The clauses of the first k members, one after the other.
Clauses(members, clause, asked) ==
    LET sofar[k \in 0..Len(members)] ==
            IF k = 0 THEN [ok |-> TRUE, parts |-> <<>>, params |-> asked.start]
            ELSE LET c == clause[members[k]][[asked EXCEPT !.start = sofar[k - 1].params]]
                 IN  [ok |-> sofar[k - 1].ok /\ c.ok,
                      parts |-> Append(sofar[k - 1].parts, c.says),
                      params |-> c.params]
    IN  sofar

\* They are joined by AND or OR, or put behind NOT, without the empty ones.  A
\* blank one alone is an empty clause; beside another it leaves an AND without
\* an operand, which the database refuses.
Joined(key, clauses) ==
    LET parts == clauses.parts
        said == {k \in DOMAIN parts : parts[k] # "none"}
        blank == {k \in said : parts[k] = "blank"}
    IN  [ok |-> clauses.ok /\ \A k \in blank : said = {k},
         says |-> IF said = blank THEN "none"
                  ELSE Verdict(CASE key = "$or" -> \E k \in said : parts[k] = "yes"
                                 [] key = "$not" -> \A k \in said : parts[k] = "no"
                                 [] OTHER -> \A k \in said : parts[k] = "yes"),
         params |-> clauses.params]

\* build_filter_recursive.
Clause[n \in Nodes] ==
    [asked \in Asked |->
        IF n.key = "val" THEN FieldClause(n.tests, asked)
        ELSE Joined(n.key, Clauses(n.of, Clause, asked)[Len(n.of)])]

\* Before the first parameter.
Asks(v, bound) == [value |-> v, start |-> <<>>, bound |-> bound]

\* build_filter_clause: whether SurrealRepository::select takes the filter,
Buildable(f) == \A v \in Values : Clause[f][Asks(v, <<>>)].ok

\* and what it selects, with its own parameters bound; an empty clause is no
\* condition.
BuiltSelects(f, row) ==
    LET built == Clause[f][Asks(row.val, <<>>)]
    IN  Clause[f][Asks(row.val, built.params)].says # "no"

-----------------------------------------------------------------------------
(* The in-memory backend compares every entry's value with a field of the   *)
(* entry's name: operators and groups are values like any others.           *)

Plain(f) ==
    \A k \in DOMAIN f.of : /\ f.of[k].key = "val"
                           /\ Len(f.of[k].tests) = 1 /\ f.of[k].tests[1][1] = "="

PlainSelects(f, row) ==
    Plain(f) /\ \A k \in DOMAIN f.of : f.of[k].tests[1][2] = [value |-> row.val]

-----------------------------------------------------------------------------
(* What a filter means, by the usual reading of its operators.              *)

Means[n \in Nodes] ==
    [v \in Values |->
        CASE n.key = "val" -> \A i \in DOMAIN n.tests : Compares(n.tests[i][1], v, n.tests[i][2])
          [] n.key = "$or" -> \E k \in DOMAIN n.of : Means[n.of[k]][v]
          [] n.key = "$not" -> \A k \in DOMAIN n.of : ~Means[n.of[k]][v]
          [] OTHER -> \A k \in DOMAIN n.of : Means[n.of[k]][v]]

Meaning(f, row) == Means[f][row.val]

\* Nothing in it is empty.
Solid[n \in Nodes] ==
    IF n.key = "val" THEN n.tests # <<>>
    ELSE n.of # <<>> /\ \A k \in DOMAIN n.of : Solid[n.of[k]]

\* Nothing empty is negated or an alternative: where it is, it is dropped, and
\* an empty $or selects everything.
Clear[n \in Nodes] ==
    \/ n.key = "val"
    \/ n.key \in {"$or", "$not"} /\ Solid[n]
    \/ n.key \in {"object", "$and"} /\ \A k \in DOMAIN n.of : Clear[n.of[k]]
=============================================================================
