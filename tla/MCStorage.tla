----------------------------- MODULE MCStorage -----------------------------
(***************************************************************************)
(* Two clients over either datastore: two writers, or a writer, a          *)
(* migrator or an explicit transaction beside one another role.            *)
(***************************************************************************)
EXTENDS Storage

CONSTANTS c1, c2, m1, m2, m3

Both(r, s) == [c \in Clients |-> IF c = c1 THEN r ELSE s]

TheCasts ==
    {Both("writer", r) : r \in {"writer", "reader", "grapher", "indexer", "migrator", "tx"}}
    \cup {Both("migrator", "tx"), Both("migrator", "reader")}

TheScripts == <<m1, m2, m3>>
TheTables == {[i \in Ids |-> None], [i \in Ids |-> Row(1, i % 2)]}

\* Record ids compare with the cursor as ids, or, being of another type, are
\* greater than any string.
ById == {pair \in Ids \X Ids : pair[1] < pair[2]}
ByType == Ids \X Ids
EitherOrder == {ById, ByType}
OnlyByType == {ByType}

\* Somebody reads while nobody writes.
ReaderAlone == {[c \in Clients |-> "reader"]}

TheStarts == {<<i, i>> : i \in Ids}

One(v) == [value |-> v]
Object(of) == [key |-> "object", of |-> of]
Test(op, x) == [key |-> "val", tests |-> << <<op, x>> >>]
Group(key, of) == [key |-> key, of |-> of]
Either == Group("$or", <<Object(<<Test("$eq", One(0))>>),
                         Object(<<[key |-> "val", tests |-> << <<"$gt", One(1)>>, <<"$ne", One(0)>> >>]>>)>>)

\* The sixth is not clear; the last two cannot be built.
TheFilters ==
    {Object(<<>>),
     Object(<<Test("=", One(1))>>),
     Object(<<Group("$not", <<Object(<<Test("$gte", One(1)), Test("$lt", One(2))>>)>>)>>),
     Object(<<Either>>),
     Object(<<Test("$nin", [values |-> {0, 1}])>>),
     Object(<<Group("$or", <<Object(<<>>), Object(<<Test("=", One(1))>>)>>)>>),
     Object(<<[key |-> "val", tests |-> <<>>], Test("=", One(1))>>),
     Object(<<Test("$like", One(1))>>)}

\* The nodes of the filters, which are nested three deep.
Within(nodes) == nodes \cup UNION {Range(n.of) : n \in {m \in nodes : m.key # "val"}}
TheNodes == Within(Within(Within(TheFilters)))

Nesting[n \in TheNodes] ==
    IF n.key = "val" THEN 0
    ELSE 1 + Max({0} \cup {Nesting[m] : m \in Range(n.of)})
TheDepth == [n \in TheNodes |-> Nesting[n]]
=============================================================================
