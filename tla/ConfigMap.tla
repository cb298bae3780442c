----------------------------- MODULE ConfigMap -----------------------------
(***************************************************************************)
(* The maps of sb-config and what its loader does with them.  A map is a   *)
(* JSON object, seen as the function from the paths of its leaves to their *)
(* values: no leaf lies within another one, and no object is empty.  Pure  *)
(* definitions over an abstract tree of paths.                             *)
(***************************************************************************)
EXTENDS Naturals, FiniteSets

CONSTANTS
    Paths,          \* the dotted paths
    Within,         \* pairs <<p, q>>: p is q or lies within it
    Values,
    Namespaces,     \* registered namespaces, paths of one segment
    Fields,         \* their registered fields, full paths
    Defaults,       \* the fields that have a default, and its value
    None

ASSUME PathsAssumption ==
    /\ Within \subseteq Paths \X Paths
    /\ \A p \in Paths : <<p, p>> \in Within
    /\ \A p, q, r \in Paths : <<p, q>> \in Within /\ <<q, r>> \in Within => <<p, r>> \in Within
    /\ \A p, q \in Paths : <<p, q>> \in Within /\ <<q, p>> \in Within => p = q

Related(p, q) == <<p, q>> \in Within \/ <<q, p>> \in Within

\* Dotted paths form a tree: what lies above one path is a chain.
ASSUME TreeAssumption ==
    \A p, q, r \in Paths : <<p, q>> \in Within /\ <<p, r>> \in Within => Related(q, r)

ASSUME SchemaAssumption ==
    /\ Namespaces \subseteq Paths
    /\ Fields \subseteq Paths
    /\ DOMAIN Defaults \subseteq Fields
    /\ Defaults \in [DOMAIN Defaults -> Values]

Empty == [p \in {} |-> None]

IsMap(m) ==
    /\ DOMAIN m \subseteq Paths
    /\ m \in [DOMAIN m -> Values]
    /\ \A p, q \in DOMAIN m : Related(p, q) => p = q

\* Slip: the base wins.
MergeUnder(base, overlay) ==
    LET kept == {p \in DOMAIN overlay : \A q \in DOMAIN base : ~ Related(p, q)}
    IN  [p \in kept \cup DOMAIN base |-> IF p \in DOMAIN base THEN base[p] ELSE overlay[p]]

\* merge_maps: objects are merged, everything else is replaced.
Merge(base, overlay) ==
    LET kept == {p \in DOMAIN base : \A q \in DOMAIN overlay : ~ Related(p, q)}
    IN  [p \in kept \cup DOMAIN overlay |->
            IF p \in DOMAIN overlay THEN overlay[p] ELSE base[p]]

\* merge_value and insert_segments: a scalar on the way becomes an object.
Insert(m, p, v) == Merge(m, [q \in {p} |-> v])

\* path_exists
PathExists(m, p) == \E q \in DOMAIN m : <<q, p>> \in Within

\* get_raw: the value at a path, as the leaves within it.
At(m, p) == [q \in {q \in DOMAIN m : <<q, p>> \in Within} |-> m[q]]

\* collect_keys: the paths of all objects and leaves.
Keys(m) == {p \in Paths : PathExists(m, p)}

\* enforce_schema: every key is a registered field or namespace.
Registered(m) == Keys(m) \subseteq Fields \cup Namespaces

\* apply_defaults for one field.
WithDefault(m, f) == IF PathExists(m, f) THEN m ELSE Insert(m, f, Defaults[f])

\* compute_changed_keys: leaves that differ, all of them when there was no map.
ChangedKeys(old, new) ==
    {p \in DOMAIN old \cup DOMAIN new :
        ~ (p \in DOMAIN old /\ p \in DOMAIN new /\ old[p] = new[p])}
============================================================================
