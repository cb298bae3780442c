---------------------------- MODULE MCConfigLoad ----------------------------
(* Instances of ConfigLoad.  Paths are sequences of segments; a field of   *)
(* the schema lies within another one, and both have defaults.             *)
EXTENDS ConfigLoad, SequencesExt

A == <<"a">>
AX == <<"a", "x">>
AXY == <<"a", "x", "y">>
AXZ == <<"a", "x", "z">>
AW == <<"a", "w">>
AWQ == <<"a", "w", "q">>
B == <<"b">>

ThePaths == {A, AX, AXY, AXZ, AW, AWQ, B}
TheWithin == {pair \in ThePaths \X ThePaths : IsPrefix(pair[2], pair[1])}
TheNamespaces == {A}
TheFields == {AX, AXY, AXZ, AWQ}
TheDefaults == [p \in {AX, AXY} |-> 0]

Leaf(p, v) == [q \in {p} |-> v]

\* An object and the scalar in its place, a scalar namespace, a field whose
\* parent the schema lacks, and a foreign namespace.
TheContents == {Leaf(AXZ, 1), Leaf(AX, 1), Leaf(A, 1), Leaf(AWQ, 1), Leaf(B, 1)}

\* A value for the field that has another field below it.
NestedContents == {Leaf(AX, 1)}

\* Of two variables one may lie within the other.
TheEnvironments == {Empty, Leaf(AXY, 2), [p \in {AX, AXZ} |-> 2]}

TheCommandLines == {<<>>, <<<<AX, 3>>>>, <<<<AX, 3>>, <<AXZ, 3>>>>}
============================================================================
