--------------------------- MODULE MCRequestChain ---------------------------
(* Instances of RequestChain.                                              *)
EXTENDS RequestChain

CONSTANT Unkeyed

TheKey == "k"
SomeKeys == {TheKey}

\* All requests repeat one but those of Unkeyed.
KeyOf == [r \in Requests |-> IF r \in Unkeyed THEN None ELSE TheKey]
============================================================================
