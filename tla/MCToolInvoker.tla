--------------------------- MODULE MCToolInvoker ---------------------------
(* Instances of ToolInvoker.                                               *)
EXTENDS ToolInvoker, TLC

CONSTANT Unkeyed

TheKey == "k"
SomeKeys == {TheKey}

\* All calls repeat one request but those of Unkeyed.
KeyOf == [c \in Calls |-> IF c \in Unkeyed THEN None ELSE TheKey]

RepeatSymmetry == Permutations(Calls \ Unkeyed)
============================================================================
