--------------------------- MODULE MCOutboxSurreal ---------------------------
(***************************************************************************)
(* An instance of OutboxSurreal for TLC.                                   *)
(***************************************************************************)
EXTENDS OutboxSurreal, TLC

CONSTANT Loose    \* messages enqueued without a dispatch key

SomeKeys == [m \in Messages |-> IF m \in Loose THEN NoKey ELSE "k"]

KeyedSymmetry == Permutations(Workers) \cup Permutations(Messages \ Loose)

=============================================================================
