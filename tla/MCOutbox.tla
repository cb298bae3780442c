------------------------------ MODULE MCOutbox ------------------------------
(***************************************************************************)
(* Instances of Outbox for TLC: the dispatch keys of the messages, and the *)
(* symmetry of the worker ids.                                             *)
(***************************************************************************)
EXTENDS Outbox, TLC

\* All messages are enqueued under one dispatch key.
OneKey == [m \in Messages |-> "k"]

\* No message carries a dispatch key.
NoKeys == [m \in Messages |-> NoKey]

WorkerSymmetry == Permutations(Workers)
MessageWorkerSymmetry == Permutations(Workers) \cup Permutations(Messages)

=============================================================================
