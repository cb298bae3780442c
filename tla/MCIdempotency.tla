---------------------------- MODULE MCIdempotency ----------------------------
(***************************************************************************)
(* An instance of Idempotency for TLC.                                     *)
(***************************************************************************)
EXTENDS Idempotency, TLC

CONSTANT Other     \* the client whose request differs

\* One client reuses the key for another request.
OneDiffers == [c \in Clients |-> IF c = Other THEN "h2" ELSE "h1"]

=============================================================================
