--------------------------- MODULE OutboxLifecycle ---------------------------
(***************************************************************************)
(* What the outbox promises its producers and receivers, without leases,   *)
(* clocks, batches or letters: a stored message is with at most one worker *)
(* at a time, only that worker delivers and settles it, it is Done only    *)
(* once delivered, given up only at the last attempt, and revived only     *)
(* from there.                                                             *)
(***************************************************************************)
EXTENDS Naturals

CONSTANTS Messages, Workers, Nobody, MaxAttempts

VARIABLES
    phase,      \* Absent, Open, Done or Dead
    holder,     \* the worker a message is with
    tries,      \* attempts that counted
    delivered

vars == <<phase, holder, tries, delivered>>

TypeOK ==
    /\ phase \in [Messages -> {"Absent", "Open", "Done", "Dead"}]
    /\ holder \in [Messages -> Workers \cup {Nobody}]
    /\ tries \in [Messages -> Nat]
    /\ delivered \subseteq Messages

Init ==
    /\ phase = [m \in Messages |-> "Absent"]
    /\ holder = [m \in Messages |-> Nobody]
    /\ tries = [m \in Messages |-> 0]
    /\ delivered = {}

Submit(m) ==
    /\ phase[m] = "Absent"
    /\ phase' = [phase EXCEPT ![m] = "Open"]
    /\ UNCHANGED <<holder, tries, delivered>>

\* A worker takes any messages that are open and with nobody.
Claim(w) ==
    /\ \E S \in SUBSET {m \in Messages : phase[m] = "Open" /\ holder[m] = Nobody} :
          holder' = [m \in Messages |-> IF m \in S THEN w ELSE holder[m]]
    /\ UNCHANGED <<phase, tries, delivered>>

\* A message reaches its receiver, from the worker that has it.
Deliver(m) ==
    /\ holder[m] # Nobody
    /\ delivered' = delivered \cup {m}
    /\ UNCHANGED <<phase, holder, tries>>

\* The worker settles the message: with p and t, its new phase and tries.
Settle(m, p, t) ==
    /\ holder[m] # Nobody
    /\ phase[m] = "Open"
    /\ phase' = [phase EXCEPT ![m] = p]
    /\ tries' = [tries EXCEPT ![m] = t]
    /\ holder' = [holder EXCEPT ![m] = Nobody]
    /\ UNCHANGED delivered

Complete(m) == m \in delivered /\ Settle(m, "Done", tries[m])
Retry(m) == tries[m] + 1 < MaxAttempts /\ Settle(m, "Open", tries[m] + 1)
GiveUp(m) == tries[m] + 1 = MaxAttempts /\ Settle(m, "Dead", tries[m] + 1)

\* A worker loses everything it has; one message may still be on the wire.
Abandon(w) ==
    /\ holder' = [m \in Messages |-> IF holder[m] = w THEN Nobody ELSE holder[m]]
    /\ \E m \in Messages :
          delivered' \in {delivered} \cup
              (IF holder[m] = w THEN {delivered \cup {m}} ELSE {})
    /\ UNCHANGED <<phase, tries>>

Revive(m) ==
    /\ phase[m] = "Dead"
    /\ phase' = [phase EXCEPT ![m] = "Open"]
    /\ tries' = [tries EXCEPT ![m] = 0]
    /\ UNCHANGED <<holder, delivered>>

Next ==
    \/ \E m \in Messages : \/ Submit(m)
                           \/ Deliver(m)
                           \/ Complete(m)
                           \/ Retry(m)
                           \/ GiveUp(m)
                           \/ Revive(m)
    \/ \E w \in Workers : Claim(w) \/ Abandon(w)

Spec == Init /\ [][Next]_vars

=============================================================================
