----------------------------- MODULE BudgetGuard -----------------------------
(***************************************************************************)
(* SimpleBudgetGuard of sb-tx: how many sends of a tenant are in flight,   *)
(* and how many were made in the current window.  The guard is one mutex,  *)
(* so each of its calls is one step.                                       *)
(*                                                                         *)
(* Time is relative, as in Outbox: windowAge is the time since the window  *)
(* began, up to the length of a window.                                    *)
(***************************************************************************)
EXTENDS Naturals

CONSTANTS
    MaxInflight,   \* max_inflight, or NoLimit
    WindowLimit,   \* max_dispatch_per_window, or NoLimit
    Window,        \* window_seconds, of which the code takes at least one
    NoLimit

ASSUME BudgetAssumption ==
    /\ {MaxInflight, WindowLimit} \subseteq Nat \cup {NoLimit}
    /\ Window \in Nat \ {0}
    /\ NoLimit \notin Nat

VARIABLES
    inflight,
    windowCount,
    windowAge

budget == <<inflight, windowCount, windowAge>>

BudgetTypeOK ==
    /\ inflight \in Nat
    /\ windowCount \in Nat
    /\ windowAge \in 0..Window

\* window_start_ms is 0, long ago.
BudgetInit ==
    /\ inflight = 0
    /\ windowCount = 0
    /\ windowAge = Window

Full == MaxInflight # NoLimit /\ inflight >= MaxInflight

\* The window's dispatches are used up, after the reset a window that is over
\* gets at the next attempt.
Spent == WindowLimit # NoLimit
         /\ (IF windowAge = Window THEN 0 ELSE windowCount) >= WindowLimit

\* on_dispatch_attempt that lets the message through.
Attempt ==
    /\ ~Full
    /\ ~Spent
    /\ inflight' = inflight + 1
    /\ IF WindowLimit = NoLimit
       THEN UNCHANGED <<windowCount, windowAge>>
       ELSE IF windowAge = Window
            THEN windowCount' = 1 /\ windowAge' = 0
            ELSE windowCount' = windowCount + 1 /\ UNCHANGED windowAge

\* on_dispatch_attempt that returns budget_exhausted: the window is only looked
\* at, and begun anew where it is over, by a call the first test lets through.
Refuse ==
    /\ Full \/ Spent
    /\ IF ~Full /\ windowAge = Window
       THEN windowCount' = 0 /\ windowAge' = 0
       ELSE UNCHANGED <<windowCount, windowAge>>
    /\ UNCHANGED inflight

\* Slip: a dispatch that failed keeps its place.
ResultKept == UNCHANGED budget

\* on_dispatch_result, the same for a success and a failure.
Result ==
    /\ inflight' = IF inflight > 0 THEN inflight - 1 ELSE 0
    /\ UNCHANGED <<windowCount, windowAge>>

WindowPasses ==
    /\ windowAge' = IF windowAge < Window THEN windowAge + 1 ELSE windowAge
    /\ UNCHANGED <<inflight, windowCount>>

=============================================================================
