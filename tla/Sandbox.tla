------------------------------ MODULE Sandbox ------------------------------
(***************************************************************************)
(* The sandbox of sb-sandbox: Sandbox::execute, cut where it awaits        *)
(* another component (revocation watcher, profile builder and guard,       *)
(* budget meter, evidence sink, executor).  An execution belongs to a      *)
(* call, which runs its operations one at a time under one grant; grants   *)
(* and consents may end between any two steps.                             *)
(*                                                                         *)
(* Which capability covers an operation, and what it reads or writes, is   *)
(* data: Clear and Run may go either way.  This module has no Next of its  *)
(* own, see ToolInvoker.                                                   *)
(***************************************************************************)
EXTENDS Naturals, FiniteSets

CONSTANTS
    Calls,
    N,              \* operations of a call
    NeedsConsent,   \* operations whose capability requires consent
    MaxLosses,      \* bound: grants and consents that end
    None

Ops == 1..N

ASSUME SandboxAssumption ==
    /\ IsFiniteSet(Calls)
    /\ N \in Nat \ {0}
    /\ NeedsConsent \subseteq Ops
    /\ MaxLosses \in Nat

VARIABLES
    at,          \* where the execution of each call is
    op,          \* the operation it executes
    outcome,     \* what the executor, or an early return, made of it
    reserved,    \* operations whose budget is reserved and not settled
    began,       \* operations with Begin evidence
    ended,       \* operations with End evidence, and its status
    overran,     \* operations that used more than the profile's limits
    withdrawn,   \* calls whose grant has expired or was revoked
    lapsed,      \* calls whose consent has expired
    strayed      \* how many operations began after the grant had gone

execution == <<at, op, outcome>>
books == <<reserved, began, ended, overran, strayed>>
grants == <<withdrawn, lapsed>>

Outcomes == {"ok", "bad", "error", "over", "refused"}

SandboxTypeOK ==
    /\ at \in [Calls -> {"idle", "entered", "admitted", "cleared", "reserved",
                         "running", "settling", "ending", "returned"}]
    /\ op \in [Calls -> Ops]
    /\ outcome \in [Calls -> Outcomes \cup {None}]
    /\ reserved \subseteq Calls \X Ops
    /\ began \subseteq Calls \X Ops
    /\ ended \subseteq Calls \X Ops \X {"ok", "error"}
    /\ overran \subseteq Calls \X Ops
    /\ withdrawn \subseteq Calls
    /\ lapsed \subseteq Calls
    /\ strayed \in [Calls -> 0..N]

SandboxInit ==
    /\ at = [c \in Calls |-> "idle"]
    /\ op = [c \in Calls |-> 1]
    /\ outcome = [c \in Calls |-> None]
    /\ reserved = {}
    /\ began = {}
    /\ ended = {}
    /\ overran = {}
    /\ withdrawn = {}
    /\ lapsed = {}
    /\ strayed = [c \in Calls |-> 0]

-----------------------------------------------------------------------------
(* Sandbox::execute.                                                       *)

Current(c) == <<c, op[c]>>

Moves(c, a) == at' = [at EXCEPT ![c] = a]

\* execute returns to its caller.
Returns(c, o) ==
    /\ Moves(c, "returned")
    /\ outcome' = [outcome EXCEPT ![c] = o]
    /\ UNCHANGED op

\* Called with operation i.
Enter(c, i) ==
    /\ at' = [at EXCEPT ![c] = "entered"]
    /\ op' = [op EXCEPT ![c] = i]
    /\ outcome' = [outcome EXCEPT ![c] = None]

Onward(c, a) == Moves(c, a) /\ UNCHANGED <<op, outcome>>

\* Slip: the grant is looked at for the first operation only.
AdmitOnce(c) ==
    /\ at[c] = "entered"
    /\ IF c \in withdrawn /\ op[c] = 1 THEN Returns(c, "refused") ELSE Onward(c, "admitted")
    /\ UNCHANGED <<books, grants>>

\* ensure_grant_active, and what the revocation watcher answers.
GrantActive(c) == c \notin withdrawn

Admit(c) ==
    /\ at[c] = "entered"
    /\ IF GrantActive(c) THEN Onward(c, "admitted") ELSE Returns(c, "refused")
    /\ UNCHANGED <<books, grants>>

\* Profile, capability, consent, guard and executor.
Clear(c) ==
    /\ at[c] = "admitted"
    /\ \/ /\ op[c] \in NeedsConsent => c \notin lapsed
          /\ Onward(c, "cleared")
       \/ Returns(c, "refused")
    /\ UNCHANGED <<books, grants>>

\* The meter takes the estimate, or refuses it.
Reserve(c) ==
    /\ at[c] = "cleared"
    /\ \/ /\ Onward(c, "reserved")
          /\ reserved' = reserved \cup {Current(c)}
       \/ /\ Returns(c, "refused")
          /\ UNCHANGED reserved
    /\ UNCHANGED <<began, ended, overran, strayed, grants>>

\* Begin evidence is emitted and the executor called.
Begin(c) ==
    /\ at[c] = "reserved"
    /\ Onward(c, "running")
    /\ began' = began \cup {Current(c)}
    /\ strayed' = [strayed EXCEPT ![c] = IF c \in withdrawn THEN @ + 1 ELSE @]
    /\ UNCHANGED <<reserved, ended, overran, grants>>

\* The executor is done.  Going over the limits is an early return.
Run(c) ==
    /\ at[c] = "running"
    /\ \/ \E o \in {"ok", "bad", "error"} :
            /\ Moves(c, "settling")
            /\ outcome' = [outcome EXCEPT ![c] = o]
            /\ UNCHANGED <<op, overran>>
       \/ /\ Returns(c, "over")
          /\ overran' = overran \cup {Current(c)}
    /\ UNCHANGED <<reserved, began, ended, strayed, grants>>

\* Slip: only a successful execution settles its reservation.
SettleOk(c) ==
    /\ at[c] = "settling"
    /\ Onward(c, "ending")
    /\ reserved' = IF outcome[c] = "ok" THEN reserved \ {Current(c)} ELSE reserved
    /\ UNCHANGED <<began, ended, overran, strayed, grants>>

\* rollback after an error, commit of the actual usage otherwise.
Settle(c) ==
    /\ at[c] = "settling"
    /\ Onward(c, "ending")
    /\ reserved' = reserved \ {Current(c)}
    /\ UNCHANGED <<began, ended, overran, strayed, grants>>

\* Of the statuses only success is told apart: a denial is an error like others.
EndEvidence(c) == <<c, op[c], IF outcome[c] = "ok" THEN "ok" ELSE "error">>

End(c) ==
    /\ at[c] = "ending"
    /\ Onward(c, "returned")
    /\ ended' = ended \cup {EndEvidence(c)}
    /\ UNCHANGED <<reserved, began, overran, strayed, grants>>

Execute(c) ==
    Admit(c) \/ Clear(c) \/ Reserve(c) \/ Begin(c) \/ Run(c) \/ Settle(c) \/ End(c)

-----------------------------------------------------------------------------
(* Grants and consents end.                                                *)

Losses == Cardinality(withdrawn) + Cardinality(lapsed)

Withdraw(c) ==
    /\ Losses < MaxLosses
    /\ c \notin withdrawn
    /\ withdrawn' = withdrawn \cup {c}
    /\ UNCHANGED <<execution, books, lapsed>>

Lapse(c) ==
    /\ Losses < MaxLosses
    /\ c \notin lapsed
    /\ lapsed' = lapsed \cup {c}
    /\ UNCHANGED <<execution, books, withdrawn>>

-----------------------------------------------------------------------------

\* A reservation is open only while its operation is between reserve and
\* commit or rollback, except where execute was abandoned or returned early
\* because the usage went over the limits.
Settled(abandoned) ==
    \A r \in reserved :
        \/ r \in overran
        \/ r[1] \in abandoned
        \/ r = Current(r[1]) /\ at[r[1]] \in {"reserved", "running", "settling"}

\* Once a grant is gone, at most the operation already admitted under it
\* still begins: every operation of the call asks again.
WithdrawnStops == \A c \in Calls : strayed[c] <= 1
============================================================================
