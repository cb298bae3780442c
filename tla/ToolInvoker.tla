---------------------------- MODULE ToolInvoker ----------------------------
(***************************************************************************)
(* The invoker of sb-tools over the sandbox: InvokerImpl::invoke for calls *)
(* of one Serial tool by one tenant, with its idempotency store, the count *)
(* of calls inside and the Begin and End events of the invocation.         *)
(*                                                                         *)
(* Every call has been through preflight and carries its plan: N           *)
(* operations and a grant of its own.  Calls with the same key are         *)
(* repetitions of one request; a patient caller repeats it only when it    *)
(* has the answer.  The caller may drop an invocation wherever it awaits   *)
(* something, and the guard's Drop is all that runs then.  Definitions     *)
(* commented as slips are not part of the specification, see Outbox.       *)
(***************************************************************************)
EXTENDS Sandbox

CONSTANTS
    Keys,
    Key,        \* idempotency key of each call, or None
    Patience,   \* environment: whether a request may be repeated before its answer
    MaxDrops    \* bound: invocations dropped by their caller

ASSUME ToolInvokerAssumption ==
    /\ Key \in [Calls -> Keys \cup {None}]
    /\ None \notin Keys \cup Calls \cup Outcomes \cup {"dropped"}
    /\ Calls \cap {"error", "dropped"} = {}
    /\ Patience \subseteq BOOLEAN
    /\ MaxDrops \in Nat

VARIABLES
    patient,   \* requests are repeated only after their answer
    phase,     \* where each invocation is
    answer,    \* whose output a call got, or "error", "dropped"
    store,     \* the call whose result the idempotency store holds
    inside,    \* the Serial count of the tool and tenant, 0 if absent
    invoked,   \* calls with a Begin event
    told       \* calls with an End event, and its status

invocation == <<patient, phase, answer, store, inside, invoked, told>>
vars == <<execution, books, grants, invocation>>

TypeOK ==
    /\ SandboxTypeOK
    /\ patient \in Patience
    /\ phase \in [Calls -> {"planned", "missed", "working", "storing", "over"}]
    /\ answer \in [Calls -> Calls \cup {"error", "dropped", None}]
    /\ store \in [Keys -> Calls \cup {None}]
    /\ inside \in 0..Cardinality(Calls)
    /\ invoked \subseteq Calls
    /\ told \subseteq Calls \X {"ok", "error"}

Init ==
    /\ SandboxInit
    /\ patient \in Patience
    /\ phase = [c \in Calls |-> "planned"]
    /\ answer = [c \in Calls |-> None]
    /\ store = [k \in Keys |-> None]
    /\ inside = 0
    /\ invoked = {}
    /\ told = {}

-----------------------------------------------------------------------------
(* InvokerImpl::invoke.                                                    *)

Goes(c, p) ==
    /\ phase' = [phase EXCEPT ![c] = p]
    /\ UNCHANGED patient

\* The invocation is over; a is what its caller gets.
Answers(c, a) ==
    /\ Goes(c, "over")
    /\ answer' = [answer EXCEPT ![c] = a]

\* ConcurrencyGuard::lock, which counts and refuses nobody.
Enters == inside' = inside + 1

\* Drop of the ConcurrencyGuard: the last one removes the entry.
Leaves == inside' = IF inside <= 1 THEN 0 ELSE inside - 1

Rivals(c) == {d \in Calls \ {c} : Key[d] = Key[c]}

Saved(c) == IF Key[c] = None THEN None ELSE store[Key[c]]

\* A key with a result answers the call.
Lookup(c) ==
    /\ phase[c] = "planned"
    /\ patient /\ Key[c] # None =>
            \A d \in Rivals(c) : phase[d] \in {"planned", "over"}
    /\ IF Saved(c) = None
       THEN Goes(c, "missed") /\ UNCHANGED answer
       ELSE Answers(c, Saved(c))
    /\ UNCHANGED <<execution, books, grants, store, inside, invoked, told>>

\* The call is counted, Begin event, first operation.
Start(c) ==
    /\ phase[c] = "missed"
    /\ Enters
    /\ invoked' = invoked \cup {c}
    /\ Goes(c, "working")
    /\ Enter(c, 1)
    /\ UNCHANGED <<books, grants, answer, store, told>>

Work(c) ==
    /\ Execute(c)
    /\ UNCHANGED invocation

\* Slip: an operation the sandbox refuses is tried again.
NextOpRetries(c) ==
    /\ phase[c] = "working"
    /\ at[c] = "returned"
    /\ \/ outcome[c] = "ok" /\ op[c] < N /\ Enter(c, op[c] + 1)
       \/ outcome[c] = "refused" /\ Enter(c, op[c])
    /\ UNCHANGED <<books, grants, invocation>>

\* The operation succeeded and another one follows.
NextOp(c) ==
    /\ phase[c] = "working"
    /\ at[c] = "returned"
    /\ outcome[c] = "ok"
    /\ op[c] < N
    /\ Enter(c, op[c] + 1)
    /\ UNCHANGED <<books, grants, invocation>>

\* Slip: a failure is kept under the key like a success.
StoresAnything(c) ==
    /\ Goes(c, "storing")
    /\ UNCHANGED <<answer, inside>>

\* The invocation returns its error.
Fails(c) ==
    /\ Answers(c, "error")
    /\ Leaves

\* An operation failed, or the output does not match the schema.
FinishFailed(c) ==
    /\ phase[c] = "working"
    /\ at[c] = "returned"
    /\ outcome[c] = "ok" => op[c] = N
    /\ told' = told \cup {<<c, "error">>}
    /\ Onward(c, "idle")
    /\ Fails(c)
    /\ UNCHANGED <<books, grants, store, invoked>>

\* All operations succeeded and the output is valid.
FinishOk(c) ==
    /\ phase[c] = "working"
    /\ at[c] = "returned"
    /\ outcome[c] = "ok"
    /\ op[c] = N
    /\ told' = told \cup {<<c, "ok">>}
    /\ Onward(c, "idle")
    /\ Goes(c, "storing")
    /\ UNCHANGED <<books, grants, answer, store, inside, invoked>>

\* Slip: the result is returned and not stored.
PutNothing(c) ==
    /\ phase[c] = "storing"
    /\ Answers(c, c)
    /\ Leaves
    /\ UNCHANGED <<execution, books, grants, store, invoked, told>>

\* The result is stored, over whatever the key has by now, and returned.
Put(c) ==
    /\ phase[c] = "storing"
    /\ store' = IF Key[c] = None THEN store ELSE [store EXCEPT ![Key[c]] = c]
    /\ Answers(c, c)
    /\ Leaves
    /\ UNCHANGED <<execution, books, grants, invoked, told>>

Dropped == {c \in Calls : answer[c] = "dropped"}

\* The caller drops the invocation.
Abandon(c) ==
    /\ phase[c] \in {"missed", "working", "storing"}
    /\ Cardinality(Dropped) < MaxDrops
    /\ Answers(c, "dropped")
    /\ Onward(c, "idle")
    /\ IF phase[c] = "missed" THEN UNCHANGED inside ELSE Leaves
    /\ UNCHANGED <<books, grants, store, invoked, told>>

Proceed(c) ==
    \/ Lookup(c) \/ Start(c) \/ Work(c) \/ NextOp(c)
    \/ FinishFailed(c) \/ FinishOk(c) \/ Put(c)

\* Time passes, or somebody revokes.
Loses(c) ==
    /\ phase[c] # "over"
    /\ Withdraw(c) \/ Lapse(c)
    /\ UNCHANGED invocation

Done ==
    /\ \A c \in Calls : phase[c] = "over"
    /\ UNCHANGED vars

Next ==
    \/ \E c \in Calls : Proceed(c) \/ Abandon(c) \/ Loses(c)
    \/ Done

Spec == Init /\ [][Next]_vars

\* Every await is answered, by an executor within its timeout.
FairSpec == Spec /\ \A c \in Calls : WF_vars(Proceed(c))

-----------------------------------------------------------------------------
(* Properties.                                                             *)

\* The meter's books: a reservation outlives its operation only where the
\* invocation was dropped or the operation went over the limits (the early
\* return of ensure_usage_within_limits passes both commit and rollback).
ReservationsSettled == Settled(Dropped)

\* Begin and End evidence come in pairs: once an invocation has returned,
\* each operation it began has its End, unless it went over the limits, and
\* the invocation's Begin event has its End event.
EvidencePaired ==
    \A c \in Calls : phase[c] = "over" /\ c \notin Dropped =>
        /\ \A i \in Ops : <<c, i>> \in began \ overran =>
                \E s \in {"ok", "error"} : <<c, i, s>> \in ended
        /\ c \in invoked <=> \E s \in {"ok", "error"} : <<c, s>> \in told

\* Books and evidence of an invocation agree with what was executed, through
\* executors that fail and invocations that are dropped (manager.rs:161).
ToolInv == TypeOK /\ ReservationsSettled /\ EvidencePaired

\* An answer from the store rests on a real success: the call it came from
\* reported an Ok End event and Ok evidence of every operation.
ReplayIsBacked ==
    \A c, d \in Calls : answer[c] = d \/ Saved(c) = d =>
        /\ <<d, "ok">> \in told
        /\ \A i \in Ops : <<d, i, "ok">> \in ended

\* A request that succeeds does so once, if its repetitions wait for an
\* answer: a second success of a key needs a first that was dropped between
\* its End event and the put.
SucceedsOnce ==
    patient => \A c, d \in Calls :
        /\ c # d
        /\ Key[c] = Key[d]
        /\ Key[c] # None
        /\ <<c, "ok">> \in told
        /\ <<d, "ok">> \in told
        => {c, d} \cap Dropped # {}

\* Every invocation gives an answer.
AllAnswered == \A c \in Calls : <>(phase[c] = "over")
============================================================================
