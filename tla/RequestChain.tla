---------------------------- MODULE RequestChain ----------------------------
(***************************************************************************)
(* The interceptor chain of sb-interceptors: run_with_handler over the     *)
(* authorization of AuthFacade, with the idempotency layer, the limit on   *)
(* concurrent handlers and the retries of execute_with_resilience.         *)
(*                                                                         *)
(* The stages are those of the repository's chain tests: context, route    *)
(* and schema, which only look at the request and may reject it, then the  *)
(* idempotency and the authorization stage.  The tests put them in this    *)
(* order; build_idempotency_key also takes the tenant of an authenticated  *)
(* subject, so both orders are considered.  All requests take this route.  *)
(* Requests with the same key repeat each other; if patient, only after an *)
(* answer.                                                                 *)
(*                                                                         *)
(* What a handler did before it failed, or was dropped at its timeout, is  *)
(* up to it: only its success is recorded here.  Definitions commented as  *)
(* slips are not part of the specification, see Outbox.                    *)
(***************************************************************************)
EXTENDS AuthFacade

CONSTANTS
    Keys,
    Key,         \* idempotency key of each request, or None
    Orders,      \* orders of the two stages, of "idem_first", "auth_first"
    Patience,    \* whether requests may be repeated before their answer
    KeyTTL,      \* ttl of the idempotency layer
    MaxPermits,  \* concurrency limit
    MaxRetries,  \* of the resilience policy
    MaxDrops     \* bound: requests dropped by their client

ASSUME RequestChainAssumption ==
    /\ Key \in [Requests -> Keys \cup {None}]
    /\ None \notin Keys \cup Requests
    /\ Requests \cap {"error", "dropped", "lost"} = {}
    /\ Orders \subseteq {"idem_first", "auth_first"}
    /\ Patience \subseteq BOOLEAN
    /\ KeyTTL \in Nat \ {0}
    /\ MaxPermits \in Nat \ {0}
    /\ MaxRetries \in Nat
    /\ MaxDrops \in Nat

VARIABLES
    order,
    patient,
    phase,     \* where each request is in the chain
    answer,    \* whose response it got, or "error", "dropped", or "lost":
               \* its own response was stored and never reached it
    attempts,  \* calls of its handler
    permits,   \* of the semaphore
    store,     \* the stored response of each key: whose, and its age
    since      \* time since a request stored its response

chain == <<order, patient, phase, answer, attempts, permits, store, since>>
vars == <<authorization, chain>>

\* A stored response: whose, and how old.
Response == [by : Requests, age : 0..KeyTTL]

ASSUME NoneAssumption == None \notin Response

TypeOK ==
    /\ AuthTypeOK
    /\ order \in Orders
    /\ patient \in Patience
    /\ phase \in [Requests -> {"new", "idem", "auth", "permit", "handling",
                               "responding", "writing", "replaying", "over"}]
    /\ answer \in [Requests -> Requests \cup {"error", "dropped", "lost", None}]
    /\ attempts \in [Requests -> 0..(MaxRetries + 1)]
    /\ permits \in 0..MaxPermits
    /\ store \in [Keys -> Response \cup {None}]
    /\ since \in [Requests -> 0..KeyTTL]

Init ==
    /\ AuthInit
    /\ order \in Orders
    /\ patient \in Patience
    /\ phase = [r \in Requests |-> "new"]
    /\ answer = [r \in Requests |-> None]
    /\ attempts = [r \in Requests |-> 0]
    /\ permits = MaxPermits
    /\ store = [k \in Keys |-> None]
    /\ since = [r \in Requests |-> KeyTTL]

-----------------------------------------------------------------------------
(* Ends.                                                                   *)

Goes(r, p) == phase' = [phase EXCEPT ![r] = p]

Holding(r) == phase[r] \in {"handling", "responding", "writing"}

\* Slip: only a good end gives the permit back.
ReleasesIfGood(r) ==
    permits' = IF phase[r] = "writing" THEN permits + 1 ELSE permits

\* The permit lives until run_with_handler is over, whatever the end.
Releases(r) == permits' = IF Holding(r) THEN permits + 1 ELSE permits

\* The request is over; a is what its client gets.
Ends(r, a) ==
    /\ Goes(r, "over")
    /\ answer' = [answer EXCEPT ![r] = a]
    /\ Releases(r)

Rejects(r) ==
    /\ Ends(r, "error")
    /\ UNCHANGED <<order, patient, attempts, store, since>>

Moves(r, p) ==
    /\ Goes(r, p)
    /\ UNCHANGED <<order, patient, answer, attempts, permits, store, since>>

-----------------------------------------------------------------------------
(* Request stages.                                                         *)

AfterIdem == IF order = "idem_first" THEN "auth" ELSE "permit"
AfterAuth == IF order = "idem_first" THEN "permit" ELSE "idem"

Rivals(r) == {s \in Requests \ {r} : Key[s] = Key[r] /\ Key[r] # None}

\* The authorization of a request begins when its stage does.
Enters(r, p) ==
    /\ Moves(r, p)
    /\ IF p = "auth" THEN AuthGoes(r, "lookup") ELSE UNCHANGED auth
    /\ UNCHANGED <<decision, limit, used, charged, cache>>

\* Context, route policy and request schema, none of which waits.
Route(r) ==
    /\ phase[r] = "new"
    /\ patient => \A s \in Rivals(r) : phase[s] \in {"new", "over"}
    /\ \/ Enters(r, IF order = "idem_first" THEN "idem" ELSE "auth")
       \/ Rejects(r) /\ UNCHANGED authorization

\* Slip: off by one, a response is forgotten early.
LiveShort(e) == e.age + 1 < KeyTTL

\* MemoryIdempotencyStore::get: the expiry lies ahead.
Live(e) == e.age < KeyTTL

Stored(r) ==
    IF Key[r] = None THEN FALSE
    ELSE IF store[Key[r]] = None THEN FALSE
    ELSE Live(store[Key[r]])

\* The stored response short-circuits the chain.
Replay(r) ==
    /\ phase[r] = "idem"
    /\ Stored(r)
    /\ Goes(r, "replaying")
    /\ answer' = [answer EXCEPT ![r] = store[Key[r]].by]
    /\ UNCHANGED <<authorization, order, patient, attempts, permits, store, since>>

\* Nothing live is stored; an expired response is removed.
Continue(r) ==
    /\ phase[r] = "idem"
    /\ ~Stored(r)
    /\ Goes(r, AfterIdem)
    /\ store' = IF Key[r] = None THEN store ELSE [store EXCEPT ![Key[r]] = None]
    /\ IF AfterIdem = "auth" THEN AuthGoes(r, "lookup") ELSE UNCHANGED auth
    /\ UNCHANGED <<decision, limit, used, charged, cache>>
    /\ UNCHANGED <<order, patient, answer, attempts, permits, since>>

\* A step of the authorization.
AuthStep(r) ==
    /\ phase[r] = "auth"
    /\ Authorize(r)
    /\ UNCHANGED chain

\* The authorization stage returns.
Authorized(r) ==
    /\ phase[r] = "auth"
    /\ \/ auth[r] = "granted" /\ Moves(r, AfterAuth)
       \/ auth[r] = "refused" /\ Rejects(r)
    /\ UNCHANGED authorization

-----------------------------------------------------------------------------
(* Handler and response.                                                   *)

\* A permit of the semaphore, then the first call of the handler.
Acquire(r) ==
    /\ phase[r] = "permit"
    /\ permits > 0
    /\ permits' = permits - 1
    /\ Goes(r, "handling")
    /\ attempts' = [attempts EXCEPT ![r] = 1]
    /\ UNCHANGED <<authorization, order, patient, answer, store, since>>

\* Slip: the body is stored before the response stages have seen it.
HandlerOkStores(r) ==
    /\ phase[r] = "handling"
    /\ Goes(r, "responding")
    /\ store' = IF Key[r] = None THEN store
                ELSE [store EXCEPT ![Key[r]] = [by |-> r, age |-> 0]]
    /\ UNCHANGED <<authorization, order, patient, answer, attempts, permits, since>>

\* The handler has succeeded.
HandlerOk(r) ==
    /\ phase[r] = "handling"
    /\ Moves(r, "responding")
    /\ UNCHANGED authorization

MayRetry(r) == attempts[r] <= MaxRetries

\* A transient error is followed by another call.
HandlerRetry(r) ==
    /\ phase[r] = "handling"
    /\ MayRetry(r)
    /\ attempts' = [attempts EXCEPT ![r] = @ + 1]
    /\ UNCHANGED <<authorization, order, patient, phase, answer, permits, store, since>>

\* A permanent error, the last transient one, or the timeout of any call.
HandlerFails(r) ==
    /\ phase[r] = "handling"
    /\ Rejects(r)
    /\ UNCHANGED authorization

\* A response stage cannot be applied, or the body is too large to store, or
\* a replay cannot be written: the client gets an error although a handler
\* has succeeded.
ResponseFails(r) ==
    /\ phase[r] \in {"responding", "replaying"}
    /\ Rejects(r)
    /\ UNCHANGED authorization

\* The response of a keyed request is stored before it is written.
Respond(r) ==
    /\ phase[r] = "responding"
    /\ store' = IF Key[r] = None THEN store
                ELSE [store EXCEPT ![Key[r]] = [by |-> r, age |-> 0]]
    /\ since' = [since EXCEPT ![r] = 0]
    /\ Goes(r, "writing")
    /\ UNCHANGED <<authorization, order, patient, answer, attempts, permits>>

\* The response is written, or the write fails; the store keeps it.
Write(r) ==
    /\ phase[r] = "writing"
    /\ \/ Ends(r, r)
       \/ Ends(r, "lost")
    /\ UNCHANGED <<authorization, order, patient, attempts, store, since>>

\* A replayed response is written and not stored again.
WriteReplay(r) ==
    /\ phase[r] = "replaying"
    /\ Ends(r, answer[r])
    /\ UNCHANGED <<authorization, order, patient, attempts, store, since>>

Proceed(r) ==
    \/ Route(r) \/ Replay(r) \/ Continue(r) \/ AuthStep(r) \/ Authorized(r)
    \/ HandlerOk(r) \/ HandlerRetry(r) \/ HandlerFails(r)
    \/ ResponseFails(r) \/ Respond(r) \/ Write(r) \/ WriteReplay(r)

-----------------------------------------------------------------------------
(* Clients and time.                                                       *)

Dropped == {r \in Requests : answer[r] = "dropped"}

\* One dropped while it writes is as if the write had failed.
Drop(r) ==
    /\ phase[r] \notin {"new", "writing", "over"}
    /\ Cardinality(Dropped) < MaxDrops
    /\ Ends(r, "dropped")
    /\ auth' = [auth EXCEPT ![r] = IF auth[r] = "granted" THEN "granted" ELSE "out"]
    /\ UNCHANGED <<decision, limit, used, charged, cache>>
    /\ UNCHANGED <<order, patient, attempts, store, since>>

Tick ==
    /\ AuthTick
    /\ store' = [k \in Keys |-> IF store[k] = None THEN None
                                ELSE [by |-> store[k].by, age |-> Older(store[k].age, KeyTTL)]]
    /\ since' = [r \in Requests |-> Older(since[r], KeyTTL)]
    /\ UNCHANGED <<order, patient, phase, answer, attempts, permits>>

Next == Tick \/ \E r \in Requests : Proceed(r) \/ Acquire(r) \/ Drop(r)

Spec == Init /\ [][Next]_vars

\* Every await is answered, a handler by its timeout at the latest, and the
\* semaphore serves its waiters in turn.
FairSpec ==
    /\ Spec
    /\ \A r \in Requests : WF_vars(Proceed(r)) /\ SF_vars(Acquire(r))

-----------------------------------------------------------------------------
(* Properties.                                                             *)

\* No more handlers run at a time than the concurrency limit allows.
HandlersBounded == Cardinality({r \in Requests : phase[r] = "handling"}) <= MaxPermits

\* What lets a request reach its handler: a permit, and an allowance that is
\* recent and paid for, its own or that of the cached decision it rides on
\* (mod.rs:99, facade.rs:82).
ChainInv == TypeOK /\ HandlersBounded /\ AllowIsFresh /\ RidersPaid

\* Patient repetitions of a request whose response was stored are handled
\* again only after the response's time to live, in either order of the
\* stages.
OncePerWindow ==
    [][\A r \in Requests : patient /\ phase[r] = "permit" /\ phase'[r] = "handling" =>
            \A s \in Rivals(r) : answer[s] \in {s, "lost"} => since[s] >= KeyTTL]_vars

\* A replayed response is that of a request with the same key which was
\* handled and whose response stages went well, even if that request has not
\* got it itself.
ReplayIsAnswer ==
    \A r, s \in Requests : answer[r] = s /\ r # s =>
        /\ Key[r] = Key[s]
        /\ phase[s] = "writing" \/ answer[s] \in {s, "lost"}

\* Every request is answered.
AllAnswered == \A r \in Requests : <>(phase[r] = "over")
============================================================================
