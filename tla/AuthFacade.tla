----------------------------- MODULE AuthFacade -----------------------------
(***************************************************************************)
(* The authorization of sb-auth: AuthFacade::authorize with the decision   *)
(* cache and the quota store, for requests of one subject on one resource  *)
(* with one action, which share a decision key and a quota key.            *)
(*                                                                         *)
(* authorize is cut where it awaits shared state: the cache lookup, the    *)
(* decision (PDP and consent, which may go either way), the quota, and the *)
(* cache entry.  This module has no Next of its own, see RequestChain.     *)
(***************************************************************************)
EXTENDS Naturals, FiniteSets

CONSTANTS
    Requests,
    Limits,      \* quota limits to consider
    Cost,        \* default_cost of the authorization stage
    DecisionTTL, \* cache_ttl_ms of a decision that may be cached
    Hold,        \* environment: longest time from a decision to its cache entry
    None

ASSUME AuthFacadeAssumption ==
    /\ IsFiniteSet(Requests)
    /\ Limits \subseteq Nat
    /\ Cost \in Nat
    /\ DecisionTTL \in Nat \ {0}
    /\ Hold \in Nat

VARIABLES
    auth,      \* where the authorization of each request is
    decision,  \* what it has in hand
    limit,     \* quota limit and
    used,      \* use of the quota key
    charged,   \* requests that consumed quota
    cache      \* the entry of the decision key, or None

authorization == <<auth, decision, limit, used, charged, cache>>

\* Older than this makes no difference.
AgeCap == DecisionTTL + Hold + 1

\* A decision: what, asked by whom, how long ago, how long it may be cached.
Decision ==
    [allow : BOOLEAN, by : Requests, born : 0..AgeCap, ttl : {0, DecisionTTL}]

Entry == [of : Decision, age : 0..(DecisionTTL + 1)]

AuthTypeOK ==
    /\ auth \in [Requests -> {"out", "lookup", "deciding", "consuming", "saving",
                              "granted", "refused"}]
    /\ decision \in [Requests -> Decision \cup {None}]
    /\ limit \in Limits
    /\ used \in 0..limit
    /\ charged \subseteq Requests
    /\ cache \in Entry \cup {None}

AuthInit ==
    /\ auth = [r \in Requests |-> "out"]
    /\ decision = [r \in Requests |-> None]
    /\ limit \in Limits
    /\ used = 0
    /\ charged = {}
    /\ cache = None

-----------------------------------------------------------------------------
(* AuthFacade::authorize.                                                  *)

AuthGoes(r, a) == auth' = [auth EXCEPT ![r] = a]

\* No credentials, another tenant, an unreadable consent, or an
\* authentication that fails: refused before anything is looked up.
Unauthenticated(r) ==
    /\ auth[r] = "lookup"
    /\ AuthGoes(r, "refused")
    /\ UNCHANGED <<decision, limit, used, charged, cache>>

Verdict(d) == IF d.allow THEN "granted" ELSE "refused"

\* MemoryDecisionCache::get
Cached == IF cache = None THEN FALSE ELSE cache.age <= cache.of.ttl

\* A cached decision is the answer: no consent is verified and no quota
\* consumed.  An expired entry is removed.
Lookup(r) ==
    /\ auth[r] = "lookup"
    /\ IF Cached
       THEN /\ decision' = [decision EXCEPT ![r] = cache.of]
            /\ AuthGoes(r, Verdict(cache.of))
            /\ UNCHANGED cache
       ELSE /\ AuthGoes(r, "deciding")
            /\ cache' = None
            /\ UNCHANGED decision
    /\ UNCHANGED <<limit, used, charged>>

Decisions(r) == {d \in Decision : d.by = r /\ d.born = 0}

\* Slip: the decision is cached before the quota has been asked.
DecideAndSave(r) ==
    /\ auth[r] = "deciding"
    /\ \E d \in Decisions(r) :
          /\ decision' = [decision EXCEPT ![r] = d]
          /\ AuthGoes(r, IF d.allow THEN "consuming" ELSE "refused")
          /\ cache' = IF d.ttl > 0 THEN [of |-> d, age |-> 0] ELSE cache
    /\ UNCHANGED <<limit, used, charged>>

\* The PDP decides; an allowed request with an invalid consent is refused.
Decide(r) ==
    /\ auth[r] = "deciding"
    /\ \/ \E d \in Decisions(r) :
            /\ decision' = [decision EXCEPT ![r] = d]
            /\ AuthGoes(r, IF d.allow THEN "consuming" ELSE "saving")
       \/ /\ AuthGoes(r, "refused")
          /\ UNCHANGED decision
    /\ UNCHANGED <<limit, used, charged, cache>>

\* MemoryQuotaStore::check_and_consume, under one lock.
Consume(r) ==
    /\ auth[r] = "consuming"
    /\ IF used < limit /\ used + Cost <= limit
       THEN /\ used' = used + Cost
            /\ charged' = charged \cup {r}
            /\ AuthGoes(r, "saving")
       ELSE /\ AuthGoes(r, "refused")
            /\ UNCHANGED <<used, charged>>
    /\ UNCHANGED <<decision, limit, cache>>

\* The decision is cached from now on, if it may be at all.
SaveDecision(r) ==
    /\ auth[r] = "saving"
    /\ cache' = IF decision[r].ttl > 0 THEN [of |-> decision[r], age |-> 0] ELSE cache
    /\ AuthGoes(r, Verdict(decision[r]))
    /\ UNCHANGED <<decision, limit, used, charged>>

Authorize(r) ==
    Unauthenticated(r) \/ Lookup(r) \/ Decide(r) \/ Consume(r) \/ SaveDecision(r)

-----------------------------------------------------------------------------
(* Time.                                                                   *)

Older(n, cap) == IF n < cap THEN n + 1 ELSE cap

OlderDecision(d) ==
    [allow |-> d.allow, by |-> d.by, born |-> Older(d.born, AgeCap), ttl |-> d.ttl]

\* Decisions in hand and in the cache grow older.
AuthTick ==
    /\ \A r \in Requests : auth[r] \in {"consuming", "saving"} => decision[r].born < Hold
    /\ decision' = [r \in Requests |->
            IF auth[r] \in {"consuming", "saving"} THEN OlderDecision(decision[r])
            ELSE decision[r]]
    /\ cache' = IF cache = None THEN None
                ELSE [of |-> OlderDecision(cache.of), age |-> Older(cache.age, DecisionTTL + 1)]
    /\ UNCHANGED <<auth, limit, used, charged>>

-----------------------------------------------------------------------------

\* A request is let through on a decision the PDP took at most a time to
\* live, and the time from that decision to its cache entry, ago.
AllowIsFresh ==
    \A r \in Requests : auth[r] = "granted" => decision[r].born <= DecisionTTL + Hold

\* Who is let through has been charged, or rides on the cached decision of a
\* request that was.
RidersPaid ==
    \A r \in Requests : auth[r] = "granted" => decision[r].by \in charged
============================================================================
