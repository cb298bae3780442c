---------------------------- MODULE ChainProofs ----------------------------
(***************************************************************************)
(* Safety of the authorization and of the chain around it, for every set   *)
(* of requests, either order of the stages, patient clients or not.        *)
(***************************************************************************)
EXTENDS RequestChain, FiniteSetTheorems, TLAPS

USE AuthFacadeAssumption, RequestChainAssumption, NoneAssumption

-----------------------------------------------------------------------------
(* The authorization.                                                      *)

\* What a request has in hand while it is being authorized: its own decision,
\* at most Hold old, and charged for before it is saved as an allowance.
InHandOK ==
    \A r \in Requests :
        /\ auth[r] \in {"consuming", "saving", "granted"} => decision[r] \in Decision
        /\ auth[r] \in {"consuming", "saving"} =>
              decision[r].by = r /\ decision[r].born <= Hold
        /\ auth[r] = "saving" /\ decision[r].allow => r \in charged
        /\ auth[r] = "granted" => decision[r].by \in charged
        /\ auth[r] = "granted" => decision[r].born <= DecisionTTL + Hold

\* The cache entry was charged for, and its decision is at most Hold older than
\* the entry itself.
CacheOK ==
    cache # None =>
        /\ cache.of.allow => cache.of.by \in charged
        /\ cache.of.born <= cache.age + Hold

AuthInv == AuthTypeOK /\ InHandOK /\ CacheOK

LEMMA OlderBounds ==
  ASSUME NEW cap \in Nat, NEW n \in 0..cap
  PROVE  /\ Older(n, cap) \in 0..cap
         /\ Older(n, cap) <= n + 1
         /\ n < cap => Older(n, cap) = n + 1
         /\ n = cap => Older(n, cap) = cap
  BY DEF Older

LEMMA OlderDecisionType ==
  ASSUME NEW d \in Decision
  PROVE  /\ OlderDecision(d) \in Decision
         /\ OlderDecision(d).by = d.by
         /\ OlderDecision(d).allow = d.allow
         /\ OlderDecision(d).born <= d.born + 1
  <1>1. AgeCap \in Nat /\ d.born \in 0..AgeCap
    BY DEF AgeCap, Decision
  <1>2. Older(d.born, AgeCap) \in 0..AgeCap /\ Older(d.born, AgeCap) <= d.born + 1
    BY <1>1, OlderBounds
  <1> QED
    BY <1>2 DEF OlderDecision, Decision

LEMMA AuthInitInv == AuthInit => AuthInv
  BY DEF AuthInit, AuthInv, AuthTypeOK, InHandOK, CacheOK

\* Nothing of the authorization changes.
LEMMA AuthSame == AuthInv /\ UNCHANGED authorization => AuthInv'
  BY DEF AuthInv, AuthTypeOK, InHandOK, CacheOK, authorization

\* A request turns to a place where it has nothing in hand.
LEMMA AuthMoves ==
  ASSUME AuthInv, NEW r \in Requests, NEW a \in {"out", "lookup", "deciding", "refused"},
         AuthGoes(r, a), UNCHANGED <<decision, limit, used, charged, cache>>
  PROVE  AuthInv'
  BY DEF AuthInv, AuthTypeOK, InHandOK, CacheOK, AuthGoes

\* Every step of authorize preserves the invariant.
LEMMA AuthorizeInv ==
  ASSUME AuthInv, NEW r \in Requests, Authorize(r)
  PROVE  AuthInv'
  <1>t. AuthTypeOK /\ InHandOK /\ CacheOK
    BY DEF AuthInv
  <1>1. CASE Unauthenticated(r)
    BY <1>1, AuthMoves DEF Unauthenticated
  <1>2. CASE Lookup(r)
    <2>1. CASE Cached
      <3>1. /\ cache \in Entry
            /\ cache.of.by \in Requests
            /\ cache.of.born <= DecisionTTL + Hold
        BY <2>1, <1>t DEF Cached, AuthTypeOK, CacheOK, Entry, Decision, AgeCap
      <3>2. /\ decision' = [decision EXCEPT ![r] = cache.of]
            /\ auth' = [auth EXCEPT ![r] = Verdict(cache.of)]
            /\ UNCHANGED <<cache, limit, used, charged>>
        BY <1>2, <2>1 DEF Lookup, AuthGoes
      <3>3. Verdict(cache.of) = "granted" => cache.of.by \in charged
        BY <2>1, <1>t DEF Verdict, CacheOK, Cached
      <3>4. AuthTypeOK'
        BY <3>1, <3>2, <1>t DEF AuthTypeOK, Verdict, Entry
      <3>5. InHandOK'
        BY <3>1, <3>2, <3>3, <1>t DEF InHandOK, AuthTypeOK, Verdict, Entry
      <3> QED
        BY <3>2, <3>4, <3>5, <1>t DEF AuthInv, CacheOK
    <2>2. CASE ~Cached
      BY <2>2, <1>2, <1>t DEF Lookup, AuthGoes, AuthInv, AuthTypeOK, InHandOK, CacheOK
    <2> QED
      BY <2>1, <2>2
  <1>3. CASE Decide(r)
    <2>1. ASSUME NEW d \in Decisions(r),
                 decision' = [decision EXCEPT ![r] = d],
                 AuthGoes(r, IF d.allow THEN "consuming" ELSE "saving")
          PROVE  AuthInv'
      <3>1. d \in Decision /\ d.by = r /\ d.born = 0 /\ d.born <= Hold
        BY DEF Decisions
      <3>2. UNCHANGED <<limit, used, charged, cache>>
        BY <1>3 DEF Decide
      <3> QED
        BY <2>1, <3>1, <3>2, <1>t DEF AuthGoes, AuthInv, AuthTypeOK, InHandOK, CacheOK
    <2>2. CASE AuthGoes(r, "refused") /\ UNCHANGED decision
      BY <2>2, <1>3, AuthMoves DEF Decide
    <2> QED
      BY <2>1, <2>2, <1>3 DEF Decide
  <1>4. CASE Consume(r)
    <2>1. CASE used < limit /\ used + Cost <= limit
      BY <2>1, <1>4, <1>t DEF Consume, AuthGoes, AuthInv, AuthTypeOK, InHandOK, CacheOK
    <2>2. CASE ~(used < limit /\ used + Cost <= limit)
      BY <2>2, <1>4, AuthMoves DEF Consume
    <2> QED
      BY <2>1, <2>2
  <1>5. CASE SaveDecision(r)
    <2>1. /\ decision[r] \in Decision
          /\ decision[r].by = r
          /\ decision[r].born <= Hold
          /\ decision[r].allow => r \in charged
      BY <1>5, <1>t DEF SaveDecision, InHandOK
    <2>2. /\ auth' = [auth EXCEPT ![r] = Verdict(decision[r])]
          /\ cache' = IF decision[r].ttl > 0 THEN [of |-> decision[r], age |-> 0] ELSE cache
          /\ UNCHANGED <<decision, limit, used, charged>>
      BY <1>5 DEF SaveDecision, AuthGoes
    <2>3. AuthTypeOK'
      BY <2>1, <2>2, <1>t DEF AuthTypeOK, Verdict, Entry
    <2>4. InHandOK'
      BY <2>1, <2>2, <1>t DEF AuthTypeOK, InHandOK, Verdict, Decision
    <2>5. CacheOK'
      BY <2>1, <2>2, <1>t DEF CacheOK
    <2> QED
      BY <2>3, <2>4, <2>5 DEF AuthInv
  <1> QED
    BY <1>1, <1>2, <1>3, <1>4, <1>5 DEF Authorize

\* Time: what is in hand grows no older than Hold before it is saved, and the
\* entry ages with its decision.
LEMMA AuthTickInv == AuthInv /\ AuthTick => AuthInv'
  <1> SUFFICES ASSUME AuthInv, AuthTick PROVE AuthInv'
    OBVIOUS
  <1>t. AuthTypeOK /\ InHandOK /\ CacheOK
    BY DEF AuthInv
  <1>1. decision' = [r \in Requests |->
            IF auth[r] \in {"consuming", "saving"} THEN OlderDecision(decision[r])
            ELSE decision[r]]
    BY DEF AuthTick
  <1>2. UNCHANGED <<auth, limit, used, charged>>
    BY DEF AuthTick
  <1>3. ASSUME NEW r \in Requests, auth[r] \in {"consuming", "saving"}
        PROVE  /\ decision'[r] \in Decision
               /\ decision'[r].by = r
               /\ decision'[r].born <= Hold
               /\ decision'[r].allow = decision[r].allow
    <2>1. decision[r] \in Decision /\ decision[r].by = r /\ decision[r].born < Hold
      BY <1>3, <1>t DEF AuthTick, InHandOK
    <2>2. decision'[r] = OlderDecision(decision[r])
      BY <1>1, <1>3
    <2>3. decision[r].born \in Nat /\ decision'[r].born \in Nat
      BY <2>1, <2>2, OlderDecisionType DEF Decision, AgeCap
    <2> QED
      BY <2>1, <2>2, <2>3, OlderDecisionType
  <1>4. \A r \in Requests : auth[r] \notin {"consuming", "saving"} => decision'[r] = decision[r]
    BY <1>1
  <1>5. decision' \in [Requests -> Decision \cup {None}]
    BY <1>1, <1>3, <1>t DEF AuthTypeOK
  <1>6. InHandOK'
    BY <1>2, <1>3, <1>4, <1>t DEF InHandOK
  <1>7. (cache \in Entry \cup {None} /\ CacheOK)'
    <2>1. CASE cache = None
      BY <2>1 DEF AuthTick, CacheOK
    <2>2. CASE cache # None
      <3>1. /\ cache.of \in Decision
            /\ cache.age \in 0..(DecisionTTL + 1)
        BY <2>2, <1>t DEF AuthTypeOK, Entry
      <3>2. cache' = [of |-> OlderDecision(cache.of),
                      age |-> Older(cache.age, DecisionTTL + 1)]
        BY <2>2 DEF AuthTick
      <3>3. cache.of.born <= cache.age + Hold /\ (cache.of.allow => cache.of.by \in charged)
        BY <2>2, <1>t DEF CacheOK
      <3>4. /\ OlderDecision(cache.of) \in Decision
            /\ OlderDecision(cache.of).by = cache.of.by
            /\ OlderDecision(cache.of).allow = cache.of.allow
            /\ OlderDecision(cache.of).born <= cache.of.born + 1
            /\ OlderDecision(cache.of).born <= AgeCap
            /\ OlderDecision(cache.of).born \in Nat
            /\ cache.of.born \in Nat
        BY <3>1, OlderDecisionType DEF Decision, AgeCap
      <3>5. /\ Older(cache.age, DecisionTTL + 1) \in 0..(DecisionTTL + 1)
            /\ cache.age < DecisionTTL + 1 => Older(cache.age, DecisionTTL + 1) = cache.age + 1
            /\ cache.age = DecisionTTL + 1 => Older(cache.age, DecisionTTL + 1) = DecisionTTL + 1
        BY <3>1, OlderBounds
      <3>6. OlderDecision(cache.of).born <= Older(cache.age, DecisionTTL + 1) + Hold
        BY <3>1, <3>3, <3>4, <3>5 DEF AgeCap
      <3>7. /\ cache' \in Entry
            /\ cache'.of = OlderDecision(cache.of)
            /\ cache'.age = Older(cache.age, DecisionTTL + 1)
        BY <3>2, <3>4, <3>5 DEF Entry
      <3> QED
        BY <1>2, <3>3, <3>4, <3>6, <3>7 DEF CacheOK
    <2> QED
      BY <2>1, <2>2
  <1> QED
    BY <1>2, <1>5, <1>6, <1>7, <1>t DEF AuthInv, AuthTypeOK

-----------------------------------------------------------------------------
(* The chain around the authorization.                                     *)

\* Whatever the chain does, it keeps what the authorization relies on.
LEMMA NextAuthInv == AuthInv /\ [Next]_vars => AuthInv'
  <1> SUFFICES ASSUME AuthInv, [Next]_vars PROVE AuthInv'
    OBVIOUS
  <1>1. CASE Tick
    BY <1>1, AuthTickInv DEF Tick
  <1>2. ASSUME NEW r \in Requests, Proceed(r) PROVE AuthInv'
    <2>1. ASSUME NEW p \in {"idem", "auth"}, Enters(r, p) PROVE AuthInv'
      BY <2>1, AuthMoves, AuthSame DEF Enters, authorization
    <2>2. CASE Route(r)
      BY <2>1, <2>2, AuthSame DEF Route
    <2>3. CASE Continue(r)
      BY <2>3, AuthMoves, AuthSame DEF Continue, authorization
    <2>4. CASE AuthStep(r)
      BY <2>4, AuthorizeInv DEF AuthStep
    <2>5. CASE UNCHANGED authorization
      BY <2>5, AuthSame
    <2> QED
      BY <1>2, <2>2, <2>3, <2>4, <2>5 DEF Proceed, Replay, Authorized, HandlerOk, HandlerRetry,
         HandlerFails, ResponseFails, Respond, Write, WriteReplay
  <1>3. ASSUME NEW r \in Requests, Acquire(r) PROVE AuthInv'
    BY <1>3, AuthSame DEF Acquire
  <1>4. ASSUME NEW r \in Requests, Drop(r) PROVE AuthInv'
    <2>1. CASE auth[r] = "granted"
      <3>1. auth' = auth
        BY <2>1, <1>4 DEF Drop, AuthInv, AuthTypeOK
      <3> QED
        BY <3>1, <1>4, AuthSame DEF Drop, authorization
    <2>2. CASE auth[r] # "granted"
      BY <2>2, <1>4, AuthMoves DEF Drop, AuthGoes
    <2> QED
      BY <2>1, <2>2
  <1>5. CASE UNCHANGED vars
    BY <1>5, AuthSame DEF vars
  <1> QED
    BY <1>1, <1>2, <1>3, <1>4, <1>5 DEF Next

LEMMA AlwaysAuthInv == Spec => []AuthInv
  <1>1. Init => AuthInv
    BY AuthInitInv DEF Init
  <1> QED
    BY <1>1, NextAuthInv, PTL DEF Spec

\* A request is let through on a decision that is at most a time to live, and
\* the time to its cache entry, old: a cache hit does not renew the entry.
THEOREM FreshAllowances == Spec => []AllowIsFresh
  <1>1. AuthInv => AllowIsFresh
    BY DEF AuthInv, InHandOK, AllowIsFresh
  <1> QED
    BY <1>1, AlwaysAuthInv, PTL

\* Every request that is let through was charged, or goes by the cached
\* decision of one that was: quota comes before the cache in authorize.
THEOREM PaidAllowances == Spec => []RidersPaid
  <1>1. AuthInv => RidersPaid
    BY DEF AuthInv, InHandOK, RidersPaid
  <1> QED
    BY <1>1, AlwaysAuthInv, PTL

-----------------------------------------------------------------------------
(* Types and permits.                                                      *)

ChainTypes ==
    /\ order \in Orders
    /\ patient \in Patience
    /\ phase \in [Requests -> {"new", "idem", "auth", "permit", "handling",
                               "responding", "writing", "replaying", "over"}]
    /\ answer \in [Requests -> Requests \cup {"error", "dropped", "lost", None}]
    /\ attempts \in [Requests -> 0..(MaxRetries + 1)]
    /\ store \in [Keys -> Response \cup {None}]
    /\ since \in [Requests -> 0..KeyTTL]

Holders == {r \in Requests : Holding(r)}

\* A permit is with the semaphore or with a request that holds one.
PermitInv == permits \in Nat /\ permits + Cardinality(Holders) = MaxPermits

\* While a replay is under way its answer is the stored request's.
ReplayingOK == \A r \in Requests : phase[r] = "replaying" => answer[r] \in Requests

ChainIInv == ChainTypes /\ ReplayingOK /\ PermitInv

LEMMA HoldersFinite ==
  /\ IsFiniteSet(Holders)
  /\ Cardinality(Holders) \in Nat
  <1>1. Holders \subseteq Requests
    BY DEF Holders
  <1>2. IsFiniteSet(Holders)
    BY <1>1, FS_Subset
  <1> QED
    BY <1>2, FS_CardinalityType

\* A request that ends gives back the permit it has.
LEMMA EndsPermit ==
  ASSUME ChainTypes, PermitInv, NEW r \in Requests, Goes(r, "over"), Releases(r)
  PROVE  PermitInv'
  <1>1. Holders' = Holders \ {r}
    BY DEF Holders, Holding, Goes, ChainTypes
  <1>2. CASE Holding(r)
    <2>1. r \in Holders
      BY <1>2 DEF Holders
    <2>2. Cardinality(Holders \ {r}) = Cardinality(Holders) - 1
      BY <2>1, HoldersFinite, FS_RemoveElement
    <2> QED
      BY <1>1, <1>2, <2>2, HoldersFinite DEF PermitInv, Releases
  <1>3. CASE ~Holding(r)
    <2>1. Holders' = Holders
      BY <1>1, <1>3 DEF Holders
    <2> QED
      BY <1>3, <2>1 DEF PermitInv, Releases
  <1> QED
    BY <1>2, <1>3

\* A step within the held phases, or outside them, keeps the permits.
LEMMA MovesPermit ==
  ASSUME ChainTypes, PermitInv, NEW r \in Requests,
         NEW p, Goes(r, p), UNCHANGED permits,
         Holding(r) <=> p \in {"handling", "responding", "writing"}
  PROVE  PermitInv'
  <1>1. Holders' = Holders
    BY DEF Holders, Holding, Goes, ChainTypes
  <1> QED
    BY <1>1 DEF PermitInv

LEMMA SamePermit ==
  ASSUME PermitInv, UNCHANGED <<phase, permits>>
  PROVE  PermitInv'
  BY DEF PermitInv, Holders, Holding

LEMMA EndsInv ==
  ASSUME ChainIInv, NEW r \in Requests,
         NEW a \in Requests \cup {"error", "dropped", "lost"}, Ends(r, a),
         UNCHANGED <<order, patient, attempts, store, since>>
  PROVE  ChainIInv'
  <1>1. PermitInv'
    BY EndsPermit DEF Ends, ChainIInv
  <1> QED
    BY <1>1 DEF Ends, Goes, ChainIInv, ChainTypes, ReplayingOK

LEMMA MovesInv ==
  ASSUME ChainIInv, NEW r \in Requests,
         NEW p \in {"idem", "auth", "permit", "responding"}, Moves(r, p),
         Holding(r) <=> p = "responding"
  PROVE  ChainIInv'
  <1>1. PermitInv'
    BY MovesPermit DEF Moves, ChainIInv
  <1> QED
    BY <1>1 DEF Moves, Goes, ChainIInv, ChainTypes, ReplayingOK

LEMMA ChainInitIInv == Init => ChainIInv
  <1> SUFFICES ASSUME Init PROVE ChainIInv
    OBVIOUS
  <1>1. Holders = {}
    BY DEF Init, Holders, Holding
  <1> QED
    BY <1>1, FS_EmptySet DEF Init, ChainIInv, ChainTypes, ReplayingOK, PermitInv

LEMMA NextChainIInv == ChainIInv /\ [Next]_vars => ChainIInv'
  <1> SUFFICES ASSUME ChainIInv, [Next]_vars PROVE ChainIInv'
    OBVIOUS
  <1>t. ChainTypes /\ ReplayingOK /\ PermitInv
    BY DEF ChainIInv
  <1>1. CASE Tick
    <2>1. ASSUME NEW k \in Keys, store[k] # None
          PROVE  [by |-> store[k].by, age |-> Older(store[k].age, KeyTTL)] \in Response
      <3>1. store[k].by \in Requests /\ store[k].age \in 0..KeyTTL
        BY <2>1, <1>t DEF ChainTypes, Response
      <3> QED
        BY <3>1, OlderBounds DEF Response
    <2>2. store' \in [Keys -> Response \cup {None}]
      BY <1>1, <2>1 DEF Tick
    <2>3. since' \in [Requests -> 0..KeyTTL]
      BY <1>1, <1>t, OlderBounds DEF Tick, ChainTypes
    <2>4. PermitInv'
      BY <1>1, <1>t, SamePermit DEF Tick
    <2> QED
      BY <1>1, <1>t, <2>2, <2>3, <2>4 DEF Tick, ChainIInv, ChainTypes, ReplayingOK
  <1>2. ASSUME NEW r \in Requests, Proceed(r) PROVE ChainIInv'
    <2>1. CASE Route(r)
      BY <2>1, MovesInv, EndsInv DEF Route, Enters, Rejects, Holding
    <2>2. CASE Replay(r)
      <3>1. Key[r] \in Keys /\ store[Key[r]] \in Response
        BY <2>2, <1>t DEF Replay, Stored, ChainTypes
      <3>2. PermitInv'
        BY <2>2, <1>t, MovesPermit DEF Replay, Holding
      <3> QED
        BY <2>2, <3>1, <3>2, <1>t DEF Replay, Goes, ChainIInv, ChainTypes, ReplayingOK, Response
    <2>3. CASE Continue(r)
      <3>1. PermitInv'
        BY <2>3, <1>t, MovesPermit DEF Continue, Holding, AfterIdem
      <3> QED
        BY <2>3, <3>1, <1>t DEF Continue, Goes, AfterIdem, ChainIInv, ChainTypes, ReplayingOK
    <2>4. CASE AuthStep(r)
      BY <2>4, <1>t, SamePermit DEF AuthStep, chain, ChainIInv, ChainTypes, ReplayingOK
    <2>5. CASE Authorized(r)
      BY <2>5, MovesInv, EndsInv DEF Authorized, Rejects, Holding, AfterAuth
    <2>6. CASE HandlerOk(r)
      BY <2>6, MovesInv DEF HandlerOk, Holding
    <2>7. CASE HandlerRetry(r)
      <3>1. attempts[r] + 1 \in 0..(MaxRetries + 1)
        BY <2>7, <1>t DEF HandlerRetry, MayRetry, ChainTypes
      <3> QED
        BY <2>7, <3>1, <1>t, SamePermit DEF HandlerRetry, ChainIInv, ChainTypes, ReplayingOK
    <2>8. CASE HandlerFails(r) \/ ResponseFails(r)
      BY <2>8, EndsInv DEF HandlerFails, ResponseFails, Rejects
    <2>9. CASE Respond(r)
      <3>1. PermitInv'
        BY <2>9, <1>t, MovesPermit DEF Respond, Holding
      <3>2. [by |-> r, age |-> 0] \in Response
        BY DEF Response
      <3> QED
        BY <2>9, <3>1, <3>2, <1>t DEF Respond, Goes, ChainIInv, ChainTypes, ReplayingOK
    <2>10. CASE Write(r)
      BY <2>10, EndsInv DEF Write
    <2>11. CASE WriteReplay(r)
      BY <2>11, <1>t, EndsInv DEF WriteReplay, ReplayingOK
    <2> QED
      BY <1>2, <2>1, <2>2, <2>3, <2>4, <2>5, <2>6, <2>7, <2>8, <2>9, <2>10, <2>11 DEF Proceed
  <1>3. ASSUME NEW r \in Requests, Acquire(r) PROVE ChainIInv'
    <2>1. Holders' = Holders \cup {r} /\ r \notin Holders
      BY <1>3, <1>t DEF Acquire, Goes, Holders, Holding, ChainTypes
    <2>2. Cardinality(Holders \cup {r}) = Cardinality(Holders) + 1
      BY <2>1, HoldersFinite, FS_AddElement
    <2>3. PermitInv'
      BY <1>3, <1>t, <2>1, <2>2, HoldersFinite DEF Acquire, PermitInv
    <2> QED
      BY <1>3, <1>t, <2>3 DEF Acquire, Goes, ChainIInv, ChainTypes, ReplayingOK
  <1>4. ASSUME NEW r \in Requests, Drop(r) PROVE ChainIInv'
    BY <1>4, EndsInv DEF Drop
  <1>5. CASE UNCHANGED vars
    BY <1>5, <1>t, SamePermit DEF vars, chain, ChainIInv, ChainTypes, ReplayingOK
  <1> QED
    BY <1>1, <1>2, <1>3, <1>4, <1>5 DEF Next

LEMMA AlwaysChainIInv == Spec => []ChainIInv
  BY ChainInitIInv, NextChainIInv, PTL DEF Spec

\* All variables of the chain and its authorization keep their types.
THEOREM ChainTypeCorrect == Spec => []TypeOK
  <1>1. AuthInv /\ ChainIInv => TypeOK
    BY HoldersFinite DEF AuthInv, ChainIInv, ChainTypes, PermitInv, Response, TypeOK
  <1> QED
    BY <1>1, AlwaysAuthInv, AlwaysChainIInv, PTL

\* The concurrency limit holds: run_with_handler keeps its permit for as long
\* as its handler may run, and gives it back once.
THEOREM LimitHolds == Spec => []HandlersBounded
  <1>1. ChainIInv => HandlersBounded
    <2> SUFFICES ASSUME ChainIInv PROVE HandlersBounded
      OBVIOUS
    <2> DEFINE H == {r \in Requests : phase[r] = "handling"}
    <2>1. H \subseteq Holders
      BY DEF Holders, Holding
    <2>2. Cardinality(H) \in Nat /\ Cardinality(H) <= Cardinality(Holders)
      BY <2>1, HoldersFinite, FS_Subset, FS_CardinalityType
    <2>3. Cardinality(Holders) <= MaxPermits
      BY HoldersFinite DEF ChainIInv, PermitInv
    <2> QED
      BY <2>2, <2>3, HoldersFinite DEF HandlersBounded
  <1> QED
    BY <1>1, AlwaysChainIInv, PTL

-----------------------------------------------------------------------------
(* Replayed responses.                                                     *)

\* The request's own response has been stored: its handler and the response
\* stages went well.
Backed(s) ==
    \/ phase[s] = "writing"
    \/ phase[s] = "over" /\ answer[s] \in {s, "lost"}

\* Stored responses, and the answers taken from them, are backed.
ReplayInv ==
    /\ \A k \in Keys, s \in Requests :
          store[k] # None /\ store[k].by = s => Key[s] = k /\ Backed(s)
    /\ \A r, s \in Requests : answer[r] = s /\ r # s => Key[r] = Key[s] /\ Backed(s)

\* No step takes the backing away.
LEMMA BackedStays ==
  ASSUME ChainIInv, [Next]_vars, NEW s \in Requests, Backed(s)
  PROVE  Backed(s)'
  <1>t. ChainTypes
    BY DEF ChainIInv
  <1>1. CASE Tick
    BY <1>1 DEF Tick, Backed
  <1>2. ASSUME NEW r \in Requests, Proceed(r) PROVE Backed(s)'
    <2>1. CASE Write(r)
      BY <2>1, <1>t DEF Write, Ends, Goes, Backed, ChainTypes
    <2>2. CASE ~Write(r)
      <3>1. /\ phase[r] \notin {"writing", "over"}
            /\ \E p : phase' = [phase EXCEPT ![r] = p]
            /\ \E a : answer' = [answer EXCEPT ![r] = a]
        <4>1. CASE Route(r) \/ Authorized(r)
          BY <4>1, <1>t DEF Route, Authorized, Enters, Moves, Rejects, Ends, Goes, ChainTypes
        <4>2. CASE Replay(r) \/ Continue(r) \/ HandlerOk(r) \/ Respond(r)
          BY <4>2, <1>t DEF Replay, Continue, HandlerOk, Respond, Moves, Goes, ChainTypes
        <4>3. CASE AuthStep(r) \/ HandlerRetry(r)
          BY <4>3, <1>t DEF AuthStep, HandlerRetry, chain, ChainTypes
        <4>4. CASE HandlerFails(r) \/ ResponseFails(r) \/ WriteReplay(r)
          BY <4>4, <1>t DEF HandlerFails, ResponseFails, WriteReplay, Rejects, Ends, Goes,
             ChainTypes
        <4> QED
          BY <1>2, <2>2, <4>1, <4>2, <4>3, <4>4 DEF Proceed
      <3>2. s # r
        BY <3>1 DEF Backed
      <3> QED
        BY <3>1, <3>2, <1>t DEF Backed, ChainTypes
    <2> QED
      BY <2>1, <2>2
  <1>3. ASSUME NEW r \in Requests, Acquire(r) PROVE Backed(s)'
    BY <1>3, <1>t DEF Acquire, Goes, Backed, ChainTypes
  <1>4. ASSUME NEW r \in Requests, Drop(r) PROVE Backed(s)'
    BY <1>4, <1>t DEF Drop, Ends, Goes, Backed, ChainTypes
  <1>5. CASE UNCHANGED vars
    BY <1>5 DEF vars, chain, Backed
  <1> QED
    BY <1>1, <1>2, <1>3, <1>4, <1>5 DEF Next

\* A step that stores nothing new and takes nothing from the store.
LEMMA NothingNew ==
  ASSUME ChainIInv, ReplayInv, [Next]_vars,
         \A k \in Keys : store'[k] # None => store[k] # None /\ store'[k].by = store[k].by,
         \A r \in Requests : answer'[r] \notin {answer[r], "error", "dropped", "lost"} =>
                answer'[r] = r
  PROVE  ReplayInv'
  <1>2. ASSUME NEW k \in Keys, NEW s \in Requests, store'[k] # None, store'[k].by = s
        PROVE  Key[s] = k /\ Backed(s)'
    <2>1. store[k] # None /\ store[k].by = s
      BY <1>2
    <2> QED
      BY <2>1, BackedStays DEF ReplayInv
  <1>3. ASSUME NEW r \in Requests, NEW s \in Requests, answer'[r] = s, r # s
        PROVE  Key[r] = Key[s] /\ Backed(s)'
    <2>1. answer[r] = s
      BY <1>3
    <2> QED
      BY <1>3, <2>1, BackedStays DEF ReplayInv
  <1> QED
    BY <1>2, <1>3 DEF ReplayInv

LEMMA NextReplayInv == ChainIInv /\ ReplayInv /\ [Next]_vars => ReplayInv'
  <1> SUFFICES ASSUME ChainIInv, ReplayInv, [Next]_vars PROVE ReplayInv'
    OBVIOUS
  <1>t. ChainTypes /\ ReplayingOK
    BY DEF ChainIInv
  <1>1. ASSUME NEW r \in Requests, Replay(r) PROVE ReplayInv'
    <2>1. /\ Key[r] \in Keys
          /\ store[Key[r]] # None
          /\ store[Key[r]].by \in Requests
          /\ store' = store
          /\ answer' = [answer EXCEPT ![r] = store[Key[r]].by]
      BY <1>1, <1>t DEF Replay, Stored, ChainTypes, Response
    <2>2. \A k \in Keys, s \in Requests :
            store'[k] # None /\ store'[k].by = s => Key[s] = k /\ Backed(s)'
      BY <2>1, BackedStays DEF ReplayInv
    <2>3. ASSUME NEW q \in Requests, NEW s \in Requests, answer'[q] = s, q # s
          PROVE  Key[q] = Key[s] /\ Backed(s)'
      <3>1. CASE q = r
        BY <3>1, <2>1, <2>3, <1>t, BackedStays DEF ReplayInv, ChainTypes
      <3>2. CASE q # r
        BY <3>2, <2>1, <2>3, <1>t, BackedStays DEF ReplayInv, ChainTypes
      <3> QED
        BY <3>1, <3>2
    <2> QED
      BY <2>2, <2>3 DEF ReplayInv
  <1>2. ASSUME NEW r \in Requests, Respond(r) PROVE ReplayInv'
    <2>1. /\ answer' = answer
          /\ phase' = [phase EXCEPT ![r] = "writing"]
          /\ store' = IF Key[r] = None THEN store
                      ELSE [store EXCEPT ![Key[r]] = [by |-> r, age |-> 0]]
      BY <1>2 DEF Respond, Goes
    <2>2. Backed(r)'
      BY <2>1, <1>t DEF Backed, ChainTypes
    <2>3. ASSUME NEW k \in Keys, NEW s \in Requests, store'[k] # None, store'[k].by = s
          PROVE  Key[s] = k /\ Backed(s)'
      <3>1. CASE k = Key[r]
        <4>1. store'[k] = [by |-> r, age |-> 0]
          BY <3>1, <2>1, <1>t DEF ChainTypes
        <4>2. s = r
          BY <4>1, <2>3
        <4> QED
          BY <3>1, <4>2, <2>2
      <3>2. CASE k # Key[r]
        <4>1. store'[k] = store[k]
          BY <3>2, <2>1, <1>t DEF ChainTypes
        <4> QED
          BY <4>1, <2>3, BackedStays DEF ReplayInv
      <3> QED
        BY <3>1, <3>2
    <2>4. \A q, s \in Requests : answer'[q] = s /\ q # s => Key[q] = Key[s] /\ Backed(s)'
      BY <2>1, BackedStays DEF ReplayInv
    <2> QED
      BY <2>3, <2>4 DEF ReplayInv
  <1>3. CASE Tick
    <2>1. \A k \in Keys : store'[k] # None => store[k] # None /\ store'[k].by = store[k].by
      BY <1>3 DEF Tick
    <2> QED
      BY <1>3, <2>1, NothingNew DEF Tick
  <1>4. ASSUME NEW r \in Requests, Continue(r) PROVE ReplayInv'
    <2>1. \A k \in Keys : store'[k] # None => store[k] # None /\ store'[k].by = store[k].by
      BY <1>4, <1>t DEF Continue, ChainTypes
    <2> QED
      BY <1>4, <2>1, NothingNew DEF Continue
  <1>5. ASSUME NEW r \in Requests, NEW a \in {r, answer[r], "error", "dropped", "lost"},
               Ends(r, a), UNCHANGED store
        PROVE  ReplayInv'
    <2>1. \A q \in Requests : answer'[q] \notin {answer[q], "error", "dropped", "lost"} =>
                answer'[q] = q
      BY <1>5, <1>t DEF Ends, ChainTypes
    <2> QED
      BY <1>5, <2>1, NothingNew
  <1>6. CASE UNCHANGED <<answer, store>>
    BY <1>6, NothingNew
  <1>7. ASSUME NEW r \in Requests, Proceed(r) PROVE ReplayInv'
    <2>1. CASE Route(r)
      BY <2>1, <1>5, <1>6 DEF Route, Enters, Moves, Rejects
    <2>2. CASE Authorized(r)
      BY <2>2, <1>5, <1>6 DEF Authorized, Moves, Rejects
    <2>3. CASE HandlerFails(r) \/ ResponseFails(r) \/ Write(r) \/ WriteReplay(r)
      BY <2>3, <1>5 DEF HandlerFails, ResponseFails, Write, WriteReplay, Rejects
    <2>4. CASE AuthStep(r) \/ HandlerOk(r) \/ HandlerRetry(r)
      BY <2>4, <1>6 DEF AuthStep, HandlerOk, HandlerRetry, Moves, chain
    <2> QED
      BY <1>7, <2>1, <2>2, <2>3, <2>4, <1>1, <1>2, <1>4 DEF Proceed
  <1>8. ASSUME NEW r \in Requests, Acquire(r) PROVE ReplayInv'
    BY <1>8, <1>6 DEF Acquire
  <1>9. ASSUME NEW r \in Requests, Drop(r) PROVE ReplayInv'
    BY <1>9, <1>5 DEF Drop
  <1>10. CASE UNCHANGED vars
    BY <1>10, <1>6 DEF vars, chain
  <1> QED
    BY <1>3, <1>7, <1>8, <1>9, <1>10 DEF Next

\* A replayed response is that of a request with the same key which was handled
\* well, whatever failed, timed out or was dropped: run_with_handler stores a
\* response only once nothing but its write is left.
THEOREM ReplaysAreAnswers == Spec => []ReplayIsAnswer
  <1>1. Init => ReplayInv
    BY DEF Init, ReplayInv
  <1>2. ReplayInv => ReplayIsAnswer
    BY DEF ReplayInv, ReplayIsAnswer, Backed
  <1> QED
    BY <1>1, <1>2, AlwaysChainIInv, NextReplayInv, PTL DEF Spec

-----------------------------------------------------------------------------
(* One handling per window.                                                *)

\* The idempotency stage lies behind the request and the handler before it.
PastIdem(r) ==
    \/ phase[r] = "permit"
    \/ phase[r] = "auth" /\ order = "idem_first"

\* Of a patient client's repetitions one is under way at a time.
OneUnderWay ==
    patient => \A r \in Requests : phase[r] \notin {"new", "over"} =>
        \A s \in Rivals(r) : phase[s] \in {"new", "over"}

\* While a response that was stored is within its time to live, the store has
\* one for its key that is no older.
WindowKept ==
    \A s \in Requests : Key[s] # None /\ since[s] < KeyTTL =>
        /\ store[Key[s]] # None
        /\ store[Key[s]].age <= since[s]

\* A request came past the idempotency stage only because no response lived.
PassedRightly ==
    patient => \A r \in Requests : PastIdem(r) =>
        \A s \in Rivals(r) : answer[s] \in {s, "lost"} => since[s] >= KeyTTL

WindowInv == OneUnderWay /\ WindowKept /\ PassedRightly

LEMMA NextOneUnderWay == ChainIInv /\ OneUnderWay /\ [Next]_vars => OneUnderWay'
  <1> SUFFICES ASSUME ChainIInv, OneUnderWay, [Next]_vars PROVE OneUnderWay'
    OBVIOUS
  <1>t. ChainTypes
    BY DEF ChainIInv
  <1>1. CASE UNCHANGED <<phase, patient>>
    BY <1>1 DEF OneUnderWay, Rivals
  <1>2. ASSUME NEW r \in Requests, NEW p, phase' = [phase EXCEPT ![r] = p],
               UNCHANGED patient,
               phase[r] # "new" \/ p = "over" \/ Route(r), phase[r] # "over"
        PROVE  OneUnderWay'
    <2>1. CASE phase[r] # "new" \/ p = "over"
      BY <2>1, <1>2, <1>t DEF OneUnderWay, Rivals, ChainTypes
    <2>2. CASE Route(r)
      BY <2>2, <1>2, <1>t DEF Route, OneUnderWay, Rivals, ChainTypes
    <2> QED
      BY <1>2, <2>1, <2>2
  <1>3. ASSUME NEW r \in Requests, Proceed(r) PROVE OneUnderWay'
    <2>1. CASE Route(r)
      BY <2>1, <1>2 DEF Route, Enters, Rejects, Moves, Ends, Goes
    <2>2. CASE Replay(r) \/ Continue(r) \/ HandlerOk(r) \/ Respond(r) \/ Authorized(r)
      BY <2>2, <1>2 DEF Replay, Continue, HandlerOk, Respond, Authorized, Moves, Rejects,
         Ends, Goes
    <2>3. CASE AuthStep(r) \/ HandlerRetry(r)
      BY <2>3, <1>1 DEF AuthStep, HandlerRetry, chain
    <2>4. CASE HandlerFails(r) \/ ResponseFails(r) \/ Write(r) \/ WriteReplay(r)
      BY <2>4, <1>2 DEF HandlerFails, ResponseFails, Write, WriteReplay, Rejects, Ends, Goes
    <2> QED
      BY <1>3, <2>1, <2>2, <2>3, <2>4 DEF Proceed
  <1>4. ASSUME NEW r \in Requests, Acquire(r) PROVE OneUnderWay'
    BY <1>4, <1>2 DEF Acquire, Goes
  <1>5. ASSUME NEW r \in Requests, Drop(r) PROVE OneUnderWay'
    BY <1>5, <1>2 DEF Drop, Ends, Goes
  <1>6. CASE Tick
    BY <1>6, <1>1 DEF Tick
  <1>7. CASE UNCHANGED vars
    BY <1>7, <1>1 DEF vars, chain
  <1> QED
    BY <1>3, <1>4, <1>5, <1>6, <1>7 DEF Next

\* Time lets the stored response and the time since it was stored grow alike.
LEMMA TickWindow == ASSUME ChainIInv, WindowKept, Tick PROVE WindowKept'
  <1>t. ChainTypes
    BY DEF ChainIInv
  <1> SUFFICES ASSUME NEW s \in Requests, Key[s] # None, since'[s] < KeyTTL
               PROVE  store'[Key[s]] # None /\ store'[Key[s]].age <= since'[s]
    BY DEF WindowKept
  <1>1. Key[s] \in Keys /\ since[s] \in 0..KeyTTL /\ since'[s] = Older(since[s], KeyTTL)
    BY <1>t DEF Tick, ChainTypes
  <1>2. since[s] < KeyTTL /\ since'[s] = since[s] + 1
    BY <1>1 DEF Older
  <1>3. store[Key[s]] # None /\ store[Key[s]].age <= since[s]
    BY <1>2 DEF WindowKept
  <1>4. store[Key[s]].by \in Requests /\ store[Key[s]].age \in 0..KeyTTL
    BY <1>1, <1>3, <1>t DEF ChainTypes, Response
  <1>5. store'[Key[s]] = [by |-> store[Key[s]].by, age |-> Older(store[Key[s]].age, KeyTTL)]
    BY <1>1, <1>3 DEF Tick
  <1>6. /\ Older(store[Key[s]].age, KeyTTL) \in 0..KeyTTL
        /\ Older(store[Key[s]].age, KeyTTL) <= store[Key[s]].age + 1
    BY <1>4, OlderBounds
  <1>7. store'[Key[s]] \in Response
    BY <1>4, <1>5, <1>6 DEF Response
  <1> QED
    BY <1>1, <1>2, <1>3, <1>4, <1>5, <1>6, <1>7

LEMMA NextWindowKept == ChainIInv /\ WindowKept /\ [Next]_vars => WindowKept'
  <1> SUFFICES ASSUME ChainIInv, WindowKept, [Next]_vars PROVE WindowKept'
    OBVIOUS
  <1>t. ChainTypes
    BY DEF ChainIInv
  <1>1. CASE UNCHANGED <<store, since>>
    BY <1>1 DEF WindowKept
  <1>2. ASSUME NEW r \in Requests, Continue(r) PROVE WindowKept'
    <2>1. ASSUME NEW s \in Requests, Key[s] # None, since'[s] < KeyTTL
          PROVE  store'[Key[s]] # None /\ store'[Key[s]].age <= since'[s]
      <3>1. since[s] < KeyTTL /\ since'[s] = since[s] /\ since[s] \in Nat /\ Key[s] \in Keys
        BY <1>2, <2>1, <1>t DEF Continue, ChainTypes
      <3>2. store[Key[s]] # None /\ store[Key[s]].age <= since[s]
        BY <2>1, <3>1 DEF WindowKept
      <3>3. store[Key[s]].age \in Nat
        BY <3>1, <3>2, <1>t DEF ChainTypes, Response
      <3>4. Live(store[Key[s]])
        BY <3>1, <3>2, <3>3 DEF Live
      <3>5. Key[s] # Key[r]
        BY <1>2, <2>1, <3>2, <3>4 DEF Continue, Stored
      <3>6. store'[Key[s]] = store[Key[s]]
        BY <1>2, <3>1, <3>5, <1>t DEF Continue, ChainTypes
      <3> QED
        BY <3>1, <3>2, <3>6
    <2> QED
      BY <2>1 DEF WindowKept
  <1>3. ASSUME NEW r \in Requests, Respond(r) PROVE WindowKept'
    <2>1. ASSUME NEW s \in Requests, Key[s] # None, since'[s] < KeyTTL
          PROVE  store'[Key[s]] # None /\ store'[Key[s]].age <= since'[s]
      <3>1. since'[s] \in Nat /\ Key[s] \in Keys
        BY <1>3, <2>1, <1>t DEF Respond, ChainTypes
      <3>2. CASE Key[s] = Key[r]
        <4>1. store'[Key[s]] = [by |-> r, age |-> 0]
          BY <1>3, <3>1, <3>2, <2>1, <1>t DEF Respond, ChainTypes
        <4>2. [by |-> r, age |-> 0] \in Response
          BY DEF Response
        <4> QED
          BY <3>1, <4>1, <4>2
      <3>3. CASE Key[s] # Key[r]
        <4>1. s # r /\ since'[s] = since[s] /\ store'[Key[s]] = store[Key[s]]
          BY <1>3, <3>1, <3>3, <1>t DEF Respond, ChainTypes
        <4> QED
          BY <2>1, <4>1 DEF WindowKept
      <3> QED
        BY <3>2, <3>3
    <2> QED
      BY <2>1 DEF WindowKept
  <1>4. ASSUME NEW r \in Requests, Proceed(r) PROVE WindowKept'
    BY <1>4, <1>1, <1>2, <1>3 DEF Proceed, Route, Enters, Moves, Rejects, Replay, AuthStep,
       Authorized, HandlerOk, HandlerRetry, HandlerFails, ResponseFails, Write, WriteReplay, chain
  <1>5. ASSUME NEW r \in Requests, Acquire(r) \/ Drop(r) PROVE WindowKept'
    BY <1>5, <1>1 DEF Acquire, Drop
  <1>6. CASE UNCHANGED vars
    BY <1>6, <1>1 DEF vars, chain
  <1> QED
    BY <1>4, <1>5, <1>6, TickWindow DEF Next

\* Where nothing live is stored, no repetition's response is within its window.
LEMMA NothingLives ==
  ASSUME ChainIInv, WindowKept, NEW r \in Requests, ~Stored(r), NEW s \in Rivals(r)
  PROVE  since[s] >= KeyTTL
  <1>t. ChainTypes
    BY DEF ChainIInv
  <1>1. s \in Requests /\ Key[s] = Key[r] /\ Key[r] # None /\ Key[s] \in Keys
    BY DEF Rivals
  <1>2. since[s] \in Nat
    BY <1>1, <1>t DEF ChainTypes
  <1>3. CASE since[s] < KeyTTL
    <2>1. store[Key[s]] # None /\ store[Key[s]].age <= since[s]
      BY <1>1, <1>3 DEF WindowKept
    <2>2. store[Key[s]].age \in Nat
      BY <1>1, <2>1, <1>t DEF ChainTypes, Response
    <2> QED
      BY <1>1, <1>2, <1>3, <2>1, <2>2 DEF Stored, Live
  <1> QED
    BY <1>2, <1>3

LEMMA NextPassedRightly == ChainIInv /\ WindowInv /\ [Next]_vars => PassedRightly'
  <1> SUFFICES ASSUME ChainIInv, WindowInv, [Next]_vars, patient',
                      NEW r \in Requests, PastIdem(r)',
                      NEW s \in Rivals(r), answer'[s] \in {s, "lost"}
               PROVE  since'[s] >= KeyTTL
    BY DEF PassedRightly, Rivals
  <1>t. ChainTypes /\ OneUnderWay /\ WindowKept /\ PassedRightly
    BY DEF ChainIInv, WindowInv
  <1>r. s \in Requests /\ s # r
    BY DEF Rivals
  <1>1. patient /\ order' = order
    BY DEF Next, Proceed, Route, Enters, Moves, Rejects, Replay, Continue, AuthStep, Authorized,
       HandlerOk, HandlerRetry, HandlerFails, ResponseFails, Respond, Write, WriteReplay,
       Acquire, Drop, Tick, vars, chain
  \* What was so before the step, the step keeps.
  <1>2. ASSUME PastIdem(r), answer[s] \in {s, "lost"},
               since'[s] = since[s] \/ since'[s] = Older(since[s], KeyTTL)
        PROVE  since'[s] >= KeyTTL
    <2>1. since[s] >= KeyTTL /\ since[s] \in 0..KeyTTL
      BY <1>1, <1>2, <1>r, <1>t DEF PassedRightly, ChainTypes
    <2> QED
      BY <1>2, <2>1 DEF Older
  <1>3. CASE Tick
    BY <1>2, <1>3, <1>r DEF Tick, PastIdem
  <1>4. ASSUME NEW q \in Requests, Proceed(q) PROVE since'[s] >= KeyTTL
    <2>1. CASE q = r
      <3>1. answer'[s] = answer[s] /\ since'[s] = since[s]
        BY <1>4, <2>1, <1>r, <1>t DEF Proceed, Route, Enters, Moves, Rejects, Ends, Replay,
           Continue, AuthStep, Authorized, HandlerOk, HandlerRetry, HandlerFails,
           ResponseFails, Respond, Write, WriteReplay, chain, ChainTypes
      <3>2. CASE Continue(r)
        <4>1. ~Stored(r)
          BY <3>2 DEF Continue
        <4>2. since[s] >= KeyTTL
          BY <4>1, <1>t, NothingLives
        <4> QED
          BY <3>1, <4>2
      <3>3. CASE ~Continue(r)
        <4>1. PastIdem(r)
          BY <1>4, <2>1, <3>3, <1>1, <1>t DEF PastIdem, Proceed, Route, Enters, Moves, Rejects,
             Ends, Goes, Replay, AuthStep, Authorized, AfterAuth, HandlerOk, HandlerRetry,
             HandlerFails, ResponseFails, Respond, Write, WriteReplay, chain, ChainTypes
        <4> QED
          BY <1>2, <3>1, <4>1
      <3> QED
        BY <3>2, <3>3
    <2>2. CASE q # r
      <3>1. phase'[r] = phase[r] /\ PastIdem(r)
        BY <1>4, <2>2, <1>1, <1>t DEF PastIdem, Proceed, Route, Enters, Moves, Rejects,
           Ends, Goes, Replay, Continue, AuthStep, Authorized, HandlerOk, HandlerRetry,
           HandlerFails, ResponseFails, Respond, Write, WriteReplay, chain, ChainTypes
      <3>2. phase[s] \in {"new", "over"}
        BY <3>1, <1>1, <1>t DEF OneUnderWay, PastIdem
      <3>3. answer[s] = answer'[s] /\ since'[s] = since[s]
        <4>1. CASE q = s
          <5>1. Route(s)
            BY <1>4, <3>2, <4>1 DEF Proceed, Replay, Continue, AuthStep, Authorized,
               HandlerOk, HandlerRetry, HandlerFails, ResponseFails, Respond, Write,
               WriteReplay
          <5>2. CASE Rejects(s)
            <6>1. answer'[s] = "error"
              BY <5>2, <1>r, <1>t DEF Rejects, Ends, ChainTypes
            <6> QED
              BY <6>1, <1>r
          <5> QED
            BY <5>1, <5>2 DEF Route, Enters, Moves
        <4>2. CASE q # s
          BY <1>4, <4>2, <1>r, <1>t DEF Proceed, Route, Enters, Moves, Rejects, Ends,
             Replay, Continue, AuthStep, Authorized, HandlerOk, HandlerRetry, HandlerFails,
             ResponseFails, Respond, Write, WriteReplay, chain, ChainTypes
        <4> QED
          BY <4>1, <4>2
      <3> QED
        BY <1>2, <3>1, <3>3
    <2> QED
      BY <2>1, <2>2
  <1>5. ASSUME NEW q \in Requests, Acquire(q) PROVE since'[s] >= KeyTTL
    BY <1>5, <1>1, <1>2, <1>r, <1>t DEF Acquire, Goes, PastIdem, ChainTypes
  <1>6. ASSUME NEW q \in Requests, Drop(q) PROVE since'[s] >= KeyTTL
    <2>1. PastIdem(r) /\ since'[s] = since[s]
      BY <1>6, <1>1, <1>t DEF Drop, Ends, Goes, PastIdem, ChainTypes
    <2>2. answer[s] \in {s, "lost"}
      BY <1>6, <1>r, <1>t DEF Drop, Ends, ChainTypes
    <2> QED
      BY <1>2, <2>1, <2>2
  <1>7. CASE UNCHANGED vars
    BY <1>7, <1>2 DEF vars, chain, PastIdem
  <1> QED
    BY <1>3, <1>4, <1>5, <1>6, <1>7 DEF Next

LEMMA AlwaysWindowInv == Spec => [](ChainIInv /\ WindowInv)
  <1>1. Init => ChainIInv /\ WindowInv
    BY ChainInitIInv DEF Init, WindowInv, OneUnderWay, WindowKept, PassedRightly, PastIdem
  <1>2. ChainIInv /\ WindowInv /\ [Next]_vars => (ChainIInv /\ WindowInv)'
    BY NextChainIInv, NextOneUnderWay, NextWindowKept, NextPassedRightly DEF WindowInv
  <1> QED
    BY <1>1, <1>2, PTL DEF Spec

\* A request of a patient client is handled again only after the stored
\* response's time to live, wherever the idempotency stage stands, and even if
\* the first response was lost on its way.
THEOREM HandledOncePerWindow == Spec => OncePerWindow
  <1>1. ASSUME ChainIInv, WindowInv, [Next]_vars, patient,
               NEW r \in Requests, phase[r] = "permit", NEW s \in Rivals(r),
               answer[s] \in {s, "lost"}
        PROVE  since[s] >= KeyTTL
    BY <1>1 DEF WindowInv, PassedRightly, PastIdem
  <1>2. ChainIInv /\ WindowInv /\ [Next]_vars =>
          [\A r \in Requests : patient /\ phase[r] = "permit" /\ phase'[r] = "handling" =>
              \A s \in Rivals(r) : answer[s] \in {s, "lost"} => since[s] >= KeyTTL]_vars
    BY <1>1
  <1> QED
    BY <1>2, AlwaysWindowInv, PTL DEF Spec, OncePerWindow

\* What lets a request reach its handler, for all requests, limits, costs and times to
\* live, whatever fails, times out or is dropped.
THEOREM ChainSafe == Spec => []ChainInv
  <1>1. TypeOK /\ HandlersBounded /\ AllowIsFresh /\ RidersPaid => ChainInv
    BY DEF ChainInv
  <1> QED
    BY <1>1, ChainTypeCorrect, LimitHolds, FreshAllowances, PaidAllowances, PTL
=============================================================================
