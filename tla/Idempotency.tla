----------------------------- MODULE Idempotency -----------------------------
(***************************************************************************)
(* The idempotency store of sb-tx and the clients that guard a write with  *)
(* it: check_and_put, the write, finish or fail.  One tenant and one key,  *)
(* since records of other keys are never looked at.                        *)
(*                                                                         *)
(* The memory store decides under one write lock.  The SurrealDB store     *)
(* sends up to three statements (fetch, delete, create), between which     *)
(* every other client may step.  "backend" says which of the two a         *)
(* behaviour uses.                                                         *)
(*                                                                         *)
(* A client makes one request and repeats it while the answer is "busy".   *)
(* Definitions commented as slips are not part of the specification, see   *)
(* Outbox.                                                                 *)
(***************************************************************************)
EXTENDS Naturals

CONSTANTS
    Clients,
    Backends,     \* the stores to consider, of "memory" and "surreal"
    Hash,         \* request hash of each client
    TTL,          \* ttl_ms
    Prompt,       \* environment: a write ends before its record expires
    MaxCrashes,   \* bound: clients that die during their write
    None

Hashes == {Hash[c] : c \in Clients}

Outcomes == {"executed", "refused", "last_failed"}   \* answers but digests

ASSUME IdempotencyAssumption ==
    /\ Backends \subseteq {"memory", "surreal"}
    /\ TTL \in Nat \ {0}
    /\ MaxCrashes \in Nat
    /\ Prompt \in BOOLEAN
    /\ Outcomes \cap Hashes = {}

VARIABLES
    backend,
    record,     \* the row of the key, or None
    pc,         \* where each client is
    held,       \* time since a running client's check_and_put
    answer,     \* what a client that is over was told
    rested,     \* time since a write last ended with finish or fail
    robbed,     \* the SurrealDB store deleted a record that was not expired
    crashes

client == <<pc, held, answer>>
vars == <<backend, record, client, rested, robbed, crashes>>

AgeCap == TTL + 1     \* older than this makes no difference

Record ==
    [hash : Hashes, status : {"InFlight", "Succeeded", "Failed"},
     digest : Hashes \cup {None}, age : 0..AgeCap]

ASSUME NoneAssumption == None \notin Hashes \cup Record

TypeOK ==
    /\ backend \in Backends
    /\ record \in Record \cup {None}
    /\ pc \in [Clients -> {"calling", "sweeping", "creating", "running", "over"}]
    /\ held \in [Clients -> 0..TTL]
    /\ answer \in [Clients -> Outcomes \cup Hashes \cup {None}]
    /\ rested \in 0..AgeCap
    /\ robbed \in BOOLEAN
    /\ crashes \in 0..MaxCrashes

Init ==
    /\ backend \in Backends
    /\ record = None
    /\ pc = [c \in Clients |-> "calling"]
    /\ held = [c \in Clients |-> 0]
    /\ answer = [c \in Clients |-> None]
    /\ rested = AgeCap
    /\ robbed = FALSE
    /\ crashes = 0

-----------------------------------------------------------------------------
(* check_and_put.                                                          *)

\* Slip: a record is kept for ever.
ExpiredNever(age) == FALSE

\* The memory store lets a record live one millisecond longer.
Expired(age) == IF backend = "memory" THEN age > TTL ELSE age >= TTL

\* No live record stands in the way.
Free == IF record = None THEN TRUE ELSE Expired(record.age)

Goes(c, p) == pc' = [pc EXCEPT ![c] = p]

\* build_record: what a client that may execute leaves in the store.
Fresh(c) == [hash |-> Hash[c], status |-> "InFlight", digest |-> None, age |-> 0]

\* The client is told "not seen before" and starts its write.
Starts(c) ==
    /\ record' = Fresh(c)
    /\ Goes(c, "running")
    /\ UNCHANGED <<held, answer>>

\* Slip: the hash of the request is not compared.
AnsweredUnchecked(c) ==
    /\ record.status # "InFlight"
    /\ answer' = [answer EXCEPT ![c] =
            IF record.status = "Succeeded" THEN record.digest ELSE "last_failed"]
    /\ Goes(c, "over")
    /\ UNCHANGED <<record, held>>

\* What a live record answers; "busy" is no step, the client just calls again.
Answered(c) ==
    /\ record.hash = Hash[c] => record.status # "InFlight"
    /\ answer' = [answer EXCEPT ![c] =
            IF record.hash # Hash[c] THEN "refused"
            ELSE IF record.status = "Succeeded" THEN record.digest ELSE "last_failed"]
    /\ Goes(c, "over")
    /\ UNCHANGED <<record, held>>

\* Slip: a record in flight does not stop a second writer.
CheckAndPutThrough(c) ==
    /\ backend = "memory"
    /\ pc[c] = "calling"
    /\ \/ /\ IF Free THEN TRUE ELSE record.status = "InFlight"
          /\ Starts(c)
       \/ ~Free /\ Answered(c)
    /\ UNCHANGED <<backend, rested, robbed, crashes>>

\* The memory store: expiry, comparison and insertion under one lock.
CheckAndPut(c) ==
    /\ backend = "memory"
    /\ pc[c] = "calling"
    /\ \/ Free /\ Starts(c)
       \/ ~Free /\ Answered(c)
    /\ UNCHANGED <<backend, rested, robbed, crashes>>

\* The SurrealDB store: the row is fetched and judged, ...
Fetch(c) ==
    /\ backend = "surreal"
    /\ pc[c] = "calling"
    /\ \/ /\ Free
          /\ Goes(c, IF record = None THEN "creating" ELSE "sweeping")
          /\ UNCHANGED <<record, held, answer>>
       \/ ~Free /\ Answered(c)
    /\ UNCHANGED <<backend, rested, robbed, crashes>>

\* ... an expired one is deleted, whatever is there by then, ...
Sweep(c) ==
    /\ pc[c] = "sweeping"
    /\ record' = None
    /\ robbed' = (robbed \/ ~Free)
    /\ Goes(c, "creating")
    /\ UNCHANGED <<backend, held, answer, rested, crashes>>

\* ... and a new one created, which fails as busy where one exists.
Create(c) ==
    /\ pc[c] = "creating"
    /\ IF record = None THEN Starts(c)
                        ELSE Goes(c, "calling") /\ UNCHANGED <<record, held, answer>>
    /\ UNCHANGED <<backend, rested, robbed, crashes>>

-----------------------------------------------------------------------------
(* The write and its end.                                                  *)

\* Slip: updated_at is left alone.
EndsAsStale(c, status, digest) ==
    record' = IF record = None THEN None
              ELSE [record EXCEPT !.status = status, !.digest = digest]

\* Neither call looks at the owner or the status of the record.  Without a
\* record the memory store returns an error and the SurrealDB store none.
EndsAs(c, status, digest) ==
    record' = IF record = None THEN None
              ELSE [hash |-> record.hash, status |-> status, digest |-> digest,
                    age |-> 0]

Over(c) ==
    /\ Goes(c, "over")
    /\ answer' = [answer EXCEPT ![c] = "executed"]
    /\ held' = [held EXCEPT ![c] = 0]
    /\ rested' = 0
    /\ UNCHANGED <<backend, robbed, crashes>>

Finish(c) ==
    /\ pc[c] = "running"
    /\ EndsAs(c, "Succeeded", Hash[c])
    /\ Over(c)

\* fail keeps a digest that is there.
Fail(c) ==
    /\ pc[c] = "running"
    /\ EndsAs(c, "Failed", IF record = None THEN None ELSE record.digest)
    /\ Over(c)

\* The client dies during its write, and comes back to repeat the request.
Crash(c) ==
    /\ pc[c] = "running"
    /\ crashes < MaxCrashes
    /\ crashes' = crashes + 1
    /\ Goes(c, "calling")
    /\ held' = [held EXCEPT ![c] = 0]
    /\ UNCHANGED <<backend, record, answer, rested, robbed>>

-----------------------------------------------------------------------------

Older(age) == IF age < AgeCap THEN age + 1 ELSE age

Tick ==
    /\ \A c \in Clients :
          pc[c] = "running" => held[c] < TTL /\ (Prompt => held[c] + 1 < TTL)
    /\ record' = IF record = None THEN None
                 ELSE [hash |-> record.hash, status |-> record.status,
                       digest |-> record.digest, age |-> Older(record.age)]
    /\ held' = [c \in Clients |->
                  IF pc[c] = "running" THEN held[c] + 1 ELSE held[c]]
    /\ rested' = Older(rested)
    /\ UNCHANGED <<backend, pc, answer, robbed, crashes>>

ClientStep(c) ==
    \/ CheckAndPut(c)
    \/ Fetch(c)
    \/ Sweep(c)
    \/ Create(c)
    \/ Finish(c)
    \/ Fail(c)

Next == \/ \E c \in Clients : ClientStep(c) \/ Crash(c)
        \/ Tick

Spec == Init /\ [][Next]_vars

\* Clients repeat their calls and end their writes, and time passes.
FairSpec == Spec /\ (\A c \in Clients : WF_vars(ClientStep(c))) /\ WF_vars(Tick)

-----------------------------------------------------------------------------
(* Correctness.  The SurrealDB store keeps the safety promises until one   *)
(* of its clients deletes a record that another created after the fetch.   *)

Sound == backend = "memory" \/ ~robbed

\* At most one client writes under the key at a time.
OneWriter ==
    \A c, d \in Clients : pc[c] = "running" /\ pc[d] = "running" => c = d

SoundOneWriter == Sound => OneWriter

\* The exclusion, with the types it rests on.
IdempotencyInv == TypeOK /\ SoundOneWriter

\* A client that is given an earlier result gets one of its own request.
AnswerIsOurs ==
    Sound => \A c \in Clients : answer[c] \in Hashes => answer[c] = Hash[c]

\* Three retries take effect once: after a write has ended, with finish or with
\* fail, no other starts until the record's full time to live has passed.
RestsForTTL ==
    [][\A c \in Clients :
          Sound /\ pc[c] # "running" /\ pc'[c] = "running" => Expired(rested)]_vars

\* Every request is answered at last: what a dead client left is not busy for
\* ever, with either store.
AllAnswered == \A c \in Clients : <>(pc[c] = "over")

=============================================================================
