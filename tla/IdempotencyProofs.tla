-------------------------- MODULE IdempotencyProofs --------------------------
(***************************************************************************)
(* The safety of Idempotency for every set of clients, requests and time   *)
(* to live: of the memory store's always, of the SurrealDB store's up to a *)
(* delete of a record that is not expired.                                 *)
(***************************************************************************)
EXTENDS Idempotency, TLAPS

USE IdempotencyAssumption, NoneAssumption

-----------------------------------------------------------------------------
(* Types.                                                                  *)

LEMMA HashOfClient == ASSUME NEW c \in Clients PROVE Hash[c] \in Hashes
  BY DEF Hashes

LEMMA FreshIsRecord == ASSUME NEW c \in Clients PROVE Fresh(c) \in Record
  BY HashOfClient DEF Fresh, Record, AgeCap

LEMMA OlderType ==
  ASSUME NEW n \in 0..AgeCap
  PROVE  /\ Older(n) \in 0..AgeCap
         /\ n <= Older(n)
  BY DEF Older, AgeCap

LEMMA InitTypes == Init => TypeOK
  <1> SUFFICES ASSUME Init PROVE TypeOK
    OBVIOUS
  <1>1. AgeCap \in 0..AgeCap /\ 0 \in 0..TTL /\ 0 \in 0..MaxCrashes
    BY DEF AgeCap
  <1> QED
    BY <1>1 DEF Init, TypeOK

\* What check_and_put answers for a live record.
LEMMA AnsweredTypes ==
  ASSUME TypeOK, NEW c \in Clients, Answered(c), record # None,
         UNCHANGED <<backend, rested, robbed, crashes>>
  PROVE  TypeOK'
  <1>1. record \in Record
    BY DEF TypeOK
  <1>2. /\ record.hash = Hash[c] => record.status # "InFlight"
        /\ answer' = [answer EXCEPT ![c] =
              IF record.hash # Hash[c] THEN "refused"
              ELSE IF record.status = "Succeeded" THEN record.digest ELSE "last_failed"]
        /\ pc' = [pc EXCEPT ![c] = "over"]
        /\ record' = record
        /\ held' = held
    BY DEF Answered, Goes
  <1>3. answer'[c] \in Outcomes \cup Hashes \cup {None}
    BY <1>1, <1>2 DEF TypeOK, Record, Outcomes
  <1>4. answer' \in [Clients -> Outcomes \cup Hashes \cup {None}]
    BY <1>2, <1>3 DEF TypeOK
  <1> QED
    BY <1>2, <1>4 DEF TypeOK

LEMMA StartsTypes ==
  ASSUME TypeOK, NEW c \in Clients, Starts(c),
         UNCHANGED <<backend, rested, robbed, crashes>>
  PROVE  TypeOK'
  BY FreshIsRecord DEF Starts, Goes, TypeOK

LEMMA OverTypes ==
  ASSUME TypeOK, NEW c \in Clients, Over(c), record' \in Record \cup {None}
  PROVE  TypeOK'
  BY DEF Over, Goes, TypeOK, Outcomes, AgeCap

LEMMA NextTypes == TypeOK /\ [Next]_vars => TypeOK'
  <1> SUFFICES ASSUME TypeOK, [Next]_vars PROVE TypeOK'
    OBVIOUS
  <1>1. ASSUME NEW c \in Clients, CheckAndPut(c) PROVE TypeOK'
    <2>1. CASE Free /\ Starts(c)
      BY <1>1, <2>1, StartsTypes DEF CheckAndPut
    <2>2. CASE ~Free /\ Answered(c)
      BY <1>1, <2>2, AnsweredTypes DEF CheckAndPut, Free
    <2> QED
      BY <1>1, <2>1, <2>2 DEF CheckAndPut
  <1>2. ASSUME NEW c \in Clients, Fetch(c) PROVE TypeOK'
    <2>1. CASE ~Free /\ Answered(c)
      BY <1>2, <2>1, AnsweredTypes DEF Fetch, Free
    <2>2. CASE Free
      BY <1>2, <2>2 DEF Fetch, Goes, TypeOK
    <2> QED
      BY <1>2, <2>1, <2>2 DEF Fetch
  <1>3. ASSUME NEW c \in Clients, Sweep(c) PROVE TypeOK'
    BY <1>3 DEF Sweep, Goes, TypeOK
  <1>4. ASSUME NEW c \in Clients, Create(c) PROVE TypeOK'
    <2>1. CASE record = None
      BY <1>4, <2>1, StartsTypes DEF Create
    <2>2. CASE record # None
      BY <1>4, <2>2 DEF Create, Goes, TypeOK
    <2> QED
      BY <2>1, <2>2
  <1>5. ASSUME NEW c \in Clients, Finish(c) PROVE TypeOK'
    <2>1. record' \in Record \cup {None}
      BY <1>5, HashOfClient DEF Finish, EndsAs, TypeOK, Record, AgeCap
    <2> QED
      BY <1>5, <2>1, OverTypes DEF Finish
  <1>6. ASSUME NEW c \in Clients, Fail(c) PROVE TypeOK'
    <2>1. record' \in Record \cup {None}
      BY <1>6 DEF Fail, EndsAs, TypeOK, Record, AgeCap
    <2> QED
      BY <1>6, <2>1, OverTypes DEF Fail
  <1>7. ASSUME NEW c \in Clients, Crash(c) PROVE TypeOK'
    BY <1>7 DEF Crash, Goes, TypeOK
  <1>8. CASE Tick
    <2>1. record' \in Record \cup {None}
      BY <1>8, OlderType DEF Tick, TypeOK, Record
    <2>2. held' \in [Clients -> 0..TTL]
      BY <1>8 DEF Tick, TypeOK
    <2>3. rested' \in 0..AgeCap
      BY <1>8, OlderType DEF Tick, TypeOK
    <2> QED
      BY <1>8, <2>1, <2>2, <2>3 DEF Tick, TypeOK
  <1>9. CASE UNCHANGED vars
    BY <1>9 DEF vars, client, TypeOK
  <1> QED
    BY <1>1, <1>2, <1>3, <1>4, <1>5, <1>6, <1>7, <1>8, <1>9 DEF Next, ClientStep

\* Every state has the types TypeOK gives it.
THEOREM TypesCorrect == Spec => []TypeOK
  BY InitTypes, NextTypes, PTL DEF Spec

-----------------------------------------------------------------------------
(* Safety.                                                                 *)

\* While a client writes, the record is the one it created.
WriterHoldsRecord ==
    \A c \in Clients : pc[c] = "running" =>
        /\ record # None
        /\ record.hash = Hash[c]
        /\ record.status = "InFlight"
        /\ record.age = held[c]
        /\ held[c] < TTL

\* A digest in the store, or given to a client, is of the request it names.
DigestsMatch ==
    /\ record # None => record.digest \in {None, record.hash}
    /\ record # None => (record.status = "Succeeded" => record.digest = record.hash)
    /\ \A c \in Clients : answer[c] \in Hashes => answer[c] = Hash[c]

\* The record of the last write is still there while it is not expired.
RecordOutlastsWrite ==
    ~Expired(rested) => record # None /\ record.age <= rested

Safe == OneWriter /\ WriterHoldsRecord /\ DigestsMatch /\ RecordOutlastsWrite

\* The clock of a write stands still between writes.
ClockAtRest == \A c \in Clients : pc[c] # "running" => held[c] = 0

\* With the memory store no client is between two statements.
OneCall ==
    backend = "memory" => \A c \in Clients : pc[c] \notin {"sweeping", "creating"}

\* The inductive invariant.
Inv == TypeOK /\ ClockAtRest /\ OneCall /\ (Sound => Safe)

LEMMA InitInv == Init => Inv
  <1> SUFFICES ASSUME Init PROVE Inv
    OBVIOUS
  <1>1. TypeOK
    BY InitTypes
  <1>2. Expired(rested)
    BY DEF Init, Expired, AgeCap
  <1>3. Safe
    BY <1>2 DEF Init, Safe, OneWriter, WriterHoldsRecord, DigestsMatch,
                RecordOutlastsWrite
  <1>4. ClockAtRest
    BY DEF Init, ClockAtRest
  <1>5. OneCall
    BY DEF Init, OneCall
  <1> QED
    BY <1>1, <1>3, <1>4, <1>5 DEF Inv

LEMMA NextOneCall == TypeOK /\ OneCall /\ [Next]_vars => OneCall'
  BY DEF TypeOK, OneCall, Next, ClientStep, CheckAndPut, Fetch, Sweep, Create,
         Finish, Fail, Crash, Tick, Starts, Answered, Over, Goes, vars, client

LEMMA NextClock == TypeOK /\ ClockAtRest /\ [Next]_vars => ClockAtRest'
  BY DEF TypeOK, ClockAtRest, Next, ClientStep, CheckAndPut, Fetch, Sweep, Create,
         Finish, Fail, Crash, Tick, Starts, Answered, Over, Goes, vars, client

\* Nobody writes while no live record is there.
LEMMA FreeMeansNoWriter ==
  ASSUME TypeOK, Safe, Free, NEW c \in Clients
  PROVE  pc[c] # "running"
  BY DEF TypeOK, Safe, WriterHoldsRecord, Free, Expired, Record

\* A client that starts finds the last write's time to live over.
LEMMA FreeMeansRested ==
  ASSUME TypeOK, Safe, Free
  PROVE  Expired(rested)
  <1> SUFFICES ASSUME ~Expired(rested) PROVE FALSE
    OBVIOUS
  <1>1. record # None /\ record.age <= rested
    BY DEF Safe, RecordOutlastsWrite
  <1>2. record.age \in Nat /\ rested \in Nat
    BY <1>1 DEF TypeOK, Record, AgeCap
  <1>3. Expired(record.age)
    BY <1>1 DEF Free
  <1> QED
    BY <1>1, <1>2, <1>3 DEF Expired

LEMMA StartsSafe ==
  ASSUME TypeOK, Safe, ClockAtRest, Free, NEW c \in Clients, Starts(c),
         pc[c] # "running", UNCHANGED <<backend, rested>>
  PROVE  Safe'
  <1>1. /\ record' = Fresh(c) /\ pc' = [pc EXCEPT ![c] = "running"]
        /\ held' = held /\ answer' = answer
    BY DEF Starts, Goes
  <1>2. record' # None
    BY FreshIsRecord, <1>1
  <1>3. record'.hash = Hash[c] /\ record'.status = "InFlight"
        /\ record'.digest = None /\ record'.age = 0
    BY <1>1 DEF Fresh
  <1>4. OneWriter'
    BY <1>1, FreeMeansNoWriter DEF OneWriter, TypeOK
  <1>5. WriterHoldsRecord'
    BY <1>1, <1>2, <1>3, FreeMeansNoWriter DEF WriterHoldsRecord, ClockAtRest, TypeOK
  <1>6. DigestsMatch'
    BY <1>1, <1>3 DEF Safe, DigestsMatch
  <1>7. RecordOutlastsWrite'
    BY <1>2, <1>3 DEF RecordOutlastsWrite, TypeOK, AgeCap
  <1> QED
    BY <1>4, <1>5, <1>6, <1>7 DEF Safe

LEMMA AnsweredSafe ==
  ASSUME TypeOK, Safe, record # None, NEW c \in Clients, Answered(c),
         UNCHANGED <<backend, rested>>
  PROVE  Safe'
  <1>1. /\ record' = record /\ held' = held
        /\ pc' = [pc EXCEPT ![c] = "over"]
        /\ record.hash = Hash[c] => record.status # "InFlight"
        /\ answer' = [answer EXCEPT ![c] =
              IF record.hash # Hash[c] THEN "refused"
              ELSE IF record.status = "Succeeded" THEN record.digest ELSE "last_failed"]
    BY DEF Answered, Goes
  <1>2. OneWriter' /\ WriterHoldsRecord' /\ RecordOutlastsWrite'
    BY <1>1 DEF Safe, OneWriter, WriterHoldsRecord, RecordOutlastsWrite, Expired, TypeOK
  <1>3. answer'[c] \in Hashes => answer'[c] = Hash[c]
    <2>1. record.hash # Hash[c] => answer'[c] = "refused"
      BY <1>1 DEF TypeOK
    <2>2. record.hash = Hash[c] =>
            \/ record.status = "Succeeded" /\ answer'[c] = record.digest
            \/ answer'[c] = "last_failed"
      BY <1>1 DEF TypeOK, Record
    <2>3. record.status = "Succeeded" => record.digest = record.hash
      BY DEF Safe, DigestsMatch
    <2> QED
      BY <2>1, <2>2, <2>3 DEF Outcomes
  <1>4. DigestsMatch'
    BY <1>1, <1>3 DEF Safe, DigestsMatch, TypeOK
  <1> QED
    BY <1>2, <1>4 DEF Safe

\* A write that ends, with finish (digest is its own) or fail (digest is the
\* record's).
LEMMA EndsSafe ==
  ASSUME TypeOK, Safe, NEW c \in Clients, pc[c] = "running", Over(c),
         NEW status \in {"Succeeded", "Failed"}, NEW digest,
         status = "Succeeded" => digest = Hash[c],
         status = "Failed" => digest = record.digest,
         EndsAs(c, status, digest)
  PROVE  Safe'
  <1>1. record # None /\ record.hash = Hash[c]
    BY DEF Safe, WriterHoldsRecord
  <1>2. record' = [hash |-> Hash[c], status |-> status, digest |-> digest, age |-> 0]
    BY <1>1 DEF EndsAs
  <1>3. /\ pc' = [pc EXCEPT ![c] = "over"]
        /\ answer' = [answer EXCEPT ![c] = "executed"]
        /\ held' = [held EXCEPT ![c] = 0]
        /\ rested' = 0
        /\ backend' = backend
    BY DEF Over, Goes
  <1>4. digest \in {None, Hash[c]}
    BY <1>1 DEF Safe, DigestsMatch
  <1>5. record' \in Record
    BY <1>2, <1>4, HashOfClient DEF Record, AgeCap
  <1>6. OneWriter'
    BY <1>3 DEF Safe, OneWriter, TypeOK
  <1>7. WriterHoldsRecord'
    BY <1>3 DEF Safe, OneWriter, WriterHoldsRecord, TypeOK
  <1>8. DigestsMatch'
    <2>1. \A d \in Clients : answer'[d] \in Hashes => answer'[d] = Hash[d]
      BY <1>3 DEF Safe, DigestsMatch, TypeOK, Outcomes
    <2> QED
      BY <1>2, <1>4, <2>1 DEF DigestsMatch
  <1>9. RecordOutlastsWrite'
    BY <1>2, <1>3, <1>5 DEF RecordOutlastsWrite
  <1> QED
    BY <1>6, <1>7, <1>8, <1>9 DEF Safe

LEMMA TickSafe == ASSUME TypeOK, Safe, Prompt, Tick PROVE Safe'
  <1>1. /\ backend' = backend /\ pc' = pc /\ answer' = answer
        /\ rested' = Older(rested)
        /\ \A c \in Clients : pc[c] = "running" => held[c] + 1 < TTL
        /\ held' = [c \in Clients |->
                       IF pc[c] = "running" THEN held[c] + 1 ELSE held[c]]
    BY DEF Tick
  <1>2. record = None => record' = None
    BY DEF Tick
  <1>3. record # None =>
          /\ record' # None
          /\ record' = [hash |-> record.hash, status |-> record.status,
                        digest |-> record.digest, age |-> Older(record.age)]
          /\ record.age \in 0..AgeCap
    BY OlderType DEF Tick, TypeOK, Record
  <1>4. OneWriter'
    BY <1>1 DEF Safe, OneWriter
  <1>5. WriterHoldsRecord'
    <2> SUFFICES ASSUME NEW c \in Clients, pc'[c] = "running"
                 PROVE  /\ record' # None
                        /\ record'.hash = Hash[c]
                        /\ record'.status = "InFlight"
                        /\ record'.age = held'[c]
                        /\ held'[c] < TTL
      BY DEF WriterHoldsRecord
    <2>1. /\ record # None /\ record.hash = Hash[c] /\ record.status = "InFlight"
          /\ record.age = held[c]
      BY <1>1 DEF Safe, WriterHoldsRecord
    <2>2. held'[c] = held[c] + 1 /\ held[c] + 1 < TTL /\ held[c] \in 0..TTL
      BY <1>1 DEF TypeOK
    <2>3. Older(record.age) = held[c] + 1
      BY <2>1, <2>2 DEF Older, AgeCap
    <2> QED
      BY <1>3, <2>1, <2>2, <2>3
  <1>6. DigestsMatch'
    BY <1>1, <1>2, <1>3 DEF Safe, DigestsMatch
  <1>7. RecordOutlastsWrite'
    <2> SUFFICES ASSUME ~Expired(rested)' PROVE record' # None /\ record'.age <= rested'
      BY DEF RecordOutlastsWrite
    <2>1. rested \in 0..AgeCap
      BY DEF TypeOK
    <2>2. ~Expired(rested)
      BY <1>1, <2>1, OlderType DEF Expired, Older, AgeCap
    <2>3. record # None /\ record.age <= rested
      BY <2>2 DEF Safe, RecordOutlastsWrite
    <2> QED
      BY <1>1, <1>3, <2>1, <2>3 DEF Older, AgeCap
  <1> QED
    BY <1>4, <1>5, <1>6, <1>7 DEF Safe

\* A client that has only moved on to another statement.
LEMMA MovesSafe ==
  ASSUME TypeOK, Safe, NEW c \in Clients, NEW p, p # "running", Goes(c, p),
         UNCHANGED <<backend, record, answer, rested>>,
         \A d \in Clients : d # c => held'[d] = held[d]
  PROVE  Safe'
  <1>1. \A d \in Clients : pc'[d] = "running" => pc[d] = "running" /\ held'[d] = held[d]
    BY DEF Goes, TypeOK
  <1> QED
    BY <1>1 DEF Safe, OneWriter, WriterHoldsRecord, DigestsMatch, RecordOutlastsWrite,
                Expired

LEMMA SweepSafe ==
  ASSUME TypeOK, Safe, NEW c \in Clients, Sweep(c), Free
  PROVE  Safe'
  <1>1. Expired(rested)
    BY FreeMeansRested
  <1>2. \A d \in Clients : pc[d] # "running"
    BY FreeMeansNoWriter
  <1> QED
    BY <1>1, <1>2 DEF Sweep, Goes, Safe, OneWriter, WriterHoldsRecord, DigestsMatch,
                      RecordOutlastsWrite, Expired, TypeOK

LEMMA NextSafe ==
  ASSUME Inv, Prompt, [Next]_vars, Sound'
  PROVE  Safe'
  <1>1. TypeOK /\ ClockAtRest
    BY DEF Inv
  <1>2. Sound
    BY DEF Sound, Next, ClientStep, CheckAndPut, Fetch, Sweep, Create, Finish, Fail,
           Crash, Tick, Over, vars
  <1>3. Safe
    BY <1>2 DEF Inv
  <1>4. ASSUME NEW c \in Clients, CheckAndPut(c) PROVE Safe'
    <2>1. CASE Free /\ Starts(c)
      BY <1>1, <1>3, <1>4, <2>1, StartsSafe DEF CheckAndPut
    <2>2. CASE ~Free /\ Answered(c)
      BY <1>1, <1>3, <1>4, <2>2, AnsweredSafe DEF CheckAndPut, Free
    <2> QED
      BY <1>4, <2>1, <2>2 DEF CheckAndPut
  <1>5. ASSUME NEW c \in Clients, Fetch(c) PROVE Safe'
    <2>1. CASE ~Free /\ Answered(c)
      BY <1>1, <1>3, <1>5, <2>1, AnsweredSafe DEF Fetch, Free
    <2>2. CASE Free
      BY <1>1, <1>3, <1>5, <2>2, MovesSafe DEF Fetch
    <2> QED
      BY <1>5, <2>1, <2>2 DEF Fetch
  <1>6. ASSUME NEW c \in Clients, Sweep(c) PROVE Safe'
    <2>1. CASE Free
      BY <1>1, <1>3, <1>6, <2>1, SweepSafe
    <2>2. CASE ~Free
      <3>1. backend = "memory"
        BY <1>6, <2>2 DEF Sweep, Sound
      <3> QED
        BY <1>6, <3>1 DEF Sweep, Inv, OneCall
    <2> QED
      BY <2>1, <2>2
  <1>7. ASSUME NEW c \in Clients, Create(c) PROVE Safe'
    <2>1. CASE record = None
      BY <1>1, <1>3, <1>7, <2>1, StartsSafe DEF Create, Free
    <2>2. CASE record # None
      BY <1>1, <1>3, <1>7, <2>2, MovesSafe DEF Create
    <2> QED
      BY <2>1, <2>2
  <1>8. ASSUME NEW c \in Clients, Finish(c) PROVE Safe'
    BY <1>1, <1>3, <1>8, EndsSafe DEF Finish
  <1>9. ASSUME NEW c \in Clients, Fail(c) PROVE Safe'
    <2>1. record # None
      BY <1>3, <1>9 DEF Fail, Safe, WriterHoldsRecord
    <2> QED
      BY <1>1, <1>3, <1>9, <2>1, EndsSafe DEF Fail
  <1>10. ASSUME NEW c \in Clients, Crash(c) PROVE Safe'
    BY <1>1, <1>3, <1>10, MovesSafe DEF Crash, TypeOK
  <1>11. CASE Tick
    BY <1>1, <1>3, <1>11, TickSafe
  <1>12. CASE UNCHANGED vars
    BY <1>3, <1>12 DEF vars, client, Safe, OneWriter, WriterHoldsRecord, DigestsMatch,
                       RecordOutlastsWrite, Expired
  <1> QED
    BY <1>4, <1>5, <1>6, <1>7, <1>8, <1>9, <1>10, <1>11, <1>12 DEF Next, ClientStep

LEMMA NextInv == ASSUME Prompt PROVE Inv /\ [Next]_vars => Inv'
  BY NextTypes, NextClock, NextOneCall, NextSafe DEF Inv

LEMMA AlwaysInv == ASSUME Prompt PROVE Spec => []Inv
  BY InitInv, NextInv, PTL DEF Spec

\* With writes that end before their record expires, no two clients write under a
\* key at once if the store is the one in memory, whose check_and_put decides under
\* one lock (idempo_store.rs:28-54).  For the store of SurrealDB this is not so.
THEOREM SingleWriter ==
  ASSUME Prompt
  PROVE  Spec => [](backend = "memory" => OneWriter)
  <1>1. Inv => (backend = "memory" => OneWriter)
    BY DEF Inv, Safe, Sound
  <1> QED
    BY <1>1, AlwaysInv, PTL

\* What is left of it with SurrealDB: its check_and_put has one way to let two
\* clients write at once, the delete that meets a record which is not expired
\* (surreal/store.rs:369, Sweep).  Up to such a delete there is one writer.
THEOREM OneWriterUntilRobbed == ASSUME Prompt PROVE Spec => []SoundOneWriter
  <1>1. Inv => SoundOneWriter
    BY DEF Inv, Safe, SoundOneWriter
  <1> QED
    BY <1>1, AlwaysInv, PTL

\* Under the same conditions no client is given the result of another request; with
\* SurrealDB, up to a delete of a record that is not expired.
THEOREM OwnAnswers == ASSUME Prompt PROVE Spec => []AnswerIsOurs
  <1>1. Inv => AnswerIsOurs
    BY DEF Inv, Safe, DigestsMatch, AnswerIsOurs
  <1> QED
    BY <1>1, AlwaysInv, PTL

\* Under the same conditions a write that has ended is not begun again for its full
\* time to live; with SurrealDB, up to a delete of a record that is not expired.
THEOREM WritesRest == ASSUME Prompt PROVE Spec => RestsForTTL
  <1>1. ASSUME Inv, [Next]_vars, NEW c \in Clients, Sound,
               pc[c] # "running", pc'[c] = "running"
        PROVE  Expired(rested)
    <2>1. TypeOK /\ Safe
      BY <1>1 DEF Inv
    <2>2. Free
      BY <1>1 DEF Next, ClientStep, CheckAndPut, Fetch, Sweep, Create, Finish, Fail,
                  Crash, Tick, Starts, Answered, Over, Goes, Free, vars, client,
                  Inv, TypeOK
    <2> QED
      BY <2>1, <2>2, FreeMeansRested
  <1>2. Inv /\ [Next]_vars =>
          [\A c \in Clients :
              Sound /\ pc[c] # "running" /\ pc'[c] = "running"
              => Expired(rested)]_vars
    BY <1>1
  <1> QED
    BY <1>2, AlwaysInv, PTL DEF Spec, RestsForTTL

\* The invariant of the runs, under the same conditions and for all clients, requests
\* and times to live: types, and one writer, always with the store in memory and with
\* SurrealDB up to a delete of a record that is not expired.
THEOREM IdempotencySafe == ASSUME Prompt PROVE Spec => []IdempotencyInv
  <1>1. TypeOK /\ SoundOneWriter => IdempotencyInv
    BY DEF IdempotencyInv
  <1> QED
    BY <1>1, TypesCorrect, OneWriterUntilRobbed, PTL
=============================================================================
