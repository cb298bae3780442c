---------------------------- MODULE OutboxSurreal ----------------------------
(***************************************************************************)
(* The outbox over SurrealTxStore, with the budget guard of its dispatcher *)
(* switched on.  lease_batch is one query for candidates and then one      *)
(* conditional UPDATE per candidate, and every other actor may step in     *)
(* between; every other call is a single statement, and what that makes of *)
(* the row is defined here.  Rows are read and written whole: the          *)
(* conversions of mapper.rs lose nothing.                                  *)
(***************************************************************************)
EXTENDS Outbox, BudgetGuard

\* What an UPDATE of a record that is not there may do: make it (TRUE), as
\* SurrealDB did up to its version 1, or nothing (FALSE), as it does since.  It is
\* the database's choice; Cargo.lock takes 2.3.10.
CONSTANT UpdateCreates

ASSUME UpdateAssumption == UpdateCreates \in SUBSET BOOLEAN \ {{}}

VARIABLES
    left,       \* candidates a worker's lease_batch has not come to
    passed      \* candidates it has been through, whose keys are "seen"

lease == <<left, passed>>
surrealVars == <<vars, budget, lease>>

SurrealTypeOK ==
    /\ BudgetTypeOK
    /\ left \in [Workers -> SUBSET Messages]
    /\ passed \in [Workers -> SUBSET Messages]
    /\ \A w \in Workers :
          /\ pc[w] \in {"idle", "selecting", "working", "sending", "acking",
                        "failing", "pushing"}
          /\ pc[w] # "selecting" => left[w] = {} /\ passed[w] = {}

SurrealInit ==
    /\ Init
    /\ BudgetInit
    /\ left = [w \in Workers |-> {}]
    /\ passed = [w \in Workers |-> {}]

-----------------------------------------------------------------------------
(* lease_batch.                                                            *)

\* select_candidates: up to four batches of eligible rows, in an order of
\* not_before and created_at that is any order here.
Select(w) ==
    /\ pc[w] = "idle"
    /\ \E S \in SUBSET Eligible(w) \ {{}} :
          /\ Cardinality(S) <= 4 * Batch
          /\ Cardinality(S) < 4 * Batch => S = Eligible(w)
          /\ left' = [left EXCEPT ![w] = S]
    /\ pc' = [pc EXCEPT ![w] = "selecting"]
    /\ UNCHANGED <<store, todo, cur, snap, age, replay, network, aborts, budget,
                   passed>>

\* The next candidate is done; with a full batch or the last one, lease_batch
\* returns, and a tick without messages ends.
Chosen(w, m, batch) ==
    LET over == left[w] = {m} \/ (batch # {} /\ Cardinality(batch) >= Batch) IN
    /\ left' = [left EXCEPT ![w] = IF over THEN {} ELSE @ \ {m}]
    /\ passed' = [passed EXCEPT ![w] = IF over THEN {} ELSE @ \cup {m}]
    /\ todo' = [todo EXCEPT ![w] = batch]
    /\ pc' = [pc EXCEPT ![w] = IF ~over THEN "selecting"
                               ELSE IF batch = {} THEN "idle" ELSE "working"]
    /\ age' = [age EXCEPT ![w] = IF over /\ batch = {} THEN 0 ELSE @]
    /\ UNCHANGED <<letters, letterAge, cur, replay, network, aborts, budget>>

\* Slip: the key of a candidate is not looked up.
SeenKeyNever(w, m) == FALSE

SeenKey(w, m) == \E n \in passed[w] : SameKey(m, n)

\* A candidate whose key this pass has met, leased or not, is skipped.
SkipCandidate(w, m) ==
    /\ m \in left[w]
    /\ SeenKey(w, m)
    /\ Chosen(w, m, todo[w])
    /\ UNCHANGED <<outbox, snap>>

\* Slip: the UPDATE has no condition on the status.
TryLeaseAny(w, m) ==
    /\ m \in left[w]
    /\ ~SeenKey(w, m)
    /\ outbox[m].lease = 0
    /\ outbox' = [outbox EXCEPT ![m] = Leased(outbox[m], "Leased", w)]
    /\ snap' = [snap EXCEPT ![w][m] = outbox[m].attempts]
    /\ Chosen(w, m, todo[w] \cup {m})

\* Row r under a lease that runs from the start of w's tick.
LeasedSince(r, w) ==
    [status |-> "Leased", attempts |-> r.attempts, notBefore |-> r.notBefore,
     lease |-> IF age[w] < Lease THEN Lease - age[w] ELSE 0, worker |-> w]

\* try_lease: the UPDATE tests the row again and returns it as it then is.
TryLease(w, m) ==
    /\ m \in left[w]
    /\ ~SeenKey(w, m)
    /\ m \in Eligible(w)
    /\ outbox' = [outbox EXCEPT ![m] = LeasedSince(outbox[m], w)]
    /\ snap' = [snap EXCEPT ![w] = [snap[w] EXCEPT ![m] = outbox[m].attempts]]
    /\ Chosen(w, m, todo[w] \cup {m})

\* The row no longer meets the conditions.  They compare with the tick's own
\* now, so a lease or a delay that ended since may still count.
LoseCandidate(w, m) ==
    /\ m \in left[w]
    /\ ~SeenKey(w, m)
    /\ m \in Eligible(w) => age[w] > 0
    /\ Chosen(w, m, todo[w])
    /\ UNCHANGED <<outbox, snap>>

-----------------------------------------------------------------------------
(* What the other statements make of a row.                                *)

Unleased(status, attempts, notBefore) ==
    [status |-> status, attempts |-> attempts, notBefore |-> notBefore,
     lease |-> 0, worker |-> NoWorker]

\* ACK_UPDATE: worker and lease are set to null, attempts and delay to themselves.
Acked(r) == Unleased("Done", r.attempts, r.notBefore)

\* NACK_UPDATE
Nacked(r, wait) == Unleased("Pending", r.attempts + 1, wait)

\* DEAD_UPDATE
GivenUp(r) == Unleased("Dead", r.attempts + 1, r.notBefore)

\* HEARTBEAT_UPDATE: the status is not among its conditions.
Extended(r) == Leased(r, r.status, r.worker)

Writes(m, r) == outbox' = [outbox EXCEPT ![m] = r]

-----------------------------------------------------------------------------
(* Producers, and the guard around a send.                                 *)

\* CREATE fails for an id that exists.
SurrealEnqueue(m) == Enqueue(m) /\ UNCHANGED <<budget, lease>>

Dispatch(w, m) == StartSend(w, m) /\ Attempt /\ UNCHANGED lease

\* The guard refuses: its error ends the tick, and the batch stays leased.
Refused(w) ==
    /\ pc[w] = "working"
    /\ Refuse
    /\ Forgets(w)
    /\ UNCHANGED <<store, replay, network, aborts, lease>>

\* The settling call of a send has succeeded: the tick goes on, and the guard is
\* told.
Settles(w) ==
    /\ Proceed(w)
    /\ Result
    /\ UNCHANGED <<replay, network, aborts, lease>>

SurrealAck(w) ==
    /\ pc[w] = "acking"
    /\ Writes(cur[w], Acked(outbox[cur[w]]))
    /\ Settles(w)
    /\ UNCHANGED <<letters, letterAge>>

SurrealNack(w) ==
    /\ pc[w] = "failing"
    /\ ~Exhausted(w)
    /\ \E delay \in MinDelay..MaxDelay :
          Writes(cur[w], Nacked(outbox[cur[w]], IF delay > age[w] THEN delay - age[w] ELSE 0))
    /\ Settles(w)
    /\ UNCHANGED <<letters, letterAge>>

SurrealDead(w) ==
    /\ pc[w] = "failing"
    /\ Exhausted(w)
    /\ Writes(cur[w], GivenUp(outbox[cur[w]]))
    /\ pc' = [pc EXCEPT ![w] = "pushing"]
    /\ UNCHANGED <<letters, letterAge, todo, cur, snap, age, replay, network, aborts,
                   budget, lease>>

\* UPSERT_RECORD is an UPDATE ... CONTENT: it replaces the letter the message has.
\* What comes of one that has none is the database's to say, and push, which does
\* not look at the answer, returns Ok either way.
SurrealPush(w) ==
    /\ pc[w] = "pushing"
    /\ \E created \in UpdateCreates :
          IF created \/ cur[w] \in letters
          THEN /\ letters' = letters \cup {cur[w]}
               /\ letterAge' = [letterAge EXCEPT ![cur[w]] = 0]
          ELSE UNCHANGED <<letters, letterAge>>
    /\ Settles(w)
    /\ UNCHANGED outbox

\* A tick that ends with an error, and never tells the guard of its send.
SurrealAborts(w) ==
    /\ TickAborts(w)
    /\ left' = [left EXCEPT ![w] = {}]
    /\ passed' = [passed EXCEPT ![w] = {}]
    /\ UNCHANGED budget

SurrealHeartbeat(w, m) ==
    /\ Heartbeats
    /\ m \in InHand(w)
    /\ outbox[m].worker = w
    /\ Writes(m, Extended(outbox[m]))
    /\ UNCHANGED <<letters, letterAge, worker, replay, network, aborts, budget, lease>>

DispatcherStep(w) ==
    \/ \E m \in Messages : \/ SkipCandidate(w, m)
                           \/ TryLease(w, m)
                           \/ LoseCandidate(w, m)
                           \/ Dispatch(w, m)
    \/ Refused(w)
    \/ (SendOk(w) \/ SendErr(w)) /\ UNCHANGED <<budget, lease>>
    \/ SurrealAck(w) \/ SurrealNack(w) \/ SurrealDead(w) \/ SurrealPush(w)

-----------------------------------------------------------------------------
(* Operators and retention.                                                *)

\* get of the dead-letter store: one SELECT finds the letter.  The read before it,
\* for the tenant of the metrics and the hook, decides nothing.
SurrealReplayRead(r, m) == ReplayRead(r, m) /\ UNCHANGED <<budget, lease>>

\* REVIVE_UPDATE: no condition on the status.
Revived == Unleased("Pending", 0, 0)

SurrealRevive(r) ==
    /\ replay[r].pc = "read"
    /\ Writes(replay[r].ref, Revived)
    /\ replay' = [replay EXCEPT ![r].pc = "revived"]
    /\ UNCHANGED <<letters, letterAge, worker, network, aborts, budget, lease>>

\* remove: one DELETE of whichever letter is there by now.
SurrealReplayRemove(r) == ReplayRemove(r) /\ UNCHANGED <<budget, lease>>

\* replay: the three statements, with everybody else in between.
SurrealReplay(r) ==
    \/ \E m \in Messages : SurrealReplayRead(r, m)
    \/ SurrealRevive(r)
    \/ SurrealReplayRemove(r)

SurrealPurge == Purge /\ UNCHANGED <<budget, lease>>

SurrealTick == Tick /\ WindowPasses /\ UNCHANGED lease

SurrealNext ==
    \/ \E w \in Workers : Select(w) \/ DispatcherStep(w) \/ SurrealAborts(w)
    \/ \E m \in Messages : SurrealEnqueue(m)
    \/ \E w \in Workers, m \in Messages : SurrealHeartbeat(w, m)
    \/ \E r \in Replays : SurrealReplay(r)
    \/ SurrealPurge
    \/ SurrealTick

SurrealSpec == SurrealInit /\ [][SurrealNext]_surrealVars

SurrealFairSpec ==
    /\ SurrealSpec
    /\ \A w \in Workers : WF_surrealVars(Select(w)) /\ WF_surrealVars(DispatcherStep(w))
    /\ WF_surrealVars(SurrealTick)

-----------------------------------------------------------------------------
(* Correctness, beside what Outbox states.                                  *)

\* Within one worker's hands no dispatch key is there twice.
KeyOncePerBatch ==
    \A w \in Workers : \A m, n \in InHand(w) : SameKey(m, n) => m = n

\* The guard's count of sends in flight is true: below by none, above by at most
\* one per aborted tick, whose result it was never told.
InflightAccounts ==
    LET inside == {w \in Workers :
                     pc[w] \in {"sending", "acking", "failing", "pushing"}} IN
    inflight \in Cardinality(inside)..(Cardinality(inside) + aborts)

\* No window sees more dispatches than its limit.
WindowHolds == WindowLimit = NoLimit \/ windowCount <= WindowLimit

\* The guard's books stay true through aborted ticks and calls it refuses, and no
\* tenant gets more than its budget (qos.rs:87, :97, :126).
SurrealInv == SurrealTypeOK /\ InflightAccounts /\ WindowHolds

=============================================================================
