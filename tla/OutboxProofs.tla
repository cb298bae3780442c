---------------------------- MODULE OutboxProofs ----------------------------
(***************************************************************************)
(* Safety of the outbox for every set of messages, workers and replay      *)
(* calls and every value of the parameters: what holds whatever stale      *)
(* workers do, and what holds of prompt ticks, among it the refinement of  *)
(* OutboxLifecycle; both first over the memory store and then over         *)
(* SurrealDB, whose batches and budget come in between.                    *)
(***************************************************************************)
EXTENDS OutboxSurreal, FiniteSetTheorems, TLAPS

-----------------------------------------------------------------------------
(* Type correctness.                                                       *)

\* A worker that has begun a send has a message in hand; a replay call that has
\* read its letter names one, a call not made yet does not.
HandOK ==
    /\ \A w \in Workers :
          pc[w] \in {"sending", "acking", "failing", "pushing"} => cur[w] \in Messages
    /\ \A r \in Replays :
          /\ replay[r].pc \in {"read", "revived"} => replay[r].ref \in Messages
          /\ replay[r].pc = "ready" => replay[r].ref = NoMessage

\* The steps of a tick; a dispatcher over SurrealTxStore is also among the
\* candidates of its lease_batch.
Steps == {"idle", "selecting", "working", "sending", "acking", "failing", "pushing"}

\* The types of Outbox, with the workers of either store.
TypesOK ==
    /\ outbox \in [Messages -> Row]
    /\ letters \subseteq Messages
    /\ letterAge \in [Messages -> Nat]
    /\ pc \in [Workers -> Steps]
    /\ todo \in [Workers -> SUBSET Messages]
    /\ cur \in [Workers -> Messages \cup {NoMessage}]
    /\ snap \in [Workers -> [Messages -> Nat]]
    /\ age \in [Workers -> Nat]
    /\ replay \in [Replays -> [pc : {"ready", "read", "revived", "over"},
                               ref : Messages \cup {NoMessage}]]
    /\ delivered \subseteq Messages
    /\ fails \in [Messages -> Nat]
    /\ aborts \in 0..MaxAborts

TypeInv == TypesOK /\ HandOK

\* The memory store leases a batch in one step.
NoSelection == \A w \in Workers : pc[w] # "selecting"

\* The initial state is well typed.
LEMMA InitTypeInv == Init => TypeInv
BY SetsAssumption, ParametersAssumption
DEF Init, TypeInv, TypesOK, HandOK, Steps, Row, NoRow, NoSnap, Status, Open, Terminal

\* Every step of a producer, a worker, an operator, the maintenance task or
\* the clock preserves the types.
LEMMA NextTypeInv == TypeInv /\ [Next]_vars => TypeInv'
<1> SUFFICES ASSUME TypeInv, [Next]_vars PROVE TypeInv'
  OBVIOUS
<1> USE SetsAssumption, ParametersAssumption DEF Steps
<1>t. /\ TypesOK /\ HandOK
  BY DEF TypeInv
<1>1. ASSUME NEW m \in Messages, Enqueue(m) PROVE TypeInv'
  BY <1>1, <1>t DEF TypeInv, TypesOK, HandOK, Enqueue, SetRow, Row, Status, Open,
                    Terminal, store, worker, network
<1>2. ASSUME NEW w \in Workers, LeaseBatch(w) PROVE TypeInv'
  <2> PICK S \in Selections(w) \ {{}} :
        /\ outbox' = [m \in Messages |->
                        IF m \in S THEN Leased(outbox[m], "Leased", w)
                        ELSE outbox[m]]
        /\ todo' = [todo EXCEPT ![w] = S]
        /\ snap' = [snap EXCEPT ![w] = [m \in Messages |->
                        IF m \in S THEN outbox[m].attempts ELSE 0]]
    BY <1>2 DEF LeaseBatch
  <2>1. S \in SUBSET Messages
    BY DEF Selections, Eligible
  <2>2. outbox' \in [Messages -> Row]
    BY <1>t, <2>1 DEF TypesOK, Row, Status, Open, Terminal, Leased
  <2>3. snap' \in [Workers -> [Messages -> Nat]]
    BY <1>t DEF TypesOK, Row
  <2>4. QED
    BY <1>2, <1>t, <2>1, <2>2, <2>3 DEF TypeInv, TypesOK, HandOK, LeaseBatch,
       network
<1>3. ASSUME NEW w \in Workers, WorkerStep(w) PROVE TypeInv'
  <2>0. NoSnap \in [Messages -> Nat]
    BY DEF NoSnap
  <2>1. ASSUME NEW m \in Messages, StartSend(w, m) PROVE TypeInv'
    BY <2>1, <1>t DEF TypeInv, TypesOK, HandOK, StartSend, store, network
  <2>2. CASE SendOk(w)
    BY <2>2, <1>t DEF TypeInv, TypesOK, HandOK, SendOk, store
  <2>3. CASE SendErr(w)
    BY <2>3, <1>t DEF TypeInv, TypesOK, HandOK, SendErr, store
  <2>4. CASE AckDone(w)
    BY <2>4, <2>0, <1>t DEF TypeInv, TypesOK, HandOK, AckDone, Proceed, SetRow, Row, Status,
                      Open, Terminal, network
  <2>5. CASE NackBackoff(w)
    <3> PICK delay \in MinDelay..MaxDelay :
          SetRow(cur[w], "Pending", outbox[cur[w]].attempts + 1,
                 IF delay > age[w] THEN delay - age[w] ELSE 0)
      BY <2>5 DEF NackBackoff
    <3>1. (IF delay > age[w] THEN delay - age[w] ELSE 0) \in Nat
      BY <1>t DEF TypesOK
    <3>2. cur[w] \in Messages
      BY <2>5, <1>t DEF NackBackoff, HandOK
    <3>3. outbox' \in [Messages -> Row]
      BY <1>t, <3>1, <3>2 DEF TypesOK, SetRow, Row, Status, Open, Terminal
    <3>4. QED
      BY <2>5, <2>0, <1>t, <3>3 DEF TypeInv, TypesOK, HandOK, NackBackoff, Proceed,
                              network
  <2>6. CASE DeadLetter(w)
    BY <2>6, <1>t DEF TypeInv, TypesOK, HandOK, DeadLetter, SetRow, Row, Status, Open,
                      Terminal, network
  <2>7. CASE PushLetter(w)
    BY <2>7, <2>0, <1>t DEF TypeInv, TypesOK, HandOK, PushLetter, Proceed, network
  <2>8. QED
    BY <1>3, <2>1, <2>2, <2>3, <2>4, <2>5, <2>6, <2>7 DEF WorkerStep
<1>4. ASSUME NEW w \in Workers, TickAborts(w) PROVE TypeInv'
  <2>0. NoSnap \in [Messages -> Nat]
    BY DEF NoSnap
  <2>1. delivered' \subseteq Messages
    BY <1>4, <1>t DEF TickAborts, Forgets, TypesOK, HandOK
  <2>2. QED
    BY <1>4, <2>0, <2>1, <1>t DEF TypeInv, TypesOK, HandOK, TickAborts, Forgets, store
<1>5. ASSUME NEW w \in Workers, NEW m \in Messages, Heartbeat(w, m) PROVE TypeInv'
  <2>1. Lease \in Nat
    OBVIOUS
  <2>2. outbox' \in [Messages -> Row]
    BY <1>5, <1>t, <2>1 DEF Heartbeat, TypesOK, Leased, Row
  <2>3. QED
    BY <1>5, <1>t, <2>2 DEF TypeInv, TypesOK, HandOK, Heartbeat, worker, network
<1>6. ASSUME NEW r \in Replays, ReplayStep(r) PROVE TypeInv'
  <2>1. ASSUME NEW m \in Messages, ReplayRead(r, m) PROVE TypeInv'
    BY <2>1, <1>t DEF TypeInv, TypesOK, HandOK, ReplayRead, store, worker, network
  <2>2. CASE ReplayRevive(r)
    BY <2>2, <1>t DEF TypeInv, TypesOK, HandOK, ReplayRevive, SetRow, Row, Status,
                      Open, Terminal, worker, network
  <2>3. CASE ReplayRemove(r)
    BY <2>3, <1>t DEF TypeInv, TypesOK, HandOK, ReplayRemove, worker, network
  <2>4. QED
    BY <1>6, <2>1, <2>2, <2>3 DEF ReplayStep
<1>7. CASE Purge
  BY <1>7, <1>t DEF TypeInv, TypesOK, HandOK, Purge, worker, network
<1>8. CASE Tick
  <2>1. \A n \in Nat : Left(n) \in Nat
    BY DEF Left
  <2>2. outbox' \in [Messages -> Row]
    BY <1>8, <1>t, <2>1 DEF Tick, Later, TypesOK, Row
  <2>3. age' \in [Workers -> Nat]
    BY <1>8, <1>t DEF Tick, TypesOK
  <2>4. letterAge' \in [Messages -> Nat]
    BY <1>8, <1>t DEF Tick, TypesOK
  <2>5. QED
    BY <1>8, <1>t, <2>2, <2>3, <2>4 DEF TypeInv, TypesOK, HandOK, Tick, network
<1>9. CASE UNCHANGED vars
  BY <1>9, <1>t DEF TypeInv, TypesOK, HandOK, vars, store, worker, network
<1>10. QED
  BY <1>1, <1>2, <1>3, <1>4, <1>5, <1>6, <1>7, <1>8, <1>9 DEF Next

\* The outbox, its workers and its dead-letter store keep their types.
THEOREM TypeCorrect == Spec => []TypeInv
<1>1. Init => TypeInv
  BY InitTypeInv
<1>2. TypeInv /\ [Next]_vars => TypeInv'
  BY NextTypeInv
<1>3. QED
  BY <1>1, <1>2, PTL DEF Spec

-----------------------------------------------------------------------------
(* At-least-once: Done was delivered.                                      *)

\* A worker about to acknowledge has seen its send succeed.
AckInv ==
    /\ \A w \in Workers : pc[w] = "acking" => cur[w] \in delivered
    /\ DoneWasDelivered

\* Only AckDone makes a row Done, only SendOk leads to it, and no step takes a
\* delivery back.
LEMMA NextAckInv == TypeInv /\ AckInv /\ [Next]_vars => AckInv'
<1> SUFFICES ASSUME TypeInv, AckInv, [Next]_vars PROVE AckInv'
  OBVIOUS
<1>t. /\ TypesOK /\ HandOK
      /\ outbox \in [Messages -> Row]
      /\ pc \in [Workers -> Steps]
      /\ cur \in [Workers -> Messages \cup {NoMessage}]
  BY DEF TypeInv, TypesOK
<1>1. ASSUME NEW m \in Messages, Enqueue(m) PROVE AckInv'
  BY <1>1, <1>t DEF AckInv, DoneWasDelivered, Enqueue, SetRow, worker, network
<1>2. ASSUME NEW w \in Workers, LeaseBatch(w) PROVE AckInv'
  <2>1. /\ \A m \in Messages : outbox'[m].status \in {outbox[m].status, "Leased"}
        /\ pc' = [pc EXCEPT ![w] = "working"]
        /\ cur' = cur
        /\ delivered' = delivered
    BY <1>2 DEF LeaseBatch, Leased, network
  <2>2. QED
    BY <2>1, <1>t DEF AckInv, DoneWasDelivered
<1>3. ASSUME NEW w \in Workers, WorkerStep(w) PROVE AckInv'
  <2>1. ASSUME NEW m \in Messages, StartSend(w, m) PROVE AckInv'
    BY <2>1, <1>t DEF AckInv, DoneWasDelivered, StartSend, store, network
  <2>2. CASE SendOk(w)
    BY <2>2, <1>t DEF AckInv, DoneWasDelivered, SendOk, store
  <2>3. CASE SendErr(w)
    BY <2>3, <1>t DEF AckInv, DoneWasDelivered, SendErr, store
  <2>4. CASE AckDone(w)
    BY <2>4, <1>t DEF AckInv, DoneWasDelivered, HandOK, AckDone, Proceed, SetRow,
                      network
  <2>5. CASE NackBackoff(w)
    BY <2>5, <1>t DEF AckInv, DoneWasDelivered, HandOK, NackBackoff, Proceed,
                      SetRow, network
  <2>6. CASE DeadLetter(w)
    BY <2>6, <1>t DEF AckInv, DoneWasDelivered, HandOK, DeadLetter, SetRow, network
  <2>7. CASE PushLetter(w)
    BY <2>7, <1>t DEF AckInv, DoneWasDelivered, PushLetter, Proceed, network
  <2>8. QED
    BY <1>3, <2>1, <2>2, <2>3, <2>4, <2>5, <2>6, <2>7 DEF WorkerStep
<1>4. ASSUME NEW w \in Workers, TickAborts(w) PROVE AckInv'
  <2>1. delivered \subseteq delivered'
    BY <1>4 DEF TickAborts, Forgets
  <2>2. QED
    BY <1>4, <2>1, <1>t DEF AckInv, DoneWasDelivered, TickAborts, Forgets, store
<1>5. ASSUME NEW w \in Workers, NEW m \in Messages, Heartbeat(w, m) PROVE AckInv'
  BY <1>5, <1>t DEF AckInv, DoneWasDelivered, Heartbeat, Leased, worker, network
<1>6. ASSUME NEW r \in Replays, ReplayStep(r) PROVE AckInv'
  <2>1. ASSUME NEW m \in Messages, ReplayRead(r, m) PROVE AckInv'
    BY <2>1 DEF AckInv, DoneWasDelivered, ReplayRead, store, worker, network
  <2>2. CASE ReplayRevive(r)
    BY <2>2, <1>t DEF AckInv, DoneWasDelivered, HandOK, ReplayRevive, SetRow,
                      worker, network
  <2>3. CASE ReplayRemove(r)
    BY <2>3 DEF AckInv, DoneWasDelivered, ReplayRemove, worker, network
  <2>4. QED
    BY <1>6, <2>1, <2>2, <2>3 DEF ReplayStep
<1>7. CASE Purge
  BY <1>7 DEF AckInv, DoneWasDelivered, Purge, worker, network
<1>8. CASE Tick
  BY <1>8, <1>t DEF AckInv, DoneWasDelivered, Tick, Later, network
<1>9. CASE UNCHANGED vars
  BY <1>9 DEF AckInv, DoneWasDelivered, vars, store, worker, network
<1>10. QED
  BY <1>1, <1>2, <1>3, <1>4, <1>5, <1>6, <1>7, <1>8, <1>9 DEF Next

\* At-least-once delivery, whatever stale workers, aborted ticks and replays
\* do: ack_done only follows a send the transport reported as Ok.
THEOREM DoneDelivered == Spec => []DoneWasDelivered
<1>1. Init => AckInv
  BY DEF Init, AckInv, DoneWasDelivered, NoRow
<1>2. AckInv => DoneWasDelivered
  BY DEF AckInv
<1>3. QED
  BY <1>1, <1>2, TypeCorrect, NextAckInv, PTL DEF Spec

-----------------------------------------------------------------------------
(* A message is given up only after max_attempts failed sends.             *)

\* Workers whose send of m has failed and that have not settled it yet.
Failing(m) == {w \in Workers : pc[w] = "failing" /\ cur[w] = m}

\* Every attempt a row counts is a failed send of its own, the unsettled ones
\* come on top, and a snapshot never counts more than that either.
CountInv ==
    /\ \A m \in Messages : outbox[m].attempts + Cardinality(Failing(m)) <= fails[m]
    /\ \A w \in Workers, m \in Messages : snap[w][m] <= fails[m]
    /\ \A w \in Workers :
          pc[w] = "failing" => snap[w][cur[w]] + 1 <= fails[cur[w]]
    /\ DeadWasTried

\* The workers that are failing on one message are finitely many.
LEMMA FailingFinite ==
    ASSUME NEW m
    PROVE  /\ IsFiniteSet(Failing(m))
           /\ Cardinality(Failing(m)) \in Nat
<1>1. Failing(m) \subseteq Workers
  BY DEF Failing
<1>2. QED
  BY <1>1, SetsAssumption, FS_Subset, FS_CardinalityType

\* So are they in the next state.
LEMMA FailingFinitePrime ==
    ASSUME NEW m
    PROVE  /\ IsFiniteSet(Failing(m)')
           /\ Cardinality(Failing(m)') \in Nat
<1>1. Failing(m)' \subseteq Workers
  BY DEF Failing
<1>2. QED
  BY <1>1, SetsAssumption, FS_Subset, FS_CardinalityType

\* A step that adds no failing worker, no attempt, no failure, no snapshot and
\* no dead row keeps the counts.
LEMMA KeepsCount ==
    ASSUME TypeInv, CountInv, TypeInv',
           \A m \in Messages : Failing(m)' \subseteq Failing(m),
           \A m \in Messages : outbox'[m].attempts <= outbox[m].attempts,
           \A m \in Messages :
              outbox'[m].status = "Dead" => outbox[m].status = "Dead",
           \A w \in Workers, m \in Messages : snap'[w][m] <= snap[w][m],
           \A w \in Workers :
              pc'[w] = "failing" => pc[w] = "failing" /\ cur'[w] = cur[w],
           fails' = fails
    PROVE  CountInv'
<1>t. /\ outbox \in [Messages -> Row]
      /\ outbox' \in [Messages -> Row]
      /\ snap \in [Workers -> [Messages -> Nat]]
      /\ snap' \in [Workers -> [Messages -> Nat]]
      /\ fails \in [Messages -> Nat]
      /\ \A m \in Messages : outbox[m].attempts \in Nat /\ outbox'[m].attempts \in Nat
      /\ MaxAttempts \in Nat
  BY ParametersAssumption DEF TypeInv, TypesOK, Row
<1>1. ASSUME NEW m \in Messages
      PROVE  outbox'[m].attempts + Cardinality(Failing(m)') <= fails'[m]
  <2>1. Cardinality(Failing(m)') <= Cardinality(Failing(m))
    BY FailingFinite, FS_Subset
  <2>2. outbox[m].attempts + Cardinality(Failing(m)) <= fails[m]
    BY DEF CountInv
  <2>3. /\ Cardinality(Failing(m)) \in Nat
        /\ Cardinality(Failing(m)') \in Nat
    BY FailingFinite, FailingFinitePrime
  <2>4. /\ outbox'[m].attempts \in Nat
        /\ outbox[m].attempts \in Nat
        /\ outbox'[m].attempts <= outbox[m].attempts
        /\ fails[m] \in Nat
        /\ fails'[m] = fails[m]
    BY <1>t
  <2>5. QED
    BY <2>1, <2>2, <2>3, <2>4
<1>2. \A w \in Workers, m \in Messages : snap'[w][m] <= fails'[m]
  BY <1>t DEF CountInv
<1>3. ASSUME NEW w \in Workers, pc'[w] = "failing"
      PROVE  snap'[w][cur'[w]] + 1 <= fails'[cur'[w]]
  <2>1. pc[w] = "failing" /\ cur'[w] = cur[w] /\ cur[w] \in Messages
    BY <1>3 DEF TypeInv, HandOK
  <2>2. snap'[w][cur[w]] <= snap[w][cur[w]]
    BY <2>1
  <2>3. snap[w][cur[w]] + 1 <= fails[cur[w]]
    BY <2>1 DEF CountInv
  <2>4. QED
    BY <2>1, <2>2, <2>3, <1>t
<1>4. DeadWasTried'
  BY <1>t DEF CountInv, DeadWasTried
<1>5. QED
  BY <1>1, <1>2, <1>3, <1>4 DEF CountInv

\* SendErr adds to both sides of the count, a settling call moves one failure
\* from the unsettled to the counted ones, every other step adds nothing.
LEMMA NextCountInv == TypeInv /\ CountInv /\ [Next]_vars => CountInv'
<1> SUFFICES ASSUME TypeInv, CountInv, [Next]_vars PROVE CountInv'
  OBVIOUS
<1>t. /\ TypeInv'
      /\ TypesOK /\ HandOK
      /\ outbox \in [Messages -> Row]
      /\ snap \in [Workers -> [Messages -> Nat]]
      /\ pc \in [Workers -> Steps]
      /\ cur \in [Workers -> Messages \cup {NoMessage}]
      /\ fails \in [Messages -> Nat]
      /\ \A m \in Messages : outbox[m].attempts \in Nat
  BY NextTypeInv DEF TypeInv, TypesOK, Row
<1>z. \A v \in Workers, m \in Messages : NoSnap[m] <= snap[v][m]
  BY <1>t DEF NoSnap
<1>1. ASSUME NEW m \in Messages, Enqueue(m) PROVE CountInv'
  <2>1. UNCHANGED <<pc, cur, snap, fails>>
    BY <1>1 DEF Enqueue, worker, network
  <2>2. \A n \in Messages : outbox'[n].attempts <= outbox[n].attempts
                         /\ (outbox'[n].status = "Dead" => outbox[n].status = "Dead")
    BY <1>1, <1>t DEF Enqueue, SetRow
  <2>3. QED
    BY <2>1, <2>2, <1>t, KeepsCount DEF Failing
<1>2. ASSUME NEW w \in Workers, LeaseBatch(w) PROVE CountInv'
  <2>1. /\ pc[w] = "idle"
        /\ pc' = [pc EXCEPT ![w] = "working"]
        /\ UNCHANGED <<cur, fails>>
        /\ \A m \in Messages : /\ outbox'[m].attempts = outbox[m].attempts
                               /\ outbox'[m].status \in {outbox[m].status, "Leased"}
    BY <1>2 DEF LeaseBatch, Leased, network
  <2>2. \A m \in Messages : Failing(m)' = Failing(m)
    BY <2>1, <1>t DEF Failing
  <2>3. ASSUME NEW v \in Workers, NEW m \in Messages
        PROVE  snap'[v][m] <= fails[m]
    <3>1. \/ snap'[v] = snap[v]
          \/ snap'[v][m] \in {outbox[m].attempts, 0}
      BY <1>2, <1>t DEF LeaseBatch
    <3>2. outbox[m].attempts + Cardinality(Failing(m)) <= fails[m]
      BY DEF CountInv
    <3>3. snap[v][m] <= fails[m]
      BY DEF CountInv
    <3>4. outbox[m].attempts <= fails[m] /\ 0 <= fails[m]
      BY <3>2, FailingFinite, <1>t
    <3>5. QED
      BY <3>1, <3>3, <3>4
  <2>4. \A v \in Workers : pc'[v] = "failing" => snap'[v] = snap[v]
    BY <1>2, <1>t DEF LeaseBatch
  <2>5. ASSUME NEW v \in Workers, pc'[v] = "failing"
        PROVE  snap'[v][cur'[v]] + 1 <= fails'[cur'[v]]
    <3>1. pc[v] = "failing"
      BY <2>5, <2>1, <1>t
    <3>2. QED
      BY <3>1, <2>1, <2>4, <2>5 DEF CountInv
  <2>6. DeadWasTried'
    BY <2>1 DEF CountInv, DeadWasTried
  <2>7. QED
    BY <2>1, <2>2, <2>3, <2>5, <2>6 DEF CountInv
<1>3. ASSUME NEW w \in Workers, WorkerStep(w) PROVE CountInv'
  <2>1. ASSUME NEW m \in Messages, StartSend(w, m) PROVE CountInv'
    <3>1. /\ UNCHANGED <<outbox, snap, fails>>
          /\ pc' = [pc EXCEPT ![w] = "sending"]
          /\ cur' = [cur EXCEPT ![w] = m]
      BY <2>1 DEF StartSend, store, network
    <3>2. QED
      BY <3>1, <1>t, KeepsCount DEF Failing
  <2>2. CASE SendOk(w)
    <3>1. /\ UNCHANGED <<outbox, cur, snap, fails>>
          /\ pc' = [pc EXCEPT ![w] = "acking"]
      BY <2>2 DEF SendOk, store
    <3>2. QED
      BY <3>1, <1>t, KeepsCount DEF Failing
  <2>3. CASE SendErr(w)
    <3> PICK m \in Messages : m = cur[w]
      BY <2>3, <1>t DEF SendErr, HandOK
    <3>1. /\ pc[w] = "sending"
          /\ pc' = [pc EXCEPT ![w] = "failing"]
          /\ fails' = [fails EXCEPT ![m] = @ + 1]
          /\ UNCHANGED <<outbox, cur, snap>>
      BY <2>3, <1>t DEF SendErr, HandOK, store
    <3>2. /\ Failing(m)' = Failing(m) \cup {w}
          /\ w \notin Failing(m)
          /\ \A n \in Messages : n # m => Failing(n)' = Failing(n)
      BY <3>1, <1>t DEF Failing
    <3>3. Cardinality(Failing(m)') = Cardinality(Failing(m)) + 1
      BY <3>2, FailingFinite, FS_AddElement
    <3>4. /\ fails'[m] = fails[m] + 1
          /\ \A n \in Messages : n # m => fails'[n] = fails[n]
          /\ \A n \in Messages : fails[n] <= fails'[n] /\ fails'[n] \in Nat
      BY <3>1, <1>t
    <3>5. ASSUME NEW n \in Messages
          PROVE  outbox'[n].attempts + Cardinality(Failing(n)') <= fails'[n]
      <4>1. /\ outbox[n].attempts + Cardinality(Failing(n)) <= fails[n]
            /\ outbox[n].attempts \in Nat
            /\ fails[n] \in Nat
            /\ Cardinality(Failing(n)) \in Nat
        BY <1>t, FailingFinite DEF CountInv
      <4>2. CASE n = m
        <5>1. outbox[n].attempts + (Cardinality(Failing(n)) + 1) <= fails[n] + 1
          BY <4>1
        <5>2. QED
          BY <5>1, <4>2, <3>1, <3>3, <3>4
      <4>3. CASE n # m
        BY <4>1, <4>3, <3>1, <3>2, <3>4
      <4>4. QED
        BY <4>2, <4>3
    <3>6. ASSUME NEW v \in Workers, NEW n \in Messages
          PROVE  snap'[v][n] <= fails'[n]
      <4>1. snap[v][n] <= fails[n] /\ snap[v][n] \in Nat /\ fails[n] \in Nat
        BY <1>t DEF CountInv
      <4>2. QED
        BY <4>1, <3>1, <3>4
    <3>7. ASSUME NEW v \in Workers, pc'[v] = "failing"
          PROVE  snap'[v][cur'[v]] + 1 <= fails'[cur'[v]]
      <4>1. CASE v = w
        <5>1. snap[w][m] <= fails[m] /\ snap[w][m] \in Nat /\ fails[m] \in Nat
          BY <3>1, <1>t DEF CountInv
        <5>2. QED
          BY <5>1, <4>1, <3>1, <3>4
      <4>2. CASE v # w
        <5>1. pc[v] = "failing" /\ cur[v] \in Messages
          BY <4>2, <3>7, <3>1, <1>t DEF HandOK
        <5>2. snap[v][cur[v]] + 1 <= fails[cur[v]]
          BY <5>1 DEF CountInv
        <5>3. snap[v][cur[v]] \in Nat /\ fails[cur[v]] \in Nat
          BY <5>1, <1>t
        <5>4. QED
          BY <5>1, <5>2, <5>3, <3>1, <3>4
      <4>3. QED
        BY <4>1, <4>2
    <3>8. DeadWasTried'
      <4>1. ASSUME NEW n \in Messages, outbox'[n].status = "Dead"
            PROVE  fails'[n] >= MaxAttempts
        <5>1. fails[n] >= MaxAttempts
          BY <4>1, <3>1 DEF CountInv, DeadWasTried
        <5>2. QED
          BY <5>1, <3>4, <1>t, ParametersAssumption
      <4>2. QED
        BY <4>1 DEF DeadWasTried
    <3>9. QED
      BY <3>5, <3>6, <3>7, <3>8 DEF CountInv
  <2>4. CASE AckDone(w)
    <3>1. /\ UNCHANGED fails
          /\ \A v \in Workers : pc'[v] = "failing" => pc[v] = "failing" /\ v # w
          /\ \A v \in Workers : v # w => cur'[v] = cur[v]
          /\ \A v \in Workers : snap'[v] \in {snap[v], NoSnap}
      BY <2>4, <1>t DEF AckDone, Proceed, network
    <3>2. \A m \in Messages :
             /\ outbox'[m].attempts = outbox[m].attempts
             /\ outbox'[m].status \in {outbox[m].status, "Done"}
      BY <2>4, <1>t DEF AckDone, SetRow
    <3>3. QED
      BY <3>1, <3>2, <1>t, <1>z, KeepsCount DEF Failing
  <2>5. CASE NackBackoff(w) \/ DeadLetter(w)
    <3> PICK m \in Messages : m = cur[w]
      BY <2>5, <1>t DEF NackBackoff, DeadLetter, HandOK
    <3>1. /\ pc[w] = "failing"
          /\ w \in Failing(m)
          /\ fails' = fails
      BY <2>5, <1>t DEF NackBackoff, DeadLetter, HandOK, Failing, network
    <3>2. \A v \in Workers :
             /\ pc'[v] = "failing" <=> pc[v] = "failing" /\ v # w
             /\ v # w => cur'[v] = cur[v]
             /\ snap'[v] \in {snap[v], NoSnap}
      BY <2>5, <1>t DEF NackBackoff, DeadLetter, Proceed
    <3>3. /\ Failing(m)' = Failing(m) \ {w}
          /\ \A n \in Messages : n # m => Failing(n)' = Failing(n)
      BY <3>1, <3>2 DEF Failing
    <3>4. Cardinality(Failing(m)') = Cardinality(Failing(m)) - 1
      BY <3>1, <3>3, FailingFinite, FS_RemoveElement
    <3>5. /\ outbox'[m].attempts = outbox[m].attempts + 1
          /\ outbox'[m].status = "Dead" => snap[w][m] + 1 >= MaxAttempts
          /\ \A n \in Messages : n # m => outbox'[n] = outbox[n]
      BY <2>5, <3>1, <1>t DEF NackBackoff, DeadLetter, SetRow, Exhausted
    <3>6. ASSUME NEW n \in Messages
          PROVE  outbox'[n].attempts + Cardinality(Failing(n)') <= fails'[n]
      <4>1. /\ outbox[n].attempts + Cardinality(Failing(n)) <= fails[n]
            /\ outbox[n].attempts \in Nat
            /\ fails[n] \in Nat
            /\ Cardinality(Failing(n)) \in Nat
        BY <1>t, FailingFinite DEF CountInv
      <4>2. CASE n = m
        <5>1. (outbox[n].attempts + 1) + (Cardinality(Failing(n)) - 1) <= fails[n]
          BY <4>1
        <5>2. QED
          BY <5>1, <4>2, <3>1, <3>4, <3>5
      <4>3. CASE n # m
        BY <4>1, <4>3, <3>1, <3>3, <3>5
      <4>4. QED
        BY <4>2, <4>3
    <3>7. ASSUME NEW v \in Workers, NEW n \in Messages
          PROVE  snap'[v][n] <= fails'[n]
      <4>1. snap[v][n] <= fails[n] /\ 0 <= fails[n]
        BY <1>t DEF CountInv
      <4>2. snap'[v][n] \in {snap[v][n], 0}
        BY <3>2 DEF NoSnap
      <4>3. QED
        BY <4>1, <4>2, <3>1
    <3>8. ASSUME NEW v \in Workers, pc'[v] = "failing"
          PROVE  snap'[v][cur'[v]] + 1 <= fails'[cur'[v]]
      <4>1. pc[v] = "failing" /\ v # w /\ cur'[v] = cur[v]
        BY <3>2, <3>8
      <4>2. snap'[v] = snap[v]
        BY <2>5, <4>1, <1>t DEF NackBackoff, DeadLetter, Proceed
      <4>3. QED
        BY <4>1, <4>2, <3>1 DEF CountInv
    <3>9. DeadWasTried'
      <4>1. snap[w][m] + 1 <= fails[m] /\ snap[w][m] \in Nat /\ fails[m] \in Nat
        BY <3>1, <1>t DEF CountInv
      <4>2. ASSUME NEW n \in Messages, outbox'[n].status = "Dead"
            PROVE  fails'[n] >= MaxAttempts
        <5>1. CASE n = m
          BY <5>1, <4>1, <4>2, <3>1, <3>5, ParametersAssumption
        <5>2. CASE n # m
          BY <5>2, <4>2, <3>1, <3>5 DEF CountInv, DeadWasTried
        <5>3. QED
          BY <5>1, <5>2
      <4>3. QED
        BY <4>2 DEF DeadWasTried
    <3>10. QED
      BY <3>6, <3>7, <3>8, <3>9 DEF CountInv
  <2>7. CASE PushLetter(w)
    <3>1. /\ UNCHANGED <<outbox, fails>>
          /\ \A v \in Workers : pc'[v] = "failing" => pc[v] = "failing" /\ v # w
          /\ \A v \in Workers : v # w => cur'[v] = cur[v]
          /\ \A v \in Workers : snap'[v] \in {snap[v], NoSnap}
      BY <2>7, <1>t DEF PushLetter, Proceed, network
    <3>2. QED
      BY <3>1, <1>t, <1>z, KeepsCount DEF Failing
  <2>8. QED
    BY <1>3, <2>1, <2>2, <2>3, <2>4, <2>5, <2>7 DEF WorkerStep
<1>4. ASSUME NEW w \in Workers, TickAborts(w) PROVE CountInv'
  <2>1. /\ UNCHANGED <<outbox, fails>>
        /\ pc' = [pc EXCEPT ![w] = "idle"]
        /\ \A v \in Workers : v # w => cur'[v] = cur[v]
        /\ \A v \in Workers : snap'[v] \in {snap[v], NoSnap}
    BY <1>4, <1>t DEF TickAborts, Forgets, store
  <2>2. QED
    BY <2>1, <1>t, <1>z, KeepsCount DEF Failing
<1>5. ASSUME NEW w \in Workers, NEW m \in Messages, Heartbeat(w, m) PROVE CountInv'
  <2>1. /\ UNCHANGED <<pc, cur, snap, fails>>
        /\ \A n \in Messages : /\ outbox'[n].attempts = outbox[n].attempts
                               /\ outbox'[n].status = outbox[n].status
    BY <1>5, <1>t DEF Heartbeat, Leased, worker, network
  <2>2. QED
    BY <2>1, <1>t, KeepsCount DEF Failing
<1>6. ASSUME NEW r \in Replays, ReplayStep(r) PROVE CountInv'
  <2>1. UNCHANGED <<pc, cur, snap, fails>>
    BY <1>6 DEF ReplayStep, ReplayRead, ReplayRevive, ReplayRemove, store, worker,
                network
  <2>2. \A m \in Messages :
           /\ outbox'[m].attempts <= outbox[m].attempts
           /\ outbox'[m].status = "Dead" => outbox[m].status = "Dead"
    BY <1>6, <1>t DEF ReplayStep, ReplayRead, ReplayRevive, ReplayRemove, SetRow,
                      store
  <2>3. QED
    BY <2>1, <2>2, <1>t, KeepsCount DEF Failing
<1>7. CASE Purge
  BY <1>7, <1>t, KeepsCount DEF Purge, Failing, worker, network
<1>8. CASE Tick
  <2>1. /\ UNCHANGED <<pc, cur, snap, fails>>
        /\ \A n \in Messages : /\ outbox'[n].attempts = outbox[n].attempts
                               /\ outbox'[n].status = outbox[n].status
    BY <1>8 DEF Tick, Later, network
  <2>2. QED
    BY <2>1, <1>t, KeepsCount DEF Failing
<1>9. CASE UNCHANGED vars
  BY <1>9, <1>t, KeepsCount DEF vars, store, worker, network, Failing
<1>10. QED
  BY <1>1, <1>2, <1>3, <1>4, <1>5, <1>6, <1>7, <1>8, <1>9 DEF Next

\* The empty outbox counts nothing.
LEMMA InitCountInv == Init => CountInv
<1> SUFFICES ASSUME Init PROVE CountInv
  OBVIOUS
<1>1. \A m \in Messages : Failing(m) = {}
  BY DEF Init, Failing
<1>2. \A m \in Messages : Cardinality(Failing(m)) = 0
  BY <1>1, FS_EmptySet
<1>3. QED
  BY <1>2 DEF Init, CountInv, DeadWasTried, NoRow, NoSnap

\* No message is dead-lettered before max_attempts sends of it have failed, even
\* when stale workers, aborted ticks and replays interleave.
THEOREM DeadTried == Spec => []DeadWasTried
<1>1. Init => CountInv
  BY InitCountInv
<1>2. CountInv => DeadWasTried
  BY DEF CountInv
<1>3. QED
  BY <1>1, <1>2, TypeCorrect, NextCountInv, PTL DEF Spec

\* No step of a worker over the memory store leads among candidates.
LEMMA NextNoSelection ==
    TypeInv /\ NoSelection /\ [Next]_vars => NoSelection'
<1> SUFFICES ASSUME TypeInv, NoSelection, [Next]_vars PROVE NoSelection'
  OBVIOUS
<1>1. \/ pc' = pc
      \/ \E w \in Workers, step \in Steps \ {"selecting"} :
            pc' = [pc EXCEPT ![w] = step]
  <2>1. ASSUME NEW w \in Workers, WorkerStep(w)
        PROVE  \E step \in Steps \ {"selecting"} : pc' = [pc EXCEPT ![w] = step]
    BY <2>1 DEF WorkerStep, StartSend, SendOk, SendErr, AckDone, NackBackoff,
       DeadLetter, PushLetter, Proceed, Steps
  <2>2. ASSUME NEW w \in Workers, LeaseBatch(w) \/ TickAborts(w)
        PROVE  \E step \in Steps \ {"selecting"} : pc' = [pc EXCEPT ![w] = step]
    BY <2>2 DEF LeaseBatch, TickAborts, Forgets, Steps
  <2>3. CASE \/ \E m \in Messages : Enqueue(m)
             \/ \E w \in Workers, m \in Messages : Heartbeat(w, m)
             \/ \E r \in Replays : ReplayStep(r)
             \/ Purge
             \/ Tick
             \/ UNCHANGED vars
    BY <2>3 DEF Enqueue, Heartbeat, ReplayStep, ReplayRead, ReplayRevive,
       ReplayRemove, Purge, Tick, vars, worker
  <2>4. QED
    BY <2>1, <2>2, <2>3 DEF Next
<1>2. QED
  BY <1>1 DEF NoSelection, TypeInv, TypesOK

\* The invariant of the runs with stale workers, aborted ticks and replays, for every
\* value of the constants.
THEOREM OutboxSafe == Spec => []OutboxInv
<1>1. Init => NoSelection
  BY DEF Init, NoSelection
<1>2. TypeInv /\ NoSelection /\ [Next]_vars => NoSelection'
  BY NextNoSelection
<1>3. TypeInv /\ NoSelection /\ DoneWasDelivered /\ DeadWasTried => OutboxInv
  BY DEF TypeInv, TypesOK, TypeOK, NoSelection, Steps, OutboxInv
<1> QED
  BY <1>1, <1>2, <1>3, TypeCorrect, DoneDelivered, DeadTried, PTL DEF Spec

-----------------------------------------------------------------------------
(* Prompt ticks: a lease excludes.                                         *)

\* Environment: no two replay calls are under way on the same letter.
ReplaysApart ==
    \A r, s \in Replays :
        /\ {replay[r].pc, replay[s].pc} \subseteq {"read", "revived"}
        /\ replay[r].ref = replay[s].ref
        => r = s

\* What a worker has in hand is leased to it for as long as its tick may last,
\* and the row counts the attempts the worker saw when it took the lease.
HeldInv ==
    \A w \in Workers : \A m \in InHand(w) :
        /\ outbox[m].status = "Leased"
        /\ outbox[m].worker = w
        /\ outbox[m].lease + age[w] >= Lease
        /\ snap[w][m] = outbox[m].attempts

\* A worker between two ticks has nothing, one in a tick is within its leases
\* and has a batch or a message, and the message in hand has left the batch.
BatchInv ==
    \A w \in Workers :
        /\ pc[w] = "idle" => todo[w] = {} /\ age[w] = 0
        /\ age[w] < Lease
        /\ pc[w] = "working" => todo[w] # {}
        /\ pc[w] # "working" => cur[w] \notin todo[w]

\* An open row has attempts left, and one that is not there yet has had none.
OpenInv ==
    \A m \in Messages :
        /\ outbox[m].status \in Open => outbox[m].attempts + 1 <= MaxAttempts
        /\ outbox[m].status = "Absent" => outbox[m].attempts = 0

\* A replay call that has read its letter finds the row dead, and so does a
\* worker that pushes a letter: it is the only one, and no call has read yet.
DeadInv ==
    /\ \A r \in Replays :
          replay[r].pc = "read" => outbox[replay[r].ref].status = "Dead"
    /\ \A w \in Workers : pc[w] = "pushing" =>
          /\ outbox[cur[w]].status = "Dead"
          /\ \A r \in Replays :
                replay[r].pc = "read" => replay[r].ref # cur[w]
          /\ \A v \in Workers : pc[v] = "pushing" /\ cur[v] = cur[w] => v = w

\* A letter is for a dead row whose letter nobody is pushing, or a replay call
\* has brought the row back and is about to remove the letter.
LetterInv ==
    \A m \in letters :
        \/ /\ outbox[m].status = "Dead"
           /\ \A w \in Workers : pc[w] = "pushing" => cur[w] # m
        \/ \E r \in Replays : replay[r].pc = "revived" /\ replay[r].ref = m

PromptInv == HeldInv /\ BatchInv /\ OpenInv /\ DeadInv /\ LetterInv


\* The types PromptInv's proofs need, one by one.
LEMMA PromptTypes ==
    ASSUME TypeInv
    PROVE  /\ outbox \in [Messages -> Row]
           /\ \A m \in Messages : /\ outbox[m].attempts \in Nat
                                  /\ outbox[m].lease \in Nat
                                  /\ outbox[m].worker \in Workers \cup {NoWorker}
           /\ pc \in [Workers -> Steps]
           /\ todo \in [Workers -> SUBSET Messages]
           /\ cur \in [Workers -> Messages \cup {NoMessage}]
           /\ snap \in [Workers -> [Messages -> Nat]]
           /\ age \in [Workers -> Nat]
           /\ replay \in [Replays -> [pc : {"ready", "read", "revived", "over"},
                                      ref : Messages \cup {NoMessage}]]
           /\ letters \subseteq Messages
           /\ Lease \in Nat /\ Lease > 0
           /\ MaxAttempts \in Nat /\ MaxAttempts > 0
           /\ \A w \in Workers : InHand(w) \subseteq Messages
BY ParametersAssumption DEF TypeInv, TypesOK, HandOK, Row, InHand

\* A message is in one worker's hand at most, and its row is not dead.
LEMMA HeldApart ==
    ASSUME HeldInv, NEW v \in Workers, NEW m \in InHand(v)
    PROVE  /\ outbox[m].status = "Leased"
           /\ \A w \in Workers : m \in InHand(w) => w = v
BY DEF HeldInv

\* Steps that give nobody a message and leave what is in hand alone.
LEMMA KeepsHeld ==
    ASSUME HeldInv,
           \A w \in Workers : InHand(w)' \subseteq InHand(w),
           \A w \in Workers : \A m \in InHand(w)' :
              /\ outbox'[m] = outbox[m]
              /\ snap'[w][m] = snap[w][m]
              /\ age'[w] = age[w]
    PROVE  HeldInv'
BY DEF HeldInv

\* A worker that is through with the message in hand keeps the rest of its
\* batch as it is, or, having none, forgets it.
LEMMA ProceedHeld ==
    ASSUME TypeInv, BatchInv, NEW w \in Workers, Proceed(w),
           pc[w] \in {"acking", "failing", "pushing"}
    PROVE  /\ InHand(w)' = todo[w]
           /\ cur[w] \notin todo[w]
           /\ \A v \in Workers \ {w} :
                 /\ InHand(v)' = InHand(v)
                 /\ snap'[v] = snap[v]
                 /\ age'[v] = age[v]
           /\ todo[w] # {} => snap' = snap /\ age' = age
           /\ BatchInv'
           /\ pc'[w] \in {"idle", "working"}
           /\ \A v \in Workers \ {w} : pc'[v] = pc[v] /\ cur'[v] = cur[v]
<1>t. /\ pc \in [Workers -> Steps]
      /\ todo \in [Workers -> SUBSET Messages]
      /\ cur \in [Workers -> Messages \cup {NoMessage}]
      /\ snap \in [Workers -> [Messages -> Nat]]
      /\ age \in [Workers -> Nat]
      /\ Lease \in Nat /\ Lease > 0
  BY PromptTypes
<1>1. /\ pc' = [pc EXCEPT ![w] = IF todo[w] = {} THEN "idle" ELSE "working"]
      /\ cur' = [cur EXCEPT ![w] = NoMessage]
      /\ todo' = todo
  BY DEF Proceed
<1>2. \A v \in Workers \ {w} : snap'[v] = snap[v] /\ age'[v] = age[v]
  BY <1>t DEF Proceed
<1>3. /\ todo[w] # {} => snap' = snap /\ age' = age
      /\ todo[w] = {} => age'[w] = 0
  BY <1>t DEF Proceed
<1>4. cur[w] \notin todo[w]
  BY DEF BatchInv
<1>5. InHand(w)' = todo[w]
  BY <1>1, <1>t DEF InHand
<1>6. \A v \in Workers \ {w} : InHand(v)' = InHand(v)
  BY <1>1, <1>t DEF InHand
<1>7. BatchInv'
  BY <1>1, <1>2, <1>3, <1>t DEF BatchInv
<1>8. QED
  BY <1>1, <1>2, <1>3, <1>4, <1>5, <1>6, <1>7, <1>t

\* Settling a message held by w keeps the lease of every other message.
LEMMA SettleHeld ==
    ASSUME TypeInv, HeldInv, BatchInv, NEW w \in Workers, Proceed(w),
           pc[w] \in {"acking", "failing"},
           \A m \in Messages \ {cur[w]} : outbox'[m] = outbox[m]
    PROVE  HeldInv'
<1>1. /\ \A v \in Workers \ {w} :
            /\ InHand(v)' = InHand(v)
            /\ snap'[v] = snap[v]
            /\ age'[v] = age[v]
      /\ InHand(w)' = todo[w]
      /\ cur[w] \notin todo[w]
      /\ todo[w] # {} => snap' = snap /\ age' = age
  BY ProceedHeld
<1>2. cur[w] \in InHand(w) /\ todo[w] \subseteq InHand(w)
  BY DEF InHand
<1>3. \A v \in Workers : InHand(v) \subseteq Messages
  BY PromptTypes
<1>4. \A v \in Workers \ {w} : cur[w] \notin InHand(v)
  BY <1>2, HeldApart
<1>5. \A v \in Workers : InHand(v)' \subseteq InHand(v)
  BY <1>1, <1>2
<1>6. ASSUME NEW v \in Workers, NEW m \in InHand(v)'
      PROVE  /\ outbox'[m] = outbox[m]
             /\ snap'[v][m] = snap[v][m]
             /\ age'[v] = age[v]
  <2>1. CASE v = w
    BY <2>1, <1>1, <1>3, <1>5, <1>6
  <2>2. CASE v # w
    BY <2>2, <1>1, <1>3, <1>4, <1>5, <1>6
  <2>3. QED
    BY <2>1, <2>2
<1>7. QED
  BY <1>5, <1>6, KeepsHeld


\* A step that leaves rows, hands, pushers and letters alone.
LEMMA KeepsDead ==
    ASSUME TypeInv, DeadInv, LetterInv,
           \A m \in Messages :
              outbox[m].status = "Dead" => outbox'[m].status = "Dead",
           \A w \in Workers : pc'[w] = "pushing" =>
              pc[w] = "pushing" /\ cur'[w] = cur[w],
           replay' = replay,
           letters' \subseteq letters
    PROVE  DeadInv' /\ LetterInv'
<1>1. /\ \A r \in Replays : replay[r].pc = "read" => replay[r].ref \in Messages
      /\ \A w \in Workers : pc[w] = "pushing" => cur[w] \in Messages
      /\ letters \subseteq Messages
  BY DEF TypeInv, TypesOK, HandOK
<1>2. DeadInv'
  BY <1>1 DEF DeadInv
<1>3. LetterInv'
  BY <1>1 DEF LetterInv
<1>4. QED
  BY <1>2, <1>3

\* A worker that forgets its batch leaves every row as it is.
LEMMA ForgetsPrompt ==
    ASSUME TypeInv, PromptInv, NEW w \in Workers, Forgets(w),
           UNCHANGED <<outbox, letters, replay>>
    PROVE  PromptInv'
<1>p. HeldInv /\ BatchInv /\ OpenInv /\ DeadInv /\ LetterInv
  BY DEF PromptInv
<1>t. /\ pc \in [Workers -> Steps]
      /\ todo \in [Workers -> SUBSET Messages]
      /\ cur \in [Workers -> Messages \cup {NoMessage}]
      /\ snap \in [Workers -> [Messages -> Nat]]
      /\ age \in [Workers -> Nat]
      /\ Lease \in Nat /\ Lease > 0
  BY PromptTypes
<1>1. /\ pc' = [pc EXCEPT ![w] = "idle"]
      /\ todo' = [todo EXCEPT ![w] = {}]
      /\ cur' = [cur EXCEPT ![w] = NoMessage]
      /\ snap' = [snap EXCEPT ![w] = NoSnap]
      /\ age' = [age EXCEPT ![w] = 0]
  BY DEF Forgets
<1>2. /\ InHand(w)' = {}
      /\ \A v \in Workers \ {w} : InHand(v)' = InHand(v)
  BY <1>1, <1>t DEF InHand
<1>3. HeldInv'
  BY <1>1, <1>2, <1>p, <1>t, KeepsHeld
<1>4. BatchInv'
  BY <1>1, <1>t, <1>p DEF BatchInv
<1>5. OpenInv'
  BY <1>p DEF OpenInv
<1>6. DeadInv' /\ LetterInv'
  <2>1. \A v \in Workers : pc'[v] = "pushing" =>
           pc[v] = "pushing" /\ cur'[v] = cur[v]
    BY <1>1, <1>t
  <2>2. letters' \subseteq letters
    OBVIOUS
  <2>3. QED
    BY <2>1, <2>2, <1>p, KeepsDead
<1>7. QED
  BY <1>3, <1>4, <1>5, <1>6 DEF PromptInv

\* With prompt ticks every step preserves PromptInv.
LEMMA NextPromptInv ==
    ASSUME Prompt, TypeInv, PromptInv, ReplaysApart, ReplaysApart', [Next]_vars
    PROVE  PromptInv'
<1>p. HeldInv /\ BatchInv /\ OpenInv /\ DeadInv /\ LetterInv
  BY DEF PromptInv
<1>t. /\ outbox \in [Messages -> Row]
      /\ \A m \in Messages : /\ outbox[m].attempts \in Nat
                             /\ outbox[m].lease \in Nat
                             /\ outbox[m].worker \in Workers \cup {NoWorker}
      /\ pc \in [Workers -> Steps]
      /\ todo \in [Workers -> SUBSET Messages]
      /\ cur \in [Workers -> Messages \cup {NoMessage}]
      /\ snap \in [Workers -> [Messages -> Nat]]
      /\ age \in [Workers -> Nat]
      /\ replay \in [Replays -> [pc : {"ready", "read", "revived", "over"},
                                 ref : Messages \cup {NoMessage}]]
      /\ letters \subseteq Messages
      /\ Lease \in Nat /\ Lease > 0
      /\ MaxAttempts \in Nat /\ MaxAttempts > 0
      /\ \A w \in Workers : InHand(w) \subseteq Messages
  BY PromptTypes
<1>h. HandOK
  BY DEF TypeInv
<1>1. ASSUME NEW m \in Messages, Enqueue(m) PROVE PromptInv'
  <2>1. /\ outbox[m].status = "Absent"
        /\ outbox'[m].status = "Pending" /\ outbox'[m].attempts = 0
        /\ \A n \in Messages \ {m} : outbox'[n] = outbox[n]
        /\ UNCHANGED <<pc, todo, cur, snap, age, replay, letters>>
    BY <1>1, <1>t DEF Enqueue, SetRow, worker
  <2>2. \A w \in Workers : InHand(w)' = InHand(w) /\ m \notin InHand(w)
    BY <2>1, <1>p DEF InHand, HeldInv
  <2>3. HeldInv'
    BY <2>1, <2>2, <1>p, <1>t, KeepsHeld
  <2>4. BatchInv'
    BY <2>1, <1>p DEF BatchInv
  <2>5. OpenInv'
    BY <2>1, <1>p, <1>t DEF OpenInv
  <2>6. DeadInv' /\ LetterInv'
    <3>1. \A n \in Messages :
             outbox[n].status = "Dead" => outbox'[n].status = "Dead"
      BY <2>1
    <3>2. letters' \subseteq letters
      BY <2>1
    <3>3. QED
      BY <2>1, <3>1, <3>2, <1>p, KeepsDead
  <2>7. QED
    BY <2>3, <2>4, <2>5, <2>6 DEF PromptInv
<1>2. ASSUME NEW w \in Workers, LeaseBatch(w) PROVE PromptInv'
  <2> PICK S \in Selections(w) \ {{}} :
        /\ outbox' = [m \in Messages |->
                        IF m \in S THEN Leased(outbox[m], "Leased", w)
                        ELSE outbox[m]]
        /\ todo' = [todo EXCEPT ![w] = S]
        /\ snap' = [snap EXCEPT ![w] = [m \in Messages |->
                        IF m \in S THEN outbox[m].attempts ELSE 0]]
    BY <1>2 DEF LeaseBatch
  <2>1. /\ pc[w] = "idle"
        /\ pc' = [pc EXCEPT ![w] = "working"]
        /\ UNCHANGED <<letters, cur, age, replay>>
    BY <1>2 DEF LeaseBatch
  <2>2. /\ S \subseteq Messages
        /\ \A m \in S : /\ outbox[m].status \in Open
                        /\ outbox[m].lease > 0 => outbox[m].worker = w
    BY DEF Selections, Eligible
  <2>3. /\ InHand(w)' = S
        /\ InHand(w) = {}
        /\ age[w] = 0
        /\ \A v \in Workers \ {w} : InHand(v)' = InHand(v)
    BY <2>1, <1>t, <1>p DEF InHand, BatchInv
  <2>4. ASSUME NEW v \in Workers \ {w}, NEW m \in InHand(v)
        PROVE  m \notin S
    <3>1. /\ outbox[m].worker = v
          /\ outbox[m].lease + age[v] >= Lease
          /\ age[v] < Lease
          /\ m \in Messages
      BY <1>p, <1>t DEF HeldInv, BatchInv
    <3>2. outbox[m].lease > 0
      BY <3>1, <1>t
    <3>3. QED
      BY <3>1, <3>2, <2>2
  <2>5. HeldInv'
    <3>1. ASSUME NEW v \in Workers, NEW m \in InHand(v)'
          PROVE  /\ outbox'[m].status = "Leased"
                 /\ outbox'[m].worker = v
                 /\ outbox'[m].lease + age'[v] >= Lease
                 /\ snap'[v][m] = outbox'[m].attempts
      <4>1. CASE v = w
        <5>1. m \in S /\ m \in Messages
          BY <4>1, <3>1, <2>2, <2>3
        <5>2. /\ outbox'[m] = Leased(outbox[m], "Leased", w)
              /\ snap'[w][m] = outbox[m].attempts
              /\ age'[w] = 0
          BY <5>1, <2>1, <2>3, <1>t
        <5>3. QED
          BY <5>2, <4>1, <1>t DEF Leased
      <4>2. CASE v # w
        <5>1. m \in InHand(v) /\ m \notin S /\ m \in Messages
          BY <4>2, <3>1, <2>3, <2>4, <1>t
        <5>2. outbox'[m] = outbox[m] /\ snap'[v] = snap[v] /\ age' = age
          BY <5>1, <4>2, <2>1, <1>t
        <5>3. QED
          BY <5>1, <5>2, <1>p DEF HeldInv
      <4>3. QED
        BY <4>1, <4>2
    <3>2. QED
      BY <3>1 DEF HeldInv
  <2>6. BatchInv'
    BY <2>1, <1>t, <1>p DEF BatchInv
  <2>7. \A m \in Messages :
           /\ outbox'[m].attempts = outbox[m].attempts
           /\ m \in S => outbox'[m].status = "Leased" /\ outbox[m].status \in Open
           /\ m \notin S => outbox'[m] = outbox[m]
    BY <2>2 DEF Leased
  <2>8. OpenInv'
    BY <2>7, <1>p, <1>t DEF OpenInv
  <2>9. DeadInv' /\ LetterInv'
    <3>1. \A n \in Messages :
             outbox[n].status = "Dead" => outbox'[n].status = "Dead"
      BY <2>7 DEF Open
    <3>2. \A v \in Workers : pc'[v] = "pushing" =>
             pc[v] = "pushing" /\ cur'[v] = cur[v]
      BY <2>1, <1>t
    <3>3. letters' \subseteq letters /\ replay' = replay
      BY <2>1
    <3>4. QED
      BY <3>1, <3>2, <3>3, <1>p, KeepsDead
  <2>10. QED
    BY <2>5, <2>6, <2>8, <2>9 DEF PromptInv
<1>3. ASSUME NEW w \in Workers, NEW m \in Messages, StartSend(w, m) PROVE PromptInv'
  <2>1. /\ pc[w] = "working" /\ m \in todo[w]
        /\ pc' = [pc EXCEPT ![w] = "sending"]
        /\ cur' = [cur EXCEPT ![w] = m]
        /\ todo' = [todo EXCEPT ![w] = @ \ {m}]
        /\ UNCHANGED <<outbox, letters, snap, age, replay>>
    BY <1>3 DEF StartSend, store
  <2>2. \A v \in Workers : InHand(v)' = InHand(v)
    BY <2>1, <1>t DEF InHand
  <2>3. HeldInv'
    BY <2>1, <2>2, <1>p, KeepsHeld
  <2>4. BatchInv'
    BY <2>1, <1>t, <1>p DEF BatchInv
  <2>5. OpenInv'
    BY <2>1, <1>p DEF OpenInv
  <2>6. DeadInv' /\ LetterInv'
    <3>1. \A v \in Workers : pc'[v] = "pushing" =>
             pc[v] = "pushing" /\ cur'[v] = cur[v]
      BY <2>1, <1>t
    <3>2. letters' \subseteq letters
      BY <2>1
    <3>3. QED
      BY <2>1, <3>1, <3>2, <1>p, KeepsDead
  <2>7. QED
    BY <2>3, <2>4, <2>5, <2>6 DEF PromptInv
<1>4. ASSUME NEW w \in Workers, SendOk(w) \/ SendErr(w) PROVE PromptInv'
  <2>1. /\ pc[w] = "sending"
        /\ \/ pc' = [pc EXCEPT ![w] = "acking"]
           \/ pc' = [pc EXCEPT ![w] = "failing"]
        /\ UNCHANGED <<outbox, letters, todo, cur, snap, age, replay>>
    BY <1>4 DEF SendOk, SendErr, store
  <2>2. \A v \in Workers : InHand(v)' = InHand(v)
    BY <2>1, <1>t DEF InHand
  <2>3. HeldInv'
    BY <2>1, <2>2, <1>p, KeepsHeld
  <2>4. BatchInv'
    BY <2>1, <1>t, <1>p DEF BatchInv
  <2>5. OpenInv'
    BY <2>1, <1>p DEF OpenInv
  <2>6. DeadInv' /\ LetterInv'
    <3>1. \A v \in Workers : pc'[v] = "pushing" =>
             pc[v] = "pushing" /\ cur'[v] = cur[v]
      BY <2>1, <1>t
    <3>2. letters' \subseteq letters
      BY <2>1
    <3>3. QED
      BY <2>1, <3>1, <3>2, <1>p, KeepsDead
  <2>7. QED
    BY <2>3, <2>4, <2>5, <2>6 DEF PromptInv
<1>5. ASSUME NEW w \in Workers, AckDone(w) \/ NackBackoff(w) PROVE PromptInv'
  <2> DEFINE m == cur[w]
  <2>1. /\ pc[w] \in {"acking", "failing"}
        /\ Proceed(w)
        /\ UNCHANGED <<letters, replay>>
        /\ m \in Messages
        /\ m \in InHand(w)
    BY <1>5, <1>h DEF AckDone, NackBackoff, HandOK, InHand
  <2>2. \A n \in Messages \ {m} : outbox'[n] = outbox[n]
    BY <1>5, <2>1, <1>t DEF AckDone, NackBackoff, SetRow
  <2>3. outbox'[m].status \in Open => outbox'[m].attempts + 1 <= MaxAttempts
    <3>1. CASE AckDone(w)
      BY <3>1, <2>1, <1>t DEF AckDone, SetRow, Open
    <3>2. CASE NackBackoff(w)
      <4>1. /\ outbox'[m].attempts = outbox[m].attempts + 1
            /\ ~(snap[w][m] + 1 >= MaxAttempts)
        BY <3>2, <2>1, <1>t DEF NackBackoff, SetRow, Exhausted
      <4>2. snap[w][m] = outbox[m].attempts
        BY <2>1, <1>p DEF HeldInv
      <4>3. QED
        BY <4>1, <4>2, <2>1, <1>t
    <3>3. QED
      BY <3>1, <3>2, <1>5
  <2>4. outbox[m].status = "Leased"
    BY <2>1, <1>p DEF HeldInv
  <2>5. HeldInv' /\ BatchInv'
    BY <2>1, <2>2, <1>p, SettleHeld, ProceedHeld
  <2>6. OpenInv'
    <3>1. outbox'[m].status # "Absent"
      BY <1>5, <2>1, <1>t DEF AckDone, NackBackoff, SetRow
    <3>2. QED
      BY <3>1, <2>2, <2>3, <1>p DEF OpenInv
  <2>7. DeadInv' /\ LetterInv'
    <3>1. \A v \in Workers : pc'[v] = "pushing" =>
             pc[v] = "pushing" /\ cur'[v] = cur[v]
      BY <2>1, <1>p, ProceedHeld
    <3>2. letters' \subseteq letters /\ replay' = replay
      BY <2>1
    <3>3. \A n \in Messages :
             outbox[n].status = "Dead" => outbox'[n].status = "Dead"
      BY <2>2, <2>4
    <3>4. QED
      BY <3>1, <3>2, <3>3, <1>p, KeepsDead
  <2>8. QED
    BY <2>5, <2>6, <2>7 DEF PromptInv
<1>6. ASSUME NEW w \in Workers, DeadLetter(w) PROVE PromptInv'
  <2> DEFINE m == cur[w]
  <2>1. /\ pc[w] = "failing"
        /\ pc' = [pc EXCEPT ![w] = "pushing"]
        /\ UNCHANGED <<letters, todo, cur, snap, age, replay>>
        /\ m \in Messages
        /\ m \in InHand(w)
        /\ outbox'[m].status = "Dead"
        /\ \A n \in Messages \ {m} : outbox'[n] = outbox[n]
    BY <1>6, <1>t, <1>h DEF DeadLetter, HandOK, InHand, SetRow
  <2>2. /\ outbox[m].status = "Leased"
        /\ m \notin todo[w]
        /\ \A v \in Workers : m \in InHand(v) => v = w
    BY <2>1, <1>p, HeldApart DEF BatchInv
  <2>3. /\ InHand(w)' = todo[w] /\ todo[w] \subseteq InHand(w)
        /\ \A v \in Workers \ {w} : InHand(v)' = InHand(v)
    BY <2>1, <1>t DEF InHand
  <2>4. HeldInv'
    <3>1. ASSUME NEW v \in Workers, NEW n \in InHand(v)'
          PROVE  n \in InHand(v) /\ n # m /\ n \in Messages
      BY <3>1, <2>2, <2>3, <1>t
    <3>2. QED
      BY <3>1, <2>1, <1>p, KeepsHeld
  <2>5. BatchInv'
    BY <2>1, <1>t, <1>p DEF BatchInv
  <2>6. OpenInv'
    BY <2>1, <1>p DEF OpenInv, Open
  <2>7. \A n \in Messages :
           outbox[n].status = "Dead" => outbox'[n].status = "Dead" /\ n # m
    BY <2>1, <2>2
  <2>8. DeadInv'
    <3>1. \A r \in Replays : replay[r].pc = "read" =>
             /\ replay[r].ref \in Messages
             /\ outbox[replay[r].ref].status = "Dead"
      BY <1>p, <1>h DEF DeadInv, HandOK
    <3>2. \A v \in Workers : pc[v] = "pushing" =>
             /\ cur[v] \in Messages
             /\ outbox[cur[v]].status = "Dead"
      BY <1>p, <1>h DEF DeadInv, HandOK
    <3>3. \A v \in Workers : pc'[v] = "pushing" <=> pc[v] = "pushing" \/ v = w
      BY <2>1, <1>t
    <3>4. \A v \in Workers : pc'[v] = "pushing" =>
             \/ v = w
             \/ pc[v] = "pushing" /\ cur[v] # m
      BY <3>2, <3>3, <2>7
    <3>5. \A r \in Replays : replay'[r].pc = "read" =>
             outbox'[replay'[r].ref].status = "Dead" /\ replay'[r].ref # m
      BY <3>1, <2>1, <2>7
    <3>6. ASSUME NEW v \in Workers, pc'[v] = "pushing"
          PROVE  /\ outbox'[cur'[v]].status = "Dead"
                 /\ \A r \in Replays :
                       replay'[r].pc = "read" => replay'[r].ref # cur'[v]
                 /\ \A u \in Workers :
                       pc'[u] = "pushing" /\ cur'[u] = cur'[v] => u = v
      <4>1. CASE v = w
        BY <4>1, <3>4, <3>5, <2>1
      <4>2. CASE v # w
        BY <4>2, <3>2, <3>4, <3>6, <2>1, <2>7, <1>p DEF DeadInv
      <4>3. QED
        BY <4>1, <4>2
    <3>7. QED
      BY <3>5, <3>6 DEF DeadInv
  <2>9. LetterInv'
    <3>1. ASSUME NEW n \in letters'
          PROVE  \/ /\ outbox'[n].status = "Dead"
                    /\ \A v \in Workers : pc'[v] = "pushing" => cur'[v] # n
                 \/ \E r \in Replays : replay'[r].pc = "revived" /\ replay'[r].ref = n
      <4>1. n \in letters /\ n \in Messages
        BY <3>1, <2>1, <1>t
      <4>2. CASE \E r \in Replays : replay[r].pc = "revived" /\ replay[r].ref = n
        BY <4>2, <2>1
      <4>3. CASE /\ outbox[n].status = "Dead"
                 /\ \A v \in Workers : pc[v] = "pushing" => cur[v] # n
        BY <4>1, <4>3, <2>1, <2>7, <1>t
      <4>4. QED
        BY <4>1, <4>2, <4>3, <1>p DEF LetterInv
    <3>2. QED
      BY <3>1 DEF LetterInv
  <2>10. QED
    BY <2>4, <2>5, <2>6, <2>8, <2>9 DEF PromptInv
<1>7. ASSUME NEW w \in Workers, PushLetter(w) PROVE PromptInv'
  <2> DEFINE m == cur[w]
  <2>1. /\ pc[w] = "pushing"
        /\ letters' = letters \cup {m}
        /\ UNCHANGED <<outbox, replay>>
        /\ Proceed(w)
        /\ m \in Messages
    BY <1>7, <1>h DEF PushLetter, HandOK
  <2>2. /\ outbox[m].status = "Dead"
        /\ \A v \in Workers : pc[v] = "pushing" /\ cur[v] = m => v = w
    BY <2>1, <1>p DEF DeadInv
  <2>3. /\ \A v \in Workers \ {w} :
              /\ InHand(v)' = InHand(v)
              /\ snap'[v] = snap[v]
              /\ age'[v] = age[v]
              /\ pc'[v] = pc[v]
              /\ cur'[v] = cur[v]
        /\ InHand(w)' = todo[w] /\ todo[w] \subseteq InHand(w)
        /\ todo[w] # {} => snap' = snap /\ age' = age
        /\ BatchInv'
        /\ pc'[w] # "pushing"
    BY <2>1, <1>p, ProceedHeld DEF InHand
  <2>4. HeldInv'
    <3>1. ASSUME NEW v \in Workers, NEW n \in InHand(v)'
          PROVE  /\ n \in InHand(v)
                 /\ snap'[v][n] = snap[v][n]
                 /\ age'[v] = age[v]
      <4>1. CASE v = w
        BY <4>1, <3>1, <2>3
      <4>2. CASE v # w
        BY <4>2, <3>1, <2>3
      <4>3. QED
        BY <4>1, <4>2
    <3>2. QED
      BY <3>1, <2>1, <1>p, KeepsHeld
  <2>5. OpenInv'
    BY <2>1, <1>p DEF OpenInv
  <2>6. \A v \in Workers : pc'[v] = "pushing" =>
           v # w /\ pc[v] = "pushing" /\ cur'[v] = cur[v]
    BY <2>3
  <2>7. DeadInv'
    BY <2>1, <2>6, <1>p DEF DeadInv
  <2>8. LetterInv'
    BY <2>1, <2>2, <2>6, <1>p DEF LetterInv
  <2>9. QED
    BY <2>3, <2>4, <2>5, <2>7, <2>8 DEF PromptInv
<1>8. ASSUME NEW w \in Workers, TickAborts(w) PROVE PromptInv'
  BY <1>8, ForgetsPrompt DEF TickAborts, store
<1>9. ASSUME NEW w \in Workers, NEW m \in Messages, Heartbeat(w, m) PROVE PromptInv'
  <2>1. /\ m \in InHand(w)
        /\ outbox' = [outbox EXCEPT ![m] = Leased(outbox[m], outbox[m].status, w)]
        /\ UNCHANGED <<letters, pc, todo, cur, snap, age, replay>>
    BY <1>9 DEF Heartbeat, worker
  <2>2. /\ outbox'[m] = Leased(outbox[m], outbox[m].status, w)
        /\ \A n \in Messages \ {m} : outbox'[n] = outbox[n]
        /\ \A n \in Messages : /\ outbox'[n].status = outbox[n].status
                               /\ outbox'[n].attempts = outbox[n].attempts
    BY <2>1, <1>t DEF Leased
  <2>3. \A v \in Workers : InHand(v)' = InHand(v)
    BY <2>1 DEF InHand
  <2>4. HeldInv'
    <3>1. ASSUME NEW v \in Workers, NEW n \in InHand(v)
          PROVE  /\ outbox'[n].status = "Leased"
                 /\ outbox'[n].worker = v
                 /\ outbox'[n].lease + age[v] >= Lease
                 /\ snap[v][n] = outbox'[n].attempts
      <4>1. /\ n \in Messages
            /\ outbox[n].status = "Leased"
            /\ outbox[n].worker = v
            /\ outbox[n].lease + age[v] >= Lease
            /\ snap[v][n] = outbox[n].attempts
        BY <1>p, <1>t DEF HeldInv
      <4>2. CASE n = m
        <5>1. v = w
          BY <4>2, <2>1, <1>p, HeldApart
        <5>2. QED
          BY <5>1, <4>1, <4>2, <2>2, <1>t DEF Leased
      <4>3. CASE n # m
        BY <4>1, <4>3, <2>2
      <4>4. QED
        BY <4>2, <4>3
    <3>2. QED
      BY <3>1, <2>1, <2>3 DEF HeldInv
  <2>5. BatchInv'
    BY <2>1, <1>p DEF BatchInv
  <2>6. OpenInv'
    BY <2>2, <1>p DEF OpenInv
  <2>7. DeadInv' /\ LetterInv'
    <3>1. letters' \subseteq letters
      BY <2>1
    <3>2. QED
      BY <2>1, <2>2, <3>1, <1>p, KeepsDead
  <2>8. QED
    BY <2>4, <2>5, <2>6, <2>7 DEF PromptInv
<1>10. ASSUME NEW r \in Replays, NEW m \in Messages, ReplayRead(r, m) PROVE PromptInv'
  <2>1. /\ replay[r].pc = "ready" /\ m \in letters
        /\ replay' = [replay EXCEPT ![r] = [pc |-> "read", ref |-> m]]
        /\ UNCHANGED <<outbox, letters, pc, todo, cur, snap, age>>
    BY <1>10 DEF ReplayRead, store, worker
  <2>2. /\ replay'[r].pc = "read" /\ replay'[r].ref = m
        /\ \A s \in Replays \ {r} : replay'[s] = replay[s]
    BY <2>1, <1>t
  <2>3. ~ \E s \in Replays : replay[s].pc = "revived" /\ replay[s].ref = m
    BY <2>1, <2>2 DEF ReplaysApart
  <2>4. /\ outbox[m].status = "Dead"
        /\ \A w \in Workers : pc[w] = "pushing" => cur[w] # m
    BY <2>1, <2>3, <1>p DEF LetterInv
  <2>5. HeldInv' /\ BatchInv' /\ OpenInv'
    <3>1. \A v \in Workers : InHand(v)' = InHand(v)
      BY <2>1 DEF InHand
    <3>2. HeldInv'
      BY <3>1, <2>1, <1>p, KeepsHeld
    <3>3. QED
      BY <3>2, <2>1, <1>p DEF BatchInv, OpenInv
  <2>6. DeadInv'
    BY <2>1, <2>2, <2>4, <1>p DEF DeadInv
  <2>7. LetterInv'
    BY <2>1, <2>2, <1>p DEF LetterInv
  <2>8. QED
    BY <2>5, <2>6, <2>7 DEF PromptInv
<1>11. ASSUME NEW r \in Replays, ReplayRevive(r) PROVE PromptInv'
  <2> DEFINE m == replay[r].ref
  <2>1. /\ replay[r].pc = "read"
        /\ m \in Messages
        /\ replay' = [replay EXCEPT ![r].pc = "revived"]
        /\ outbox'[m].status = "Pending" /\ outbox'[m].attempts = 0
        /\ \A n \in Messages \ {m} : outbox'[n] = outbox[n]
        /\ UNCHANGED <<letters, pc, todo, cur, snap, age>>
    BY <1>11, <1>t, <1>h DEF ReplayRevive, SetRow, HandOK, worker
  <2>2. /\ replay'[r].pc = "revived" /\ replay'[r].ref = m
        /\ \A s \in Replays \ {r} : replay'[s] = replay[s]
    BY <2>1, <1>t
  <2>3. outbox[m].status = "Dead"
    BY <2>1, <1>p DEF DeadInv
  <2>4. \A v \in Workers : InHand(v)' = InHand(v) /\ m \notin InHand(v)
    BY <2>1, <2>3, <1>p DEF InHand, HeldInv
  <2>5. HeldInv' /\ BatchInv'
    <3>1. HeldInv'
      BY <2>1, <2>4, <1>p, <1>t, KeepsHeld
    <3>2. QED
      BY <3>1, <2>1, <1>p DEF BatchInv
  <2>6. OpenInv'
    BY <2>1, <1>p, <1>t DEF OpenInv
  <2>7. \A s \in Replays : replay'[s].pc = "read" =>
           /\ replay[s].pc = "read" /\ replay'[s].ref = replay[s].ref
           /\ replay[s].ref # m
           /\ replay[s].ref \in Messages
    <3>1. ASSUME NEW s \in Replays, replay'[s].pc = "read"
          PROVE  /\ replay[s].pc = "read" /\ replay'[s].ref = replay[s].ref
                 /\ replay[s].ref # m
                 /\ replay[s].ref \in Messages
      <4>1. s # r
        BY <3>1, <2>2
      <4>2. replay'[s] = replay[s] /\ replay[s].pc = "read"
        BY <4>1, <3>1, <2>2
      <4>3. replay[s].ref # m
        BY <4>1, <4>2, <2>1 DEF ReplaysApart
      <4>4. QED
        BY <4>2, <4>3, <1>h DEF HandOK
    <3>2. QED
      BY <3>1
  <2>8. \A w \in Workers : pc[w] = "pushing" => cur[w] # m /\ cur[w] \in Messages
    BY <2>1, <1>p, <1>h DEF DeadInv, HandOK
  <2>9. DeadInv'
    BY <2>1, <2>7, <2>8, <1>p DEF DeadInv
  <2>10. LetterInv'
    BY <2>1, <2>2, <1>p, <1>t DEF LetterInv
  <2>11. QED
    BY <2>5, <2>6, <2>9, <2>10 DEF PromptInv
<1>12. ASSUME NEW r \in Replays, ReplayRemove(r) PROVE PromptInv'
  <2> DEFINE m == replay[r].ref
  <2>1. /\ replay[r].pc = "revived"
        /\ letters' = letters \ {m}
        /\ replay' = [replay EXCEPT ![r].pc = "over"]
        /\ UNCHANGED <<outbox, pc, todo, cur, snap, age>>
    BY <1>12 DEF ReplayRemove, worker
  <2>2. /\ replay'[r].pc = "over"
        /\ \A s \in Replays \ {r} : replay'[s] = replay[s]
    BY <2>1, <1>t
  <2>3. HeldInv' /\ BatchInv' /\ OpenInv'
    <3>1. \A v \in Workers : InHand(v)' = InHand(v)
      BY <2>1 DEF InHand
    <3>2. HeldInv'
      BY <3>1, <2>1, <1>p, KeepsHeld
    <3>3. QED
      BY <3>2, <2>1, <1>p DEF BatchInv, OpenInv
  <2>4. DeadInv'
    BY <2>1, <2>2, <1>p DEF DeadInv
  <2>5. LetterInv'
    BY <2>1, <2>2, <1>p DEF LetterInv
  <2>6. QED
    BY <2>3, <2>4, <2>5 DEF PromptInv
<1>13. CASE Purge
  <2>1. UNCHANGED <<outbox, pc, todo, cur, snap, age, replay>>
    BY <1>13 DEF Purge, worker
  <2>2. letters' = letters \ Expired /\ Expired \subseteq Messages
    BY <1>13, <1>t DEF Purge, Expired
  <2>3. HeldInv' /\ BatchInv' /\ OpenInv'
    <3>1. \A v \in Workers : InHand(v)' = InHand(v)
      BY <2>1 DEF InHand
    <3>2. HeldInv'
      BY <3>1, <2>1, <1>p, KeepsHeld
    <3>3. QED
      BY <3>2, <2>1, <1>p DEF BatchInv, OpenInv
  <2>4. DeadInv' /\ LetterInv'
    BY <2>1, <2>2, <1>p, KeepsDead
  <2>5. QED
    BY <2>3, <2>4 DEF PromptInv
<1>14. CASE Tick
  <2>1. /\ \A w \in Workers : pc[w] # "idle" => age[w] + 1 < Lease
        /\ \A m \in Messages : outbox'[m] = Later(outbox[m])
        /\ age' = [w \in Workers |->
                     IF pc[w] # "idle" /\ age[w] < AgeCap THEN age[w] + 1
                     ELSE age[w]]
        /\ UNCHANGED <<letters, pc, todo, cur, snap, replay>>
    BY <1>14 DEF Tick
  <2>2. AgeCap >= Lease
    BY <1>t, ParametersAssumption DEF AgeCap, MaxOf
  <2>3. /\ \A w \in Workers : pc[w] # "idle" => age'[w] = age[w] + 1
        /\ \A w \in Workers : pc[w] = "idle" => age'[w] = age[w]
    BY <2>1, <2>2, <1>t, ParametersAssumption DEF AgeCap, MaxOf
  <2>4. ASSUME NEW m \in Messages
        PROVE  /\ outbox'[m].status = outbox[m].status
               /\ outbox'[m].attempts = outbox[m].attempts
               /\ outbox'[m].worker = outbox[m].worker
               /\ outbox'[m].lease = Left(outbox[m].lease)
    <3>1. outbox'[m] = Later(outbox[m])
      BY <2>1
    <3>2. QED
      BY <3>1 DEF Later
  <2>5. \A v \in Workers : InHand(v)' = InHand(v)
    BY <2>1 DEF InHand
  <2>6. HeldInv'
    <3>1. ASSUME NEW v \in Workers, NEW m \in InHand(v)
          PROVE  outbox'[m].lease + age'[v] >= Lease
      <4>1. /\ m \in Messages
            /\ outbox[m].lease + age[v] >= Lease
            /\ pc[v] # "idle"
        BY <1>p, <1>t DEF HeldInv, BatchInv, InHand
      <4>2. age[v] + 1 < Lease /\ age'[v] = age[v] + 1
        BY <4>1, <2>1, <2>3
      <4>3. outbox[m].lease \in Nat /\ age[v] \in Nat
        BY <4>1, <1>t
      <4>4. outbox'[m].lease = outbox[m].lease - 1
        BY <4>1, <4>2, <4>3, <2>4, <1>t DEF Left
      <4>5. QED
        BY <4>1, <4>2, <4>3, <4>4, <1>t
    <3>2. QED
      BY <3>1, <2>1, <2>4, <2>5, <1>p, <1>t DEF HeldInv
  <2>7. BatchInv'
    BY <2>1, <2>3, <1>t, <1>p DEF BatchInv
  <2>8. OpenInv'
    BY <2>4, <1>p DEF OpenInv
  <2>9. DeadInv' /\ LetterInv'
    <3>1. letters' \subseteq letters
      BY <2>1
    <3>2. QED
      BY <2>1, <2>4, <3>1, <1>p, KeepsDead
  <2>10. QED
    BY <2>6, <2>7, <2>8, <2>9 DEF PromptInv
<1>15. CASE UNCHANGED vars
  BY <1>15, <1>p DEF PromptInv, HeldInv, BatchInv, OpenInv, DeadInv, LetterInv,
                     InHand, vars, store, worker
<1>16. QED
  BY <1>1, <1>2, <1>3, <1>4, <1>5, <1>6, <1>7, <1>8, <1>9, <1>10, <1>11, <1>12,
     <1>13, <1>14, <1>15 DEF Next, WorkerStep, ReplayStep


\* The empty outbox has nothing leased, in hand or dead.
LEMMA InitPromptInv == Init => PromptInv
BY ParametersAssumption
DEF Init, PromptInv, HeldInv, BatchInv, OpenInv, DeadInv, LetterInv, InHand,
    NoRow, Open

\* What PromptInv says of leases and letters.
LEMMA PromptSafe ==
    TypeInv /\ PromptInv => ExclusiveLease /\ LetterMeansDead
<1> SUFFICES ASSUME TypeInv, PromptInv PROVE ExclusiveLease /\ LetterMeansDead
  OBVIOUS
<1>1. ExclusiveLease
  <2>1. ASSUME NEW w \in Workers, NEW m \in InHand(w) PROVE outbox[m].lease > 0
    <3>1. outbox[m].lease + age[w] >= Lease /\ age[w] < Lease
      BY DEF PromptInv, HeldInv, BatchInv
    <3>2. outbox[m].lease \in Nat /\ age[w] \in Nat /\ Lease \in Nat
      BY PromptTypes
    <3>3. QED
      BY <3>1, <3>2
  <2>2. QED
    BY <2>1 DEF ExclusiveLease, PromptInv, HeldInv
<1>2. LetterMeansDead
  <2>1. \A r \in Replays, m \in Messages :
           replay[r].pc = "revived" /\ replay[r].ref = m
           => replay[r] = [pc |-> "revived", ref |-> m]
    BY PromptTypes
  <2>2. letters \subseteq Messages
    BY PromptTypes
  <2>3. QED
    BY <2>1, <2>2 DEF LetterMeansDead, PromptInv, LetterInv
<1>3. QED
  BY <1>1, <1>2

\* PromptInv holds in every behaviour with prompt ticks.
LEMMA PromptAlways ==
    ASSUME Prompt
    PROVE  Spec /\ []ReplaysApart => []PromptInv
<1>1. TypeInv /\ PromptInv /\ ReplaysApart /\ ReplaysApart' /\ [Next]_vars
      => PromptInv'
  BY NextPromptInv
<1>2. QED
  BY <1>1, InitPromptInv, TypeCorrect, PTL DEF Spec

\* As long as ticks end before the leases they took, no two workers have the
\* same message in hand and nobody works on a lease that has run out, whatever
\* aborts, heartbeats, replays and delays come in between.
THEOREM LeaseExcludes ==
    ASSUME Prompt
    PROVE  Spec /\ []ReplaysApart => []ExclusiveLease
<1>1. TypeInv /\ PromptInv => ExclusiveLease
  BY PromptSafe
<1>2. QED
  BY <1>1, PromptAlways, TypeCorrect, PTL

\* Under the same conditions a letter in the dead-letter store always stands for
\* a dead message, or one a replay call is bringing back.
THEOREM LettersAreDead ==
    ASSUME Prompt
    PROVE  Spec /\ []ReplaysApart => []LetterMeansDead
<1>1. TypeInv /\ PromptInv => LetterMeansDead
  BY PromptSafe
<1>2. QED
  BY <1>1, PromptAlways, TypeCorrect, PTL

-----------------------------------------------------------------------------
(* Dead letters, without prompt ticks.                                     *)

\* A replay call never forgets its message, an abort is never uncounted, and a
\* worker leaves "pushing" with the letter stored or by an abort.
LEMMA NextDeadHasLetter ==
    ASSUME Retention = 0, TypeInv, DeadHasLetter, [Next]_vars
    PROVE  DeadHasLetter'
<1>t. /\ outbox \in [Messages -> Row]
      /\ pc \in [Workers -> Steps]
      /\ cur \in [Workers -> Messages \cup {NoMessage}]
      /\ replay \in [Replays -> [pc : {"ready", "read", "revived", "over"},
                                 ref : Messages \cup {NoMessage}]]
      /\ aborts \in Nat
  BY DEF TypeInv, TypesOK
<1>h. HandOK
  BY DEF TypeInv
<1>1. ASSUME NEW m \in Messages, Enqueue(m) PROVE DeadHasLetter'
  BY <1>1, <1>t DEF DeadHasLetter, Enqueue, SetRow, worker
<1>2. ASSUME NEW w \in Workers, LeaseBatch(w) PROVE DeadHasLetter'
  <2>1. /\ pc[w] = "idle" /\ pc' = [pc EXCEPT ![w] = "working"]
        /\ \A m \in Messages : outbox'[m].status = "Dead" => outbox[m].status = "Dead"
        /\ UNCHANGED <<letters, cur, replay, aborts>>
    BY <1>2, <1>t DEF LeaseBatch, Leased
  <2>2. QED
    BY <2>1, <1>t DEF DeadHasLetter
<1>3. ASSUME NEW w \in Workers, NEW m \in Messages, StartSend(w, m)
      PROVE  DeadHasLetter'
  BY <1>3, <1>t DEF DeadHasLetter, StartSend, store
<1>4. ASSUME NEW w \in Workers, SendOk(w) \/ SendErr(w) PROVE DeadHasLetter'
  BY <1>4, <1>t DEF DeadHasLetter, SendOk, SendErr, store
<1>5. ASSUME NEW w \in Workers, AckDone(w) \/ NackBackoff(w) PROVE DeadHasLetter'
  <2>1. /\ pc[w] # "pushing"
        /\ \A v \in Workers \ {w} : pc'[v] = pc[v] /\ cur'[v] = cur[v]
        /\ \A m \in Messages : outbox'[m].status = "Dead" => outbox[m].status = "Dead"
        /\ UNCHANGED <<letters, replay, aborts>>
    BY <1>5, <1>t, <1>h DEF AckDone, NackBackoff, Proceed, SetRow, HandOK
  <2>2. QED
    BY <2>1 DEF DeadHasLetter
<1>6. ASSUME NEW w \in Workers, DeadLetter(w) PROVE DeadHasLetter'
  <2>1. /\ pc[w] = "failing" /\ pc' = [pc EXCEPT ![w] = "pushing"]
        /\ \A m \in Messages \ {cur[w]} : outbox'[m] = outbox[m]
        /\ UNCHANGED <<letters, cur, replay, aborts>>
    BY <1>6, <1>t DEF DeadLetter, SetRow
  <2>2. QED
    BY <2>1, <1>t DEF DeadHasLetter
<1>7. ASSUME NEW w \in Workers, PushLetter(w) PROVE DeadHasLetter'
  <2>1. /\ letters' = letters \cup {cur[w]}
        /\ \A v \in Workers \ {w} : pc'[v] = pc[v] /\ cur'[v] = cur[v]
        /\ UNCHANGED <<outbox, replay, aborts>>
    BY <1>7, <1>t DEF PushLetter, Proceed
  <2>2. QED
    BY <2>1 DEF DeadHasLetter
<1>8. ASSUME NEW w \in Workers, TickAborts(w) PROVE DeadHasLetter'
  <2>1. aborts' > 0
    BY <1>8, <1>t DEF TickAborts
  <2>2. QED
    BY <2>1 DEF DeadHasLetter
<1>9. ASSUME NEW w \in Workers, NEW m \in Messages, Heartbeat(w, m)
      PROVE  DeadHasLetter'
  <2>1. /\ \A n \in Messages : outbox'[n].status = outbox[n].status
        /\ UNCHANGED <<letters, pc, cur, replay, aborts>>
    BY <1>9, <1>t DEF Heartbeat, Leased, worker
  <2>2. QED
    BY <2>1 DEF DeadHasLetter
<1>10. ASSUME NEW r \in Replays, ReplayStep(r) PROVE DeadHasLetter'
  <2>1. ASSUME NEW m \in Messages, ReplayRead(r, m) PROVE DeadHasLetter'
    <3>1. /\ replay[r].pc = "ready" /\ m \in letters
          /\ replay'[r].ref = m
          /\ \A s \in Replays \ {r} : replay'[s] = replay[s]
          /\ UNCHANGED <<outbox, letters, pc, cur, aborts>>
      BY <2>1, <1>t DEF ReplayRead, store, worker
    <3>2. ASSUME NEW n \in Messages, outbox'[n].status = "Dead"
          PROVE  \/ n \in letters'
                 \/ \E w \in Workers : pc'[w] = "pushing" /\ cur'[w] = n
                 \/ aborts' > 0
                 \/ \E s \in Replays : replay'[s].ref = n
      <4>1. replay[r].ref # n
        BY <3>1, <1>h, SetsAssumption DEF HandOK
      <4>2. QED
        BY <4>1, <3>1, <3>2 DEF DeadHasLetter
    <3>3. QED
      BY <3>2 DEF DeadHasLetter
  <2>2. CASE ReplayRevive(r)
    <3>1. /\ \A s \in Replays : replay'[s].ref = replay[s].ref
          /\ \A n \in Messages : outbox'[n].status = "Dead" => outbox[n].status = "Dead"
          /\ UNCHANGED <<letters, pc, cur, aborts>>
      BY <2>2, <1>t DEF ReplayRevive, SetRow, worker
    <3>2. QED
      BY <3>1 DEF DeadHasLetter
  <2>3. CASE ReplayRemove(r)
    <3>1. /\ \A s \in Replays : replay'[s].ref = replay[s].ref
          /\ letters' = letters \ {replay[r].ref}
          /\ UNCHANGED <<outbox, pc, cur, aborts>>
      BY <2>3, <1>t DEF ReplayRemove, worker
    <3>2. QED
      BY <3>1 DEF DeadHasLetter
  <2>4. QED
    BY <1>10, <2>1, <2>2, <2>3 DEF ReplayStep
<1>11. CASE Purge
  BY <1>11 DEF Purge
<1>12. CASE Tick
  <2>1. /\ \A m \in Messages : outbox'[m].status = outbox[m].status
        /\ UNCHANGED <<letters, pc, cur, replay, aborts>>
    BY <1>12 DEF Tick, Later
  <2>2. QED
    BY <2>1 DEF DeadHasLetter
<1>13. CASE UNCHANGED vars
  BY <1>13 DEF DeadHasLetter, vars, store, worker
<1>14. QED
  BY <1>1, <1>2, <1>3, <1>4, <1>5, <1>6, <1>7, <1>8, <1>9, <1>10, <1>11, <1>12,
     <1>13 DEF Next, WorkerStep


\* Without retention no dead letter is lost, even by stale workers: only an
\* aborted tick or a replay call that took the letter accounts for a missing one.
THEOREM DeadHaveLetters ==
    ASSUME Retention = 0
    PROVE  Spec => []DeadHasLetter
<1>1. Init => DeadHasLetter
  BY DEF Init, DeadHasLetter, NoRow
<1>2. TypeInv /\ DeadHasLetter /\ [Next]_vars => DeadHasLetter'
  BY NextDeadHasLetter
<1>3. QED
  BY <1>1, <1>2, TypeCorrect, PTL DEF Spec

-----------------------------------------------------------------------------
(* The outbox implements its promise.                                      *)

\* A message in a worker's hand is held by that worker, any other by nobody.
LEMMA HolderIs ==
    ASSUME HeldInv, NEW m \in Messages
    PROVE  /\ \A w \in Workers : m \in InHand(w) => Holder(m) = w
           /\ (\A w \in Workers : m \notin InHand(w)) => Holder(m) = NoWorker
           /\ Holder(m) \in Workers => m \in InHand(Holder(m))
<1>1. ASSUME NEW w \in Workers, m \in InHand(w) PROVE Holder(m) = w
  <2>1. \A v \in Workers : m \in InHand(v) => v = w
    BY <1>1, HeldApart
  <2>2. \E v \in Workers : m \in InHand(v)
    BY <1>1
  <2>3. Holder(m) = CHOOSE v \in Workers : m \in InHand(v)
    BY <2>2 DEF Holder
  <2>4. Holder(m) \in Workers /\ m \in InHand(Holder(m))
    BY <2>2, <2>3
  <2>5. QED
    BY <2>1, <2>4
<1>2. (\A w \in Workers : m \notin InHand(w)) => Holder(m) = NoWorker
  BY DEF Holder
<1>3. Holder(m) \in Workers => m \in InHand(Holder(m))
  BY <1>1, <1>2, SetsAssumption
<1>4. QED
  BY <1>1, <1>2, <1>3

\* The same in the next state.
LEMMA HolderIsPrime ==
    ASSUME HeldInv', NEW m \in Messages
    PROVE  /\ \A w \in Workers : m \in InHand(w)' => Holder(m)' = w
           /\ (\A w \in Workers : m \notin InHand(w)') => Holder(m)' = NoWorker
<1>1. ASSUME NEW w \in Workers, m \in InHand(w)' PROVE Holder(m)' = w
  <2>1. \A v \in Workers : m \in InHand(v)' => v = w
    BY <1>1 DEF HeldInv
  <2>2. \E v \in Workers : m \in InHand(v)'
    BY <1>1
  <2>3. Holder(m)' = CHOOSE v \in Workers : m \in InHand(v)'
    BY <2>2 DEF Holder
  <2>4. \E v \in Workers : v = Holder(m)' /\ m \in InHand(v)'
    BY <2>2, <2>3
  <2>5. QED
    BY <2>1, <2>4
<1>2. (\A w \in Workers : m \notin InHand(w)') => Holder(m)' = NoWorker
  BY DEF Holder
<1>3. QED
  BY <1>1, <1>2

\* Steps that leave every hand alone leave every message with its holder.
LEMMA HolderSame ==
    ASSUME HeldInv, HeldInv', \A w \in Workers : InHand(w)' = InHand(w),
           NEW m \in Messages
    PROVE  Holder(m)' = Holder(m)
<1>1. CASE \E w \in Workers : m \in InHand(w)
  BY <1>1, HolderIs, HolderIsPrime
<1>2. CASE \A w \in Workers : m \notin InHand(w)
  BY <1>2, HolderIs, HolderIsPrime
<1>3. QED
  BY <1>1, <1>2

\* A worker that takes messages it did not have becomes their holder, and nobody
\* had them.
LEMMA HolderTakes ==
    ASSUME HeldInv, HeldInv', NEW w \in Workers, NEW S,
           S \cap InHand(w) = {}, InHand(w)' = InHand(w) \cup S,
           \A v \in Workers \ {w} : InHand(v)' = InHand(v),
           NEW m \in Messages
    PROVE  /\ Holder(m)' = IF m \in S THEN w ELSE Holder(m)
           /\ m \in S => Holder(m) = NoWorker
<1>1. CASE m \in S
  <2>1. Holder(m)' = w
    BY <1>1, HolderIsPrime
  <2>2. \A v \in Workers : m \notin InHand(v)
    BY <1>1 DEF HeldInv
  <2>3. QED
    BY <1>1, <2>1, <2>2, HolderIs
<1>2. CASE m \notin S /\ \E v \in Workers : m \in InHand(v)
  <2> PICK v \in Workers : m \in InHand(v)
    BY <1>2
  <2>1. m \in InHand(v)'
    OBVIOUS
  <2>2. QED
    BY <1>2, <2>1, HolderIs, HolderIsPrime
<1>3. CASE m \notin S /\ \A v \in Workers : m \notin InHand(v)
  BY <1>3, HolderIs, HolderIsPrime
<1>4. QED
  BY <1>1, <1>2, <1>3

\* A worker that lets go of messages leaves them with nobody.
LEMMA HolderDrops ==
    ASSUME HeldInv, HeldInv', NEW w \in Workers, NEW S,
           S \subseteq InHand(w), InHand(w)' = InHand(w) \ S,
           \A v \in Workers \ {w} : InHand(v)' = InHand(v),
           NEW m \in Messages
    PROVE  /\ Holder(m)' = IF m \in S THEN NoWorker ELSE Holder(m)
           /\ m \in S => Holder(m) = w
<1>1. CASE m \in S
  <2>1. /\ Holder(m) = w
        /\ \A v \in Workers : m \in InHand(v) => v = w
    BY <1>1, HolderIs, HeldApart
  <2>2. \A v \in Workers : m \notin InHand(v)'
    BY <1>1, <2>1
  <2>3. QED
    BY <1>1, <2>1, <2>2, HolderIsPrime
<1>2. CASE m \notin S /\ \E v \in Workers : m \in InHand(v)
  <2> PICK v \in Workers : m \in InHand(v)
    BY <1>2
  <2>1. m \in InHand(v)'
    BY <1>2
  <2>2. QED
    BY <1>2, <2>1, HolderIs, HolderIsPrime
<1>3. CASE m \notin S /\ \A v \in Workers : m \notin InHand(v)
  BY <1>3, HolderIs, HolderIsPrime
<1>4. QED
  BY <1>1, <1>2, <1>3

\* What settling the message in hand does to the promise's variables.
LEMMA SettleMaps ==
    ASSUME TypeInv, PromptInv, PromptInv', NEW w \in Workers, NEW m \in Messages,
           m = cur[w], pc[w] \in {"acking", "failing"},
           InHand(w)' = InHand(w) \ {m},
           \A v \in Workers \ {w} : InHand(v)' = InHand(v),
           \A n \in Messages \ {m} : outbox'[n] = outbox[n],
           NEW p, NEW t, Phase(m)' = p, outbox'[m].attempts = t,
           delivered' = delivered
    PROVE  Lifecycle!Settle(m, p, t)
<1>1. m \in InHand(w) /\ HeldInv /\ HeldInv'
  BY DEF InHand, PromptInv
<1>2. \A n \in Messages :
         /\ Holder(n)' = IF n = m THEN NoWorker ELSE Holder(n)
         /\ n = m => Holder(n) = w
  <2> DEFINE S == {m}
  <2>1. S \subseteq InHand(w) /\ InHand(w)' = InHand(w) \ S
    BY <1>1
  <2>2. \A n \in Messages : n \in S <=> n = m
    OBVIOUS
  <2> HIDE DEF S
  <2>3. \A n \in Messages :
           /\ Holder(n)' = IF n \in S THEN NoWorker ELSE Holder(n)
           /\ n \in S => Holder(n) = w
    BY <2>1, <1>1, HolderDrops
  <2>4. QED
    BY <2>2, <2>3
<1>3. /\ \A n \in Messages : Phase(n)' = IF n = m THEN p ELSE Phase(n)
      /\ Phase(m) = "Open"
  BY <1>1 DEF Phase, HeldInv, Open
<1>4. \A n \in Messages :
         outbox'[n].attempts = IF n = m THEN t ELSE outbox[n].attempts
  OBVIOUS
<1>5. QED
  BY <1>2, <1>3, <1>4, SetsAssumption DEF Lifecycle!Settle

\* A step that neither moves a message from hand to hand nor changes phases and
\* counts is a step the promise does not see, or a delivery.
LEMMA QuietMaps ==
    ASSUME PromptInv, PromptInv',
           \A w \in Workers : InHand(w)' = InHand(w),
           \A n \in Messages : /\ Phase(n)' = Phase(n)
                               /\ outbox'[n].attempts = outbox[n].attempts
    PROVE  /\ [n \in Messages |-> Phase(n)]' = [n \in Messages |-> Phase(n)]
           /\ [n \in Messages |-> Holder(n)]' = [n \in Messages |-> Holder(n)]
           /\ [n \in Messages |-> outbox[n].attempts]'
                = [n \in Messages |-> outbox[n].attempts]
<1>1. \A n \in Messages : Holder(n)' = Holder(n)
  BY HolderSame DEF PromptInv
<1>2. QED
  BY <1>1

\* A worker that forgets its batch abandons what it had, and a send under way may
\* still arrive.
LEMMA ForgetsMaps ==
    ASSUME TypeInv, PromptInv, PromptInv', NEW w \in Workers, Forgets(w),
           delivered' \in {delivered} \cup
              (IF pc[w] = "sending" THEN {delivered \cup {cur[w]}} ELSE {}),
           UNCHANGED outbox
    PROVE  [Lifecycle!Next]_Lifecycle!vars
<1> DEFINE phase == [n \in Messages |-> Phase(n)]
           holder == [n \in Messages |-> Holder(n)]
           tries == [n \in Messages |-> outbox[n].attempts]
<1>p. HeldInv /\ HeldInv'
  BY DEF PromptInv
<1>h. pc[w] = "sending" => cur[w] \in Messages
  BY DEF TypeInv, HandOK
<1>1. /\ InHand(w)' = InHand(w) \ InHand(w)
      /\ \A v \in Workers \ {w} : InHand(v)' = InHand(v)
  BY PromptTypes DEF Forgets, InHand
<1>2. \A m \in Messages :
         Holder(m)' = IF m \in InHand(w) THEN NoWorker ELSE Holder(m)
  BY <1>1, <1>p, HolderDrops
<1>3. \A m \in Messages : Holder(m) = w <=> m \in InHand(w)
  BY <1>p, HolderIs
<1>4. holder' = [m \in Messages |-> IF holder[m] = w THEN NoWorker ELSE holder[m]]
  BY <1>2, <1>3
<1>5. UNCHANGED <<phase, tries>>
  BY DEF Phase
<1>6. CASE Messages # {}
  <2>1. \E m \in Messages :
           delivered' \in {delivered} \cup
               (IF holder[m] = w THEN {delivered \cup {m}} ELSE {})
    <3>1. CASE pc[w] = "sending"
      <4>1. cur[w] \in Messages /\ cur[w] \in InHand(w)
        BY <3>1, <1>h DEF InHand
      <4>2. holder[cur[w]] = w
        BY <4>1, <1>3
      <4>3. QED
        BY <3>1, <4>1, <4>2
    <3>2. CASE pc[w] # "sending"
      BY <3>2, <1>6
    <3>3. QED
      BY <3>1, <3>2
  <2>2. Lifecycle!Abandon(w)
    BY <2>1, <1>4, <1>5 DEF Lifecycle!Abandon
  <2>3. QED
    BY <2>2 DEF Lifecycle!Next
<1>7. CASE Messages = {}
  <2>1. delivered' = delivered
    BY <1>7, <1>h
  <2>2. UNCHANGED <<phase, holder, tries, delivered>>
    BY <2>1, <1>4, <1>5, <1>7
  <2>3. QED
    BY <2>2 DEF Lifecycle!vars
<1>8. QED
  BY <1>6, <1>7

\* Every step of the outbox is a step of the promise, or none.
LEMMA NextLifecycle ==
    ASSUME Prompt, TypeInv, AckInv, PromptInv, PromptInv', [Next]_vars
    PROVE  [Lifecycle!Next]_Lifecycle!vars
<1> DEFINE phase == [n \in Messages |-> Phase(n)]
           holder == [n \in Messages |-> Holder(n)]
           tries == [n \in Messages |-> outbox[n].attempts]
<1>p. /\ HeldInv /\ BatchInv /\ OpenInv /\ DeadInv
      /\ HeldInv'
  BY DEF PromptInv
<1>t. /\ outbox \in [Messages -> Row]
      /\ \A m \in Messages : outbox[m].attempts \in Nat
      /\ pc \in [Workers -> Steps]
      /\ todo \in [Workers -> SUBSET Messages]
      /\ cur \in [Workers -> Messages \cup {NoMessage}]
      /\ replay \in [Replays -> [pc : {"ready", "read", "revived", "over"},
                                 ref : Messages \cup {NoMessage}]]
      /\ MaxAttempts \in Nat /\ MaxAttempts > 0
  BY PromptTypes
<1>h. HandOK
  BY DEF TypeInv
<1>q. ASSUME UNCHANGED <<phase, holder, tries, delivered>>
      PROVE  [Lifecycle!Next]_Lifecycle!vars
  BY <1>q DEF Lifecycle!vars
<1>1. ASSUME NEW m \in Messages, Enqueue(m) PROVE [Lifecycle!Next]_Lifecycle!vars
  <2>1. /\ outbox[m].status = "Absent"
        /\ outbox'[m].status = "Pending" /\ outbox'[m].attempts = 0
        /\ \A n \in Messages \ {m} : outbox'[n] = outbox[n]
        /\ UNCHANGED <<pc, todo, cur, delivered>>
    BY <1>1, <1>t DEF Enqueue, SetRow, worker, network
  <2>2. \A n \in Messages : Holder(n)' = Holder(n)
    <3>1. \A w \in Workers : InHand(w)' = InHand(w)
      BY <2>1 DEF InHand
    <3>2. QED
      BY <3>1, <1>p, HolderSame
  <2>3. /\ Phase(m) = "Absent"
        /\ \A n \in Messages : Phase(n)' = IF n = m THEN "Open" ELSE Phase(n)
    BY <2>1 DEF Phase, Open
  <2>4. \A n \in Messages : outbox'[n].attempts = outbox[n].attempts
    BY <2>1, <1>p DEF OpenInv
  <2>5. Lifecycle!Submit(m)
    BY <2>1, <2>2, <2>3, <2>4 DEF Lifecycle!Submit
  <2>6. QED
    BY <2>5 DEF Lifecycle!Next
<1>2. ASSUME NEW w \in Workers, LeaseBatch(w) PROVE [Lifecycle!Next]_Lifecycle!vars
  <2> PICK S \in Selections(w) \ {{}} :
        /\ outbox' = [m \in Messages |->
                        IF m \in S THEN Leased(outbox[m], "Leased", w)
                        ELSE outbox[m]]
        /\ todo' = [todo EXCEPT ![w] = S]
    BY <1>2 DEF LeaseBatch
  <2>1. /\ pc[w] = "idle"
        /\ pc' = [pc EXCEPT ![w] = "working"]
        /\ UNCHANGED <<cur, delivered>>
    BY <1>2 DEF LeaseBatch, network
  <2>2. S \subseteq Messages /\ \A m \in S : outbox[m].status \in Open
    BY DEF Selections, Eligible
  <2>3. /\ InHand(w)' = S
        /\ InHand(w) = {}
        /\ \A v \in Workers \ {w} : InHand(v)' = InHand(v)
    BY <2>1, <1>t, <1>p DEF InHand, BatchInv
  <2>4. \A m \in Messages : /\ Holder(m)' = IF m \in S THEN w ELSE Holder(m)
                            /\ m \in S => Holder(m) = NoWorker
    <3>1. S \cap InHand(w) = {} /\ InHand(w)' = InHand(w) \cup S
      BY <2>3
    <3>2. QED
      BY <3>1, <2>3, <1>p, HolderTakes
  <2>5. \A m \in Messages : /\ Phase(m)' = Phase(m)
                            /\ m \in S => Phase(m) = "Open"
                            /\ outbox'[m].attempts = outbox[m].attempts
    BY <2>2 DEF Phase, Leased, Open
  <2>6. S \in SUBSET {m \in Messages : phase[m] = "Open" /\ holder[m] = NoWorker}
    BY <2>2, <2>4, <2>5
  <2>7. holder' = [m \in Messages |-> IF m \in S THEN w ELSE holder[m]]
    BY <2>4
  <2>8. Lifecycle!Claim(w)
    BY <2>1, <2>5, <2>6, <2>7 DEF Lifecycle!Claim
  <2>9. QED
    BY <2>8 DEF Lifecycle!Next
<1>3. ASSUME NEW w \in Workers, NEW m \in Messages, StartSend(w, m)
      PROVE  [Lifecycle!Next]_Lifecycle!vars
  <2>1. /\ pc[w] = "working" /\ m \in todo[w]
        /\ pc' = [pc EXCEPT ![w] = "sending"]
        /\ cur' = [cur EXCEPT ![w] = m]
        /\ todo' = [todo EXCEPT ![w] = @ \ {m}]
        /\ UNCHANGED <<outbox, delivered>>
    BY <1>3 DEF StartSend, store, network
  <2>2. \A v \in Workers : InHand(v)' = InHand(v)
    BY <2>1, <1>t DEF InHand
  <2>3. UNCHANGED <<phase, holder, tries>>
    BY <2>1, <2>2, QuietMaps DEF Phase
  <2>4. QED
    BY <2>1, <2>3, <1>q
<1>4. ASSUME NEW w \in Workers, SendOk(w) \/ SendErr(w)
      PROVE  [Lifecycle!Next]_Lifecycle!vars
  <2> PICK m \in Messages : m = cur[w]
    BY <1>4, <1>h DEF SendOk, SendErr, HandOK
  <2>1. /\ pc[w] = "sending"
        /\ \/ pc' = [pc EXCEPT ![w] = "acking"]
           \/ pc' = [pc EXCEPT ![w] = "failing"]
        /\ delivered' \in {delivered, delivered \cup {m}}
        /\ UNCHANGED <<outbox, todo, cur>>
    BY <1>4, <1>h DEF SendOk, SendErr, store, HandOK
  <2>2. \A v \in Workers : InHand(v)' = InHand(v)
    BY <2>1, <1>t DEF InHand
  <2>3. UNCHANGED <<phase, holder, tries>>
    BY <2>1, <2>2, QuietMaps DEF Phase
  <2>4. CASE delivered' = delivered
    BY <2>3, <2>4, <1>q
  <2>5. CASE delivered' = delivered \cup {m}
    <3>1. Holder(m) = w
      BY <2>1, <1>p, HolderIs DEF InHand
    <3>2. Lifecycle!Deliver(m)
      BY <3>1, <2>1, <2>3, <2>5, SetsAssumption DEF Lifecycle!Deliver
    <3>3. QED
      BY <3>2, <2>1 DEF Lifecycle!Next
  <2>6. QED
    BY <2>1, <2>4, <2>5
<1>5. ASSUME NEW w \in Workers, AckDone(w) \/ NackBackoff(w) \/ DeadLetter(w)
      PROVE  [Lifecycle!Next]_Lifecycle!vars
  <2> PICK m \in Messages : m = cur[w]
    BY <1>5, <1>h DEF AckDone, NackBackoff, DeadLetter, HandOK
  <2> PICK t : t = outbox[m].attempts
    OBVIOUS
  <2>1. /\ pc[w] \in {"acking", "failing"}
        /\ m \in InHand(w)
        /\ delivered' = delivered
    BY <1>5, <1>h DEF AckDone, NackBackoff, DeadLetter, HandOK, InHand, network
  <2>2. \A n \in Messages \ {m} : outbox'[n] = outbox[n]
    BY <1>5, <2>1, <1>t DEF AckDone, NackBackoff, DeadLetter, SetRow
  <2>3. /\ InHand(w)' = InHand(w) \ {m}
        /\ \A v \in Workers \ {w} : InHand(v)' = InHand(v)
    <3>1. m \notin todo[w] /\ InHand(w) = todo[w] \cup {m}
      BY <2>1, <1>p DEF BatchInv, InHand
    <3>2. CASE AckDone(w) \/ NackBackoff(w)
      <4>1. Proceed(w)
        BY <3>2 DEF AckDone, NackBackoff
      <4>2. QED
        BY <4>1, <3>1, <2>1, <1>p, ProceedHeld
    <3>3. CASE DeadLetter(w)
      <4>1. pc' = [pc EXCEPT ![w] = "pushing"] /\ UNCHANGED <<todo, cur>>
        BY <3>3 DEF DeadLetter
      <4>2. QED
        BY <4>1, <3>1, <1>t DEF InHand
    <3>4. QED
      BY <3>2, <3>3, <1>5
  <2>4. /\ t + 1 <= MaxAttempts
        /\ snap[w][m] = t
        /\ tries[m] = t
        /\ t \in Nat
    <3>1. outbox[m].status \in Open /\ snap[w][m] = outbox[m].attempts
      BY <2>1, <1>p DEF HeldInv, Open
    <3>2. QED
      BY <3>1, <2>1, <1>p, <1>t DEF OpenInv
  <2>5. CASE AckDone(w)
    <3>1. Phase(m)' = "Done" /\ outbox'[m].attempts = t
      BY <2>5, <2>1, <2>4, <1>t DEF AckDone, SetRow, Phase, Open
    <3>2. Lifecycle!Settle(m, "Done", t)
      BY <3>1, <2>1, <2>2, <2>3, SettleMaps
    <3>3. m \in delivered
      BY <2>5 DEF AckDone, AckInv
    <3>4. Lifecycle!Complete(m)
      BY <3>2, <3>3, <2>4 DEF Lifecycle!Complete, Lifecycle!Settle
    <3>5. QED
      BY <3>4, <2>1 DEF Lifecycle!Next
  <2>6. CASE NackBackoff(w)
    <3>1. Phase(m)' = "Open" /\ outbox'[m].attempts = t + 1
      BY <2>6, <2>1, <2>4, <1>t DEF NackBackoff, SetRow, Phase, Open
    <3>2. Lifecycle!Settle(m, "Open", t + 1)
      BY <3>1, <2>1, <2>2, <2>3, SettleMaps
    <3>3. t + 1 < MaxAttempts
      BY <2>6, <2>4, <1>t DEF NackBackoff, Exhausted
    <3>4. Lifecycle!Retry(m)
      BY <3>2, <3>3, <2>4 DEF Lifecycle!Retry, Lifecycle!Settle
    <3>5. QED
      BY <3>4, <2>1 DEF Lifecycle!Next
  <2>7. CASE DeadLetter(w)
    <3>1. Phase(m)' = "Dead" /\ outbox'[m].attempts = t + 1
      BY <2>7, <2>1, <2>4, <1>t DEF DeadLetter, SetRow, Phase, Open
    <3>2. Lifecycle!Settle(m, "Dead", t + 1)
      BY <3>1, <2>1, <2>2, <2>3, SettleMaps
    <3>3. t + 1 = MaxAttempts
      <4>1. snap[w][m] + 1 >= MaxAttempts
        BY <2>7 DEF DeadLetter, Exhausted
      <4>2. t + 1 >= MaxAttempts /\ t + 1 <= MaxAttempts /\ t \in Nat
        BY <4>1, <2>4, Zenon
      <4>3. MaxAttempts \in Nat
        BY ParametersAssumption
      <4>4. QED
        BY ONLY <4>2, <4>3, SMT
    <3>4. Lifecycle!GiveUp(m)
      BY <3>2, <3>3, <2>4 DEF Lifecycle!GiveUp, Lifecycle!Settle
    <3>5. QED
      BY <3>4, <2>1 DEF Lifecycle!Next
  <2>8. QED
    BY <1>5, <2>5, <2>6, <2>7
<1>6. ASSUME NEW w \in Workers, PushLetter(w) PROVE [Lifecycle!Next]_Lifecycle!vars
  <2>1. /\ pc[w] = "pushing" /\ Proceed(w)
        /\ UNCHANGED <<outbox, delivered>>
    BY <1>6 DEF PushLetter, network
  <2>2. \A v \in Workers : InHand(v)' = InHand(v)
    BY <2>1, <1>p, ProceedHeld DEF InHand
  <2>3. UNCHANGED <<phase, holder, tries>>
    BY <2>1, <2>2, QuietMaps DEF Phase
  <2>4. QED
    BY <2>1, <2>3, <1>q
<1>7. ASSUME NEW w \in Workers, TickAborts(w) PROVE [Lifecycle!Next]_Lifecycle!vars
  BY <1>7, ForgetsMaps DEF TickAborts, store
<1>8. ASSUME NEW w \in Workers, NEW m \in Messages, Heartbeat(w, m)
      PROVE  [Lifecycle!Next]_Lifecycle!vars
  <2>1. /\ \A n \in Messages : /\ outbox'[n].status = outbox[n].status
                               /\ outbox'[n].attempts = outbox[n].attempts
        /\ UNCHANGED <<pc, todo, cur, delivered>>
    BY <1>8, <1>t DEF Heartbeat, Leased, worker, network
  <2>2. \A v \in Workers : InHand(v)' = InHand(v)
    BY <2>1 DEF InHand
  <2>3. UNCHANGED <<phase, holder, tries>>
    BY <2>1, <2>2, QuietMaps DEF Phase
  <2>4. QED
    BY <2>1, <2>3, <1>q
<1>9. ASSUME NEW r \in Replays, ReplayRevive(r) PROVE [Lifecycle!Next]_Lifecycle!vars
  <2> PICK m \in Messages : m = replay[r].ref
    BY <1>9, <1>h DEF ReplayRevive, HandOK
  <2>1. /\ replay[r].pc = "read"
        /\ outbox'[m].status = "Pending" /\ outbox'[m].attempts = 0
        /\ \A n \in Messages \ {m} : outbox'[n] = outbox[n]
        /\ UNCHANGED <<pc, todo, cur, delivered>>
    BY <1>9, <1>t, <1>h DEF ReplayRevive, SetRow, HandOK, worker, network
  <2>2. outbox[m].status = "Dead"
    BY <2>1, <1>p DEF DeadInv
  <2>3. \A n \in Messages : Holder(n)' = Holder(n)
    <3>1. \A w \in Workers : InHand(w)' = InHand(w)
      BY <2>1 DEF InHand
    <3>2. QED
      BY <3>1, <1>p, HolderSame
  <2>4. /\ Phase(m) = "Dead"
        /\ \A n \in Messages : Phase(n)' = IF n = m THEN "Open" ELSE Phase(n)
    BY <2>1, <2>2 DEF Phase, Open
  <2>5. \A n \in Messages :
           outbox'[n].attempts = IF n = m THEN 0 ELSE outbox[n].attempts
    BY <2>1
  <2>6. Lifecycle!Revive(m)
    BY <2>1, <2>3, <2>4, <2>5 DEF Lifecycle!Revive
  <2>7. QED
    BY <2>6, <2>1 DEF Lifecycle!Next
<1>10. ASSUME \/ \E r \in Replays, m \in Messages : ReplayRead(r, m)
              \/ \E r \in Replays : ReplayRemove(r)
              \/ Purge
       PROVE  [Lifecycle!Next]_Lifecycle!vars
  <2>1. UNCHANGED <<outbox, pc, todo, cur, delivered>>
    BY <1>10 DEF ReplayRead, ReplayRemove, Purge, store, worker, network
  <2>2. \A v \in Workers : InHand(v)' = InHand(v)
    BY <2>1 DEF InHand
  <2>3. UNCHANGED <<phase, holder, tries>>
    BY <2>1, <2>2, QuietMaps DEF Phase
  <2>4. QED
    BY <2>1, <2>3, <1>q
<1>11. CASE Tick
  <2>1. /\ \A n \in Messages : /\ outbox'[n].status = outbox[n].status
                               /\ outbox'[n].attempts = outbox[n].attempts
        /\ UNCHANGED <<pc, todo, cur, delivered>>
    BY <1>11 DEF Tick, Later, network
  <2>2. \A v \in Workers : InHand(v)' = InHand(v)
    BY <2>1 DEF InHand
  <2>3. UNCHANGED <<phase, holder, tries>>
    BY <2>1, <2>2, QuietMaps DEF Phase
  <2>4. QED
    BY <2>1, <2>3, <1>q
<1>12. CASE UNCHANGED vars
  <2>1. UNCHANGED <<outbox, pc, todo, cur, delivered>>
    BY <1>12 DEF vars, store, worker, network
  <2>2. \A v \in Workers : InHand(v)' = InHand(v)
    BY <2>1 DEF InHand
  <2>3. UNCHANGED <<phase, holder, tries>>
    BY <2>1, <2>2, QuietMaps DEF Phase
  <2>4. QED
    BY <2>1, <2>3, <1>q
<1>13. QED
  BY <1>1, <1>2, <1>3, <1>4, <1>5, <1>6, <1>7, <1>8, <1>9, <1>10, <1>11, <1>12
  DEF Next, WorkerStep, ReplayStep

\* The empty outbox is the empty queue.
LEMMA InitLifecycle == Init => Lifecycle!Init
<1> SUFFICES ASSUME Init PROVE Lifecycle!Init
  OBVIOUS
<1>1. \A m \in Messages : /\ Phase(m) = "Absent"
                          /\ Holder(m) = NoWorker
                          /\ outbox[m].attempts = 0
  BY DEF Init, Phase, Holder, InHand, NoRow, Open
<1>2. QED
  BY <1>1 DEF Init, Lifecycle!Init

\* The outbox with its leases, clocks, batches and letters implements the
\* exclusive at-least-once queue of OutboxLifecycle, as long as ticks end before
\* the leases they took.
THEOREM KeepsThePromise ==
    ASSUME Prompt
    PROVE  Spec /\ []ReplaysApart => ImplementsLifecycle
<1>1. Init => Lifecycle!Init
  BY InitLifecycle
<1>2. Init => AckInv
  BY DEF Init, AckInv, DoneWasDelivered, NoRow
<1>3. TypeInv /\ AckInv /\ PromptInv /\ PromptInv' /\ [Next]_vars
      => [Lifecycle!Next]_Lifecycle!vars
  BY NextLifecycle
<1>4. QED
  BY <1>1, <1>2, <1>3, TypeCorrect, NextAckInv, PromptAlways, PTL
  DEF Spec, ImplementsLifecycle, Lifecycle!Spec

-----------------------------------------------------------------------------
(* SurrealDB: the guard's books, and one message per key in a batch.       *)

\* The steps between on_dispatch_attempt and on_dispatch_result.
Inside == {"sending", "acking", "failing", "pushing"}
Counted(p) == {w \in Workers : p[w] \in Inside}

\* Types, the books with their counts, and the window.
GuardInv ==
    /\ pc \in [Workers -> Steps]
    /\ left \in [Workers -> SUBSET Messages]
    /\ passed \in [Workers -> SUBSET Messages]
    /\ \A w \in Workers : pc[w] # "selecting" => left[w] = {} /\ passed[w] = {}
    /\ BudgetTypeOK
    /\ aborts \in Nat
    /\ inflight >= Cardinality(Counted(pc))
    /\ inflight <= Cardinality(Counted(pc)) + aborts
    /\ WindowHolds

\* A worker that moves changes the count by its own place in it.
LEMMA CountMoves ==
    ASSUME NEW p \in [Workers -> Steps], NEW w \in Workers, NEW step
    PROVE  LET q == [p EXCEPT ![w] = step] IN
           /\ Cardinality(Counted(p)) \in Nat
           /\ Cardinality(Counted(q)) \in Nat
           /\ (p[w] \in Inside <=> step \in Inside)
                 => Cardinality(Counted(q)) = Cardinality(Counted(p))
           /\ p[w] \notin Inside /\ step \in Inside
                 => Cardinality(Counted(q)) = Cardinality(Counted(p)) + 1
           /\ p[w] \in Inside /\ step \notin Inside
                 => Cardinality(Counted(p)) = Cardinality(Counted(q)) + 1
<1> DEFINE q == [p EXCEPT ![w] = step]
<1>1. \A f : Counted(f) \subseteq Workers
  BY DEF Counted
<1>2. \A f : IsFiniteSet(Counted(f)) /\ Cardinality(Counted(f)) \in Nat
  BY <1>1, SetsAssumption, FS_Subset, FS_CardinalityType
<1>3. (p[w] \in Inside <=> step \in Inside) => Counted(q) = Counted(p)
  BY DEF Counted
<1>4. ASSUME p[w] \notin Inside, step \in Inside
      PROVE  Cardinality(Counted(q)) = Cardinality(Counted(p)) + 1
  <2>1. Counted(q) = Counted(p) \cup {w} /\ w \notin Counted(p)
    BY <1>4 DEF Counted
  <2>2. QED
    BY <2>1, <1>2, FS_AddElement
<1>5. ASSUME p[w] \in Inside, step \notin Inside
      PROVE  Cardinality(Counted(p)) = Cardinality(Counted(q)) + 1
  <2>1. Counted(p) = Counted(q) \cup {w} /\ w \notin Counted(q)
    BY <1>5 DEF Counted
  <2>2. QED
    BY <2>1, <1>2, FS_AddElement
<1>6. QED
  BY <1>2, <1>3, <1>4, <1>5

\* What the guard's own calls do to its books.
LEMMA GuardCalls ==
    ASSUME BudgetTypeOK, WindowHolds
    PROVE  /\ Attempt => BudgetTypeOK' /\ WindowHolds' /\ inflight' = inflight + 1
           /\ Refuse => BudgetTypeOK' /\ WindowHolds' /\ inflight' = inflight
           /\ Result /\ inflight > 0 =>
                 BudgetTypeOK' /\ WindowHolds' /\ inflight' = inflight - 1
           /\ WindowPasses => BudgetTypeOK' /\ WindowHolds' /\ inflight' = inflight
           /\ UNCHANGED budget => BudgetTypeOK' /\ WindowHolds' /\ inflight' = inflight
<1> USE BudgetAssumption DEF BudgetTypeOK, WindowHolds
<1>1. Attempt => BudgetTypeOK' /\ WindowHolds' /\ inflight' = inflight + 1
  BY DEF Attempt, Spent
<1>2. Refuse => BudgetTypeOK' /\ WindowHolds' /\ inflight' = inflight
  BY DEF Refuse
<1>3. Result /\ inflight > 0 =>
         BudgetTypeOK' /\ WindowHolds' /\ inflight' = inflight - 1
  BY DEF Result
<1>4. WindowPasses => BudgetTypeOK' /\ WindowHolds' /\ inflight' = inflight
  BY DEF WindowPasses
<1>5. UNCHANGED budget => BudgetTypeOK' /\ WindowHolds' /\ inflight' = inflight
  BY DEF budget
<1>6. QED
  BY <1>1, <1>2, <1>3, <1>4, <1>5

\* Candidates are looked through before any send, and a settled send is told.
LEMMA NextGuardInv == GuardInv /\ [SurrealNext]_surrealVars => GuardInv'
<1> SUFFICES ASSUME GuardInv, [SurrealNext]_surrealVars PROVE GuardInv'
  OBVIOUS
<1>t. /\ pc \in [Workers -> Steps]
      /\ left \in [Workers -> SUBSET Messages]
      /\ passed \in [Workers -> SUBSET Messages]
      /\ \A w \in Workers : pc[w] # "selecting" => left[w] = {} /\ passed[w] = {}
      /\ BudgetTypeOK /\ WindowHolds
      /\ inflight \in Nat
      /\ aborts \in Nat
      /\ inflight >= Cardinality(Counted(pc))
      /\ inflight <= Cardinality(Counted(pc)) + aborts
  BY DEF GuardInv, BudgetTypeOK
<1>n. \A w \in Workers : Cardinality(Counted(pc)) \in Nat
  BY <1>t, CountMoves
\* A worker steps within or outside the guarded part; the books stay.
<1>a. ASSUME NEW w \in Workers, NEW step \in Steps,
             pc' = [pc EXCEPT ![w] = step],
             pc[w] \in Inside <=> step \in Inside,
             step # "selecting" => left'[w] = {} /\ passed'[w] = {},
             left' \in [Workers -> SUBSET Messages],
             passed' \in [Workers -> SUBSET Messages],
             \A v \in Workers \ {w} : left'[v] = left[v] /\ passed'[v] = passed[v],
             BudgetTypeOK', WindowHolds', inflight' = inflight,
             aborts' = aborts
      PROVE  GuardInv'
  <2>1. Cardinality(Counted(pc')) = Cardinality(Counted(pc))
    BY <1>a, <1>t, CountMoves
  <2>2. QED
    BY <1>a, <1>t, <2>1 DEF GuardInv
\* Nobody steps.
<1>b. ASSUME UNCHANGED <<pc, left, passed, aborts>>,
             BudgetTypeOK', WindowHolds', inflight' = inflight
      PROVE  GuardInv'
  BY <1>b, <1>t DEF GuardInv
<1>1. ASSUME NEW w \in Workers, Select(w) PROVE GuardInv'
  <2>1. /\ pc[w] = "idle" /\ pc' = [pc EXCEPT ![w] = "selecting"]
        /\ UNCHANGED <<passed, aborts, budget>>
    BY <1>1 DEF Select
  <2>2. PICK S \in SUBSET Messages : left' = [left EXCEPT ![w] = S]
    BY <1>1 DEF Select, Eligible
  <2>3. BudgetTypeOK' /\ WindowHolds' /\ inflight' = inflight
    BY <2>1, <1>t, GuardCalls
  <2>4. /\ left' \in [Workers -> SUBSET Messages]
        /\ \A v \in Workers \ {w} : left'[v] = left[v]
    BY <2>2, <1>t
  <2>5. "selecting" \in Steps /\ (pc[w] \in Inside <=> "selecting" \in Inside)
    BY <2>1 DEF Steps, Inside
  <2>6. QED
    BY <2>1, <2>3, <2>4, <2>5, <1>t, <1>a
<1>2. ASSUME NEW w \in Workers, NEW m \in Messages, NEW batch,
             m \in left[w], Chosen(w, m, batch)
      PROVE  GuardInv'
  <2> DEFINE over == left[w] = {m} \/ (batch # {} /\ Cardinality(batch) >= Batch)
             step == IF ~over THEN "selecting"
                     ELSE IF batch = {} THEN "idle" ELSE "working"
  <2>1. pc[w] = "selecting"
    BY <1>2, <1>t
  <2>2. /\ left' = [left EXCEPT ![w] = IF over THEN {} ELSE @ \ {m}]
        /\ passed' = [passed EXCEPT ![w] = IF over THEN {} ELSE @ \cup {m}]
        /\ pc' = [pc EXCEPT ![w] = step]
        /\ UNCHANGED <<aborts, budget>>
    BY <1>2 DEF Chosen
  <2>3. step \in Steps /\ (pc[w] \in Inside <=> step \in Inside)
    BY <2>1 DEF Steps, Inside
  <2>4. step # "selecting" => over
    OBVIOUS
  <2> HIDE DEF step, over
  <2>5. /\ left' \in [Workers -> SUBSET Messages]
        /\ passed' \in [Workers -> SUBSET Messages]
        /\ \A v \in Workers \ {w} : left'[v] = left[v] /\ passed'[v] = passed[v]
        /\ over => left'[w] = {} /\ passed'[w] = {}
    BY <2>2, <1>t
  <2>6. BudgetTypeOK' /\ WindowHolds' /\ inflight' = inflight
    BY <2>2, <1>t, GuardCalls
  <2>7. QED
    BY <2>2, <2>3, <2>4, <2>5, <2>6, <1>a
<1>3. ASSUME NEW w \in Workers, NEW m \in Messages, Dispatch(w, m) PROVE GuardInv'
  <2>1. /\ pc[w] = "working" /\ pc' = [pc EXCEPT ![w] = "sending"]
        /\ UNCHANGED <<aborts, left, passed>>
        /\ Attempt
    BY <1>3 DEF Dispatch, StartSend, lease
  <2>2. BudgetTypeOK' /\ WindowHolds' /\ inflight' = inflight + 1
    BY <2>1, <1>t, GuardCalls
  <2>3. "sending" \in Inside /\ pc[w] \notin Inside /\ "sending" \in Steps
    BY <2>1 DEF Inside, Steps
  <2>4. Cardinality(Counted(pc')) = Cardinality(Counted(pc)) + 1
    BY <2>1, <2>3, <1>t, CountMoves
  <2>5. QED
    BY <2>1, <2>2, <2>3, <2>4, <1>t, <1>n DEF GuardInv
<1>4. ASSUME NEW w \in Workers, Refused(w) PROVE GuardInv'
  <2>1. /\ pc[w] = "working" /\ pc' = [pc EXCEPT ![w] = "idle"]
        /\ UNCHANGED <<aborts, left, passed>>
        /\ Refuse
    BY <1>4 DEF Refused, Forgets, lease
  <2>2. BudgetTypeOK' /\ WindowHolds' /\ inflight' = inflight
    BY <2>1, <1>t, GuardCalls
  <2>3. "idle" \in Steps /\ (pc[w] \in Inside <=> "idle" \in Inside)
    BY <2>1 DEF Inside, Steps
  <2>4. left'[w] = {} /\ passed'[w] = {}
    BY <2>1, <1>t
  <2>5. QED
    BY <2>1, <2>2, <2>3, <2>4, <1>t, <1>a
<1>5. ASSUME NEW w \in Workers, SendOk(w) \/ SendErr(w), UNCHANGED <<budget, lease>>
      PROVE  GuardInv'
  <2>1. PICK step \in {"acking", "failing"} : pc' = [pc EXCEPT ![w] = step]
    BY <1>5 DEF SendOk, SendErr
  <2>2. pc[w] = "sending" /\ UNCHANGED <<aborts, left, passed, budget>>
    BY <1>5 DEF SendOk, SendErr, lease
  <2>3. BudgetTypeOK' /\ WindowHolds' /\ inflight' = inflight
    BY <2>2, <1>t, GuardCalls
  <2>4. step \in Steps /\ (pc[w] \in Inside <=> step \in Inside)
    BY <2>1, <2>2 DEF Inside, Steps
  <2>5. left'[w] = {} /\ passed'[w] = {}
    BY <2>2, <1>t
  <2>6. QED
    BY <2>1, <2>2, <2>3, <2>4, <2>5, <1>t, <1>a
<1>6. ASSUME NEW w \in Workers, pc[w] \in Inside, Settles(w) PROVE GuardInv'
  <2>1. PICK step \in {"idle", "working"} : pc' = [pc EXCEPT ![w] = step]
    BY <1>6 DEF Settles, Proceed
  <2>2. UNCHANGED <<aborts, left, passed>> /\ Result
    BY <1>6 DEF Settles, lease
  <2>3. step \in Steps /\ step \notin Inside /\ step # "selecting"
    BY <2>1 DEF Inside, Steps
  <2>4. /\ Cardinality(Counted(pc)) = Cardinality(Counted(pc')) + 1
        /\ Cardinality(Counted(pc')) \in Nat
    BY <2>1, <2>3, <1>6, <1>t, CountMoves
  <2>5. inflight > 0
    BY <2>4, <1>t
  <2>6. BudgetTypeOK' /\ WindowHolds' /\ inflight' = inflight - 1
    BY <2>2, <2>5, <1>t, GuardCalls
  <2>7. \A v \in Workers : pc'[v] # "selecting" => left'[v] = {} /\ passed'[v] = {}
    BY <2>1, <2>2, <1>6, <1>t DEF Inside
  <2>8. pc' \in [Workers -> Steps]
    BY <2>1, <2>3, <1>t
  <2>9. QED
    BY <2>2, <2>4, <2>6, <2>7, <2>8, <1>t DEF GuardInv
<1>7. ASSUME NEW w \in Workers, SurrealDead(w) PROVE GuardInv'
  <2>1. /\ pc[w] = "failing" /\ pc' = [pc EXCEPT ![w] = "pushing"]
        /\ UNCHANGED <<aborts, left, passed, budget>>
    BY <1>7 DEF SurrealDead, lease
  <2>2. BudgetTypeOK' /\ WindowHolds' /\ inflight' = inflight
    BY <2>1, <1>t, GuardCalls
  <2>3. "pushing" \in Steps /\ (pc[w] \in Inside <=> "pushing" \in Inside)
    BY <2>1 DEF Inside, Steps
  <2>4. left'[w] = {} /\ passed'[w] = {}
    BY <2>1, <1>t
  <2>5. QED
    BY <2>1, <2>2, <2>3, <2>4, <1>t, <1>a
<1>8. ASSUME NEW w \in Workers, SurrealAborts(w) PROVE GuardInv'
  <2>1. /\ pc' = [pc EXCEPT ![w] = "idle"]
        /\ aborts' = aborts + 1
        /\ left' = [left EXCEPT ![w] = {}]
        /\ passed' = [passed EXCEPT ![w] = {}]
        /\ UNCHANGED budget
    BY <1>8 DEF SurrealAborts, TickAborts, Forgets
  <2>2. BudgetTypeOK' /\ WindowHolds' /\ inflight' = inflight
    BY <2>1, <1>t, GuardCalls
  <2>3. "idle" \in Steps /\ "idle" \notin Inside
    BY DEF Inside, Steps
  <2>4. /\ Cardinality(Counted(pc')) \in Nat
        /\ \/ Cardinality(Counted(pc)) = Cardinality(Counted(pc'))
           \/ Cardinality(Counted(pc)) = Cardinality(Counted(pc')) + 1
    BY <2>1, <2>3, <1>t, CountMoves
  <2>5. /\ inflight' >= Cardinality(Counted(pc'))
        /\ inflight' <= Cardinality(Counted(pc')) + aborts'
    BY <2>1, <2>2, <2>4, <1>t
  <2>6. QED
    BY <2>1, <2>2, <2>3, <2>5, <1>t DEF GuardInv
<1>9. ASSUME UNCHANGED <<pc, left, passed, aborts, budget>> PROVE GuardInv'
  BY <1>9, <1>t, <1>b, GuardCalls
<1>10. ASSUME NEW w \in Workers, DispatcherStep(w) PROVE GuardInv'
  <2>1. ASSUME NEW m \in Messages,
               SkipCandidate(w, m) \/ TryLease(w, m) \/ LoseCandidate(w, m)
        PROVE  GuardInv'
    BY <2>1, <1>2 DEF SkipCandidate, TryLease, LoseCandidate
  <2>2. CASE SurrealAck(w) \/ SurrealNack(w) \/ SurrealPush(w)
    BY <2>2, <1>6 DEF SurrealAck, SurrealNack, SurrealPush, Inside
  <2>3. QED
    BY <1>10, <2>1, <2>2, <1>3, <1>4, <1>5, <1>7 DEF DispatcherStep
<1>11. CASE \/ \E m \in Messages : SurrealEnqueue(m)
            \/ \E w \in Workers, m \in Messages : SurrealHeartbeat(w, m)
            \/ \E r \in Replays : SurrealReplay(r)
            \/ SurrealPurge
  <2>1. UNCHANGED <<pc, left, passed, aborts, budget>>
    BY <1>11 DEF SurrealEnqueue, Enqueue, SurrealHeartbeat, SurrealReplay,
       SurrealReplayRead, ReplayRead, SurrealRevive, SurrealReplayRemove, ReplayRemove, SurrealPurge, Purge, worker, lease
  <2>2. QED
    BY <2>1, <1>9
<1>12. CASE SurrealTick
  <2>1. UNCHANGED <<pc, left, passed, aborts>> /\ WindowPasses
    BY <1>12 DEF SurrealTick, Tick, lease
  <2>2. QED
    BY <2>1, <1>t, <1>b, GuardCalls
<1>13. CASE UNCHANGED surrealVars
  BY <1>13, <1>9 DEF surrealVars, vars, worker, lease
<1>14. QED
  BY <1>1, <1>8, <1>10, <1>11, <1>12, <1>13 DEF SurrealNext

\* Over SurrealTxStore the guard's count of sends in flight is never too low, and
\* too high only by aborted ticks; no window exceeds its limit: for any number
\* of workers, any limits, and with stale workers and replays.
THEOREM BudgetAccounts == SurrealSpec => []SurrealInv
<1>1. SurrealInit => GuardInv
  <2> SUFFICES ASSUME SurrealInit PROVE GuardInv
    OBVIOUS
  <2>1. Counted(pc) = {}
    BY DEF SurrealInit, Init, Counted, Inside
  <2>2. Cardinality(Counted(pc)) = 0
    BY <2>1, FS_EmptySet
  <2>3. BudgetTypeOK /\ WindowHolds /\ inflight = 0
    BY BudgetAssumption DEF SurrealInit, BudgetInit, BudgetTypeOK, WindowHolds
  <2>4. QED
    BY <2>2, <2>3 DEF SurrealInit, Init, GuardInv, Steps
<1>2. GuardInv => SurrealInv
  <2> SUFFICES ASSUME GuardInv PROVE SurrealInv
    OBVIOUS
  <2>1. SurrealTypeOK /\ WindowHolds
    BY DEF GuardInv, SurrealTypeOK, Steps
  <2>2. InflightAccounts
    <3>1. {w \in Workers : pc[w] \in {"sending", "acking", "failing", "pushing"}}
            = Counted(pc)
      BY DEF Counted, Inside
    <3>2. Counted(pc) \subseteq Workers
      BY DEF Counted
    <3>3. Cardinality(Counted(pc)) \in Nat
      BY <3>2, SetsAssumption, FS_Subset, FS_CardinalityType
    <3>4. inflight \in Cardinality(Counted(pc))..(Cardinality(Counted(pc)) + aborts)
      BY <3>3 DEF GuardInv, BudgetTypeOK
    <3>5. QED
      BY <3>1, <3>4 DEF InflightAccounts
  <2>3. QED
    BY <2>1, <2>2 DEF SurrealInv
<1>3. QED
  BY <1>1, <1>2, NextGuardInv, PTL DEF SurrealSpec

-----------------------------------------------------------------------------
(* SurrealDB: one message per dispatch key.                                *)

\* What a worker has chosen is among the candidates it has been through, and
\* between two ticks it has nothing; no message is in hand before the first send.
KeyInv ==
    /\ pc \in [Workers -> Steps]
    /\ todo \in [Workers -> SUBSET Messages]
    /\ passed \in [Workers -> SUBSET Messages]
    /\ cur \in [Workers -> Messages \cup {NoMessage}]
    /\ \A w \in Workers : /\ pc[w] = "idle" => todo[w] = {} /\ passed[w] = {}
                          /\ pc[w] \in {"idle", "selecting"} => cur[w] = NoMessage
                          /\ pc[w] = "selecting" => todo[w] \subseteq passed[w]
                          /\ pc[w] # "selecting" => left[w] = {} /\ passed[w] = {}
    /\ left \in [Workers -> SUBSET Messages]
    /\ KeyOncePerBatch

\* Workers that take nothing keep what they have apart.
LEMMA KeepsKeys ==
    ASSUME KeyOncePerBatch, \A w \in Workers : InHand(w)' \subseteq InHand(w)
    PROVE  KeyOncePerBatch'
BY DEF KeyOncePerBatch, SameKey

\* A candidate is only chosen when its key was met by no earlier one.
LEMMA NextKeyInv == KeyInv /\ [SurrealNext]_surrealVars => KeyInv'
<1> SUFFICES ASSUME KeyInv, [SurrealNext]_surrealVars PROVE KeyInv'
  OBVIOUS
<1>t. /\ pc \in [Workers -> Steps]
      /\ todo \in [Workers -> SUBSET Messages]
      /\ passed \in [Workers -> SUBSET Messages]
      /\ left \in [Workers -> SUBSET Messages]
      /\ cur \in [Workers -> Messages \cup {NoMessage}]
      /\ \A w \in Workers : /\ pc[w] = "idle" => todo[w] = {} /\ passed[w] = {}
                            /\ pc[w] \in {"idle", "selecting"} => cur[w] = NoMessage
                            /\ pc[w] = "selecting" => todo[w] \subseteq passed[w]
                            /\ pc[w] # "selecting" => left[w] = {} /\ passed[w] = {}
      /\ KeyOncePerBatch
  BY DEF KeyInv
<1>1. ASSUME NEW w \in Workers, Select(w) PROVE KeyInv'
  <2>1. /\ pc[w] = "idle" /\ pc' = [pc EXCEPT ![w] = "selecting"]
        /\ UNCHANGED <<todo, cur, passed>>
    BY <1>1 DEF Select
  <2>2. PICK S \in SUBSET Messages : left' = [left EXCEPT ![w] = S]
    BY <1>1 DEF Select, Eligible
  <2>3. \A v \in Workers : InHand(v)' \subseteq InHand(v)
    BY <2>1, <1>t DEF InHand
  <2>4. KeyOncePerBatch'
    BY <2>3, <1>t, KeepsKeys
  <2>5. QED
    BY <2>1, <2>2, <2>4, <1>t DEF KeyInv, Steps
<1>2. ASSUME NEW w \in Workers, NEW m \in Messages, NEW batch \in SUBSET Messages,
             m \in left[w], Chosen(w, m, batch),
             \/ batch = todo[w]
             \/ batch = todo[w] \cup {m} /\ ~SeenKey(w, m)
      PROVE  KeyInv'
  <2> DEFINE over == left[w] = {m} \/ (batch # {} /\ Cardinality(batch) >= Batch)
  <2>1. pc[w] = "selecting" /\ todo[w] \subseteq passed[w]
    BY <1>2, <1>t
  <2>2. /\ left' = [left EXCEPT ![w] = IF over THEN {} ELSE @ \ {m}]
        /\ passed' = [passed EXCEPT ![w] = IF over THEN {} ELSE @ \cup {m}]
        /\ todo' = [todo EXCEPT ![w] = batch]
        /\ pc' = [pc EXCEPT ![w] = IF ~over THEN "selecting"
                                   ELSE IF batch = {} THEN "idle" ELSE "working"]
        /\ cur' = cur
    BY <1>2 DEF Chosen
  <2> HIDE DEF over
  <2>3. /\ pc' \in [Workers -> Steps]
        /\ todo' \in [Workers -> SUBSET Messages]
        /\ passed' \in [Workers -> SUBSET Messages]
        /\ left' \in [Workers -> SUBSET Messages]
        /\ cur' \in [Workers -> Messages \cup {NoMessage}]
    BY <2>2, <1>t DEF Steps
  <2>4. \A v \in Workers : /\ pc'[v] = "idle" => todo'[v] = {} /\ passed'[v] = {}
                           /\ pc'[v] \in {"idle", "selecting"} => cur'[v] = NoMessage
                           /\ pc'[v] = "selecting" => todo'[v] \subseteq passed'[v]
                           /\ pc'[v] # "selecting" => left'[v] = {} /\ passed'[v] = {}
    BY <1>2, <2>1, <2>2, <1>t
  <2>5. /\ InHand(w) = todo[w]
        /\ InHand(w)' = batch
        /\ \A v \in Workers \ {w} : InHand(v)' = InHand(v)
    BY <2>1, <2>2, <1>t DEF InHand
  <2>6. \A n \in batch, k \in batch : SameKey(n, k) => n = k
    <3>1. \A n \in todo[w], k \in todo[w] : SameKey(n, k) => n = k
      BY <2>5, <1>t DEF KeyOncePerBatch
    <3>2. CASE batch = todo[w]
      BY <3>1, <3>2
    <3>3. CASE batch = todo[w] \cup {m} /\ ~SeenKey(w, m)
      <4>1. \A n \in todo[w] : ~SameKey(m, n) /\ ~SameKey(n, m)
        BY <3>3, <2>1 DEF SeenKey, SameKey
      <4>2. QED
        BY <3>1, <3>3, <4>1
    <3>4. QED
      BY <1>2, <3>2, <3>3
  <2>7. KeyOncePerBatch'
    <3>1. ASSUME NEW v \in Workers, NEW n \in InHand(v)', NEW k \in InHand(v)',
                 SameKey(n, k)
          PROVE  n = k
      <4>1. CASE v = w
        BY <4>1, <3>1, <2>5, <2>6
      <4>2. CASE v # w
        BY <4>2, <3>1, <2>5, <1>t DEF KeyOncePerBatch
      <4>3. QED
        BY <4>1, <4>2
    <3>2. QED
      BY <3>1 DEF KeyOncePerBatch, SameKey
  <2>8. QED
    BY <2>3, <2>4, <2>7 DEF KeyInv
\* Steps of a worker that is not among its candidates.
<1>3. ASSUME NEW w \in Workers, NEW step \in Steps \ {"selecting"},
             pc[w] # "selecting",
             pc' = [pc EXCEPT ![w] = step],
             todo' \in [Workers -> SUBSET Messages],
             cur' \in [Workers -> Messages \cup {NoMessage}],
             \A v \in Workers \ {w} : todo'[v] = todo[v] /\ cur'[v] = cur[v],
             step = "idle" => todo'[w] = {} /\ cur'[w] = NoMessage,
             InHand(w)' \subseteq InHand(w),
             UNCHANGED <<left, passed>>
      PROVE  KeyInv'
  <2>1. \A v \in Workers : InHand(v)' \subseteq InHand(v)
    BY <1>3, <1>t DEF InHand
  <2>2. KeyOncePerBatch'
    BY <2>1, <1>t, KeepsKeys
  <2>3. pc' \in [Workers -> Steps]
    BY <1>3, <1>t
  <2>4. \A v \in Workers : /\ pc'[v] = "idle" => todo'[v] = {} /\ passed'[v] = {}
                           /\ pc'[v] \in {"idle", "selecting"} => cur'[v] = NoMessage
                           /\ pc'[v] = "selecting" => todo'[v] \subseteq passed'[v]
                           /\ pc'[v] # "selecting" => left'[v] = {} /\ passed'[v] = {}
    BY <1>3, <1>t
  <2>5. QED
    BY <1>3, <2>2, <2>3, <2>4, <1>t DEF KeyInv
<1>4. ASSUME NEW w \in Workers, Proceed(w),
             pc[w] \in {"acking", "failing", "pushing"}, UNCHANGED <<left, passed>>
      PROVE  KeyInv'
  <2>1. PICK step \in {"idle", "working"} :
           /\ pc' = [pc EXCEPT ![w] = step]
           /\ step = "idle" => todo[w] = {}
    BY <1>4 DEF Proceed
  <2>2. cur' = [cur EXCEPT ![w] = NoMessage] /\ todo' = todo
    BY <1>4 DEF Proceed
  <2>3. InHand(w)' \subseteq InHand(w)
    BY <2>1, <2>2, <1>t DEF InHand
  <2>4. step \in Steps \ {"selecting"}
    BY <2>1 DEF Steps
  <2>5. /\ cur' \in [Workers -> Messages \cup {NoMessage}]
        /\ \A v \in Workers \ {w} : todo'[v] = todo[v] /\ cur'[v] = cur[v]
    BY <2>2, <1>t
  <2>6. QED
    BY <1>3, <1>4, <2>1, <2>2, <2>3, <2>4, <2>5, <1>t
<1>5. ASSUME NEW w \in Workers, NEW m \in Messages, Dispatch(w, m) PROVE KeyInv'
  <2>1. /\ pc[w] = "working" /\ m \in todo[w]
        /\ pc' = [pc EXCEPT ![w] = "sending"]
        /\ cur' = [cur EXCEPT ![w] = m]
        /\ todo' = [todo EXCEPT ![w] = @ \ {m}]
        /\ UNCHANGED <<left, passed>>
    BY <1>5 DEF Dispatch, StartSend, lease
  <2>2. InHand(w)' \subseteq InHand(w)
    BY <2>1, <1>t DEF InHand
  <2>3. "sending" \in Steps \ {"selecting"}
    BY DEF Steps
  <2>4. /\ todo' \in [Workers -> SUBSET Messages]
        /\ cur' \in [Workers -> Messages \cup {NoMessage}]
        /\ \A v \in Workers \ {w} : todo'[v] = todo[v] /\ cur'[v] = cur[v]
    BY <2>1, <1>t
  <2>5. QED
    BY <2>1, <2>2, <2>3, <2>4, <1>3
<1>6. ASSUME NEW w \in Workers, SendOk(w) \/ SendErr(w) \/ SurrealDead(w),
             UNCHANGED lease
      PROVE  KeyInv'
  <2>1. PICK step \in {"acking", "failing", "pushing"} : pc' = [pc EXCEPT ![w] = step]
    BY <1>6 DEF SendOk, SendErr, SurrealDead
  <2>2. /\ pc[w] \in {"sending", "failing"}
        /\ UNCHANGED <<todo, cur, left, passed>>
    BY <1>6 DEF SendOk, SendErr, SurrealDead, lease
  <2>3. InHand(w)' \subseteq InHand(w)
    BY <2>1, <2>2, <1>t DEF InHand
  <2>4. step \in Steps \ {"selecting"} /\ step # "idle"
    BY <2>1 DEF Steps
  <2>5. QED
    BY <2>1, <2>2, <2>3, <2>4, <1>t, <1>3
<1>7. ASSUME NEW w \in Workers, Forgets(w),
             \A v \in Workers : left'[v] = IF v = w THEN {} ELSE left[v],
             \A v \in Workers : passed'[v] = IF v = w THEN {} ELSE passed[v],
             left' \in [Workers -> SUBSET Messages],
             passed' \in [Workers -> SUBSET Messages]
      PROVE  KeyInv'
  <2>1. /\ pc' = [pc EXCEPT ![w] = "idle"]
        /\ todo' = [todo EXCEPT ![w] = {}]
        /\ cur' = [cur EXCEPT ![w] = NoMessage]
    BY <1>7 DEF Forgets
  <2>2. \A v \in Workers : InHand(v)' \subseteq InHand(v)
    BY <2>1, <1>t DEF InHand
  <2>3. KeyOncePerBatch'
    BY <2>2, <1>t, KeepsKeys
  <2>4. QED
    BY <2>1, <2>3, <1>7, <1>t DEF KeyInv, Steps
<1>8. ASSUME NEW w \in Workers, DispatcherStep(w) PROVE KeyInv'
  <2>1. ASSUME NEW m \in Messages,
               SkipCandidate(w, m) \/ TryLease(w, m) \/ LoseCandidate(w, m)
        PROVE  KeyInv'
    <3>1. PICK batch \in SUBSET Messages :
             /\ m \in left[w]
             /\ Chosen(w, m, batch)
             /\ \/ batch = todo[w]
                \/ batch = todo[w] \cup {m} /\ ~SeenKey(w, m)
      BY <2>1, <1>t DEF SkipCandidate, TryLease, LoseCandidate
    <3>2. QED
      BY <3>1, <1>2
  <2>2. CASE SurrealAck(w) \/ SurrealNack(w) \/ SurrealPush(w)
    BY <2>2, <1>4 DEF SurrealAck, SurrealNack, SurrealPush, Settles, lease
  <2>3. CASE Refused(w)
    <3>1. pc[w] = "working" /\ Forgets(w) /\ UNCHANGED <<left, passed>>
      BY <2>3 DEF Refused, lease
    <3>2. QED
      BY <3>1, <1>7, <1>t
  <2>4. CASE (SendOk(w) \/ SendErr(w)) /\ UNCHANGED <<budget, lease>>
    BY <2>4, <1>6
  <2>5. CASE SurrealDead(w)
    BY <2>5, <1>6 DEF SurrealDead
  <2>6. QED
    BY <1>8, <2>1, <2>2, <2>3, <2>4, <2>5, <1>5 DEF DispatcherStep
<1>9. ASSUME NEW w \in Workers, SurrealAborts(w) PROVE KeyInv'
  <2>1. /\ Forgets(w)
        /\ left' = [left EXCEPT ![w] = {}]
        /\ passed' = [passed EXCEPT ![w] = {}]
    BY <1>9 DEF SurrealAborts, TickAborts
  <2>2. QED
    BY <2>1, <1>7, <1>t
<1>10. ASSUME UNCHANGED <<pc, todo, cur, left, passed>> PROVE KeyInv'
  <2>1. \A v \in Workers : InHand(v)' \subseteq InHand(v)
    BY <1>10 DEF InHand
  <2>2. KeyOncePerBatch'
    BY <2>1, <1>t, KeepsKeys
  <2>3. QED
    BY <1>10, <2>2, <1>t DEF KeyInv
<1>11. CASE \/ \E m \in Messages : SurrealEnqueue(m)
            \/ \E w \in Workers, m \in Messages : SurrealHeartbeat(w, m)
            \/ \E r \in Replays : SurrealReplay(r)
            \/ SurrealPurge
            \/ SurrealTick
            \/ UNCHANGED surrealVars
  <2>1. UNCHANGED <<pc, todo, cur, left, passed>>
    BY <1>11 DEF SurrealEnqueue, Enqueue, SurrealHeartbeat, SurrealReplay,
       SurrealReplayRead, ReplayRead, SurrealRevive, SurrealReplayRemove, ReplayRemove, SurrealPurge, Purge, SurrealTick, Tick, worker,
       lease, surrealVars, vars
  <2>2. QED
    BY <2>1, <1>10
<1>12. QED
  BY <1>1, <1>8, <1>9, <1>11 DEF SurrealNext

\* Nobody has a batch at first.
LEMMA InitKeyInv == SurrealInit => KeyInv
<1> SUFFICES ASSUME SurrealInit PROVE KeyInv
  OBVIOUS
<1>1. \A w \in Workers : InHand(w) = {}
  BY DEF SurrealInit, Init, InHand
<1>2. KeyOncePerBatch
  BY <1>1 DEF KeyOncePerBatch
<1>3. QED
  BY <1>2 DEF SurrealInit, Init, KeyInv, Steps

\* A batch leased from SurrealDB never holds two messages of one dispatch key, so
\* the messages of a key are sent one at a time by a worker, although candidates
\* are read by one query and leased by others.
THEOREM OneMessagePerKey == SurrealSpec => []KeyOncePerBatch
<1>1. SurrealInit => KeyInv
  BY InitKeyInv
<1>2. KeyInv => KeyOncePerBatch
  BY DEF KeyInv
<1>3. QED
  BY <1>1, <1>2, NextKeyInv, PTL DEF SurrealSpec

-----------------------------------------------------------------------------
(* SurrealDB: the statements do what the calls of the memory store do.     *)

\* What lease_batch does with one candidate.
Considers(w, m) == SkipCandidate(w, m) \/ TryLease(w, m) \/ LoseCandidate(w, m)

\* A push that files nothing: the message has no letter, and the UPDATE makes none.
FilesNothing(w) ==
    /\ pc[w] = "pushing"
    /\ Proceed(w)
    /\ UNCHANGED <<store, replay, network, aborts>>

\* Every statement but those of lease_batch has the effect of the memory store's
\* call on the row; only a refused send and a push that files nothing are steps of
\* their own.
LEMMA SurrealActs ==
    ASSUME [SurrealNext]_surrealVars
    PROVE  \/ [Next]_vars
           \/ \E w \in Workers : Select(w) \/ Refused(w) \/ FilesNothing(w)
           \/ \E w \in Workers, m \in Messages : Considers(w, m)
<1>1. ASSUME NEW m \in Messages, SurrealEnqueue(m) PROVE Next
  BY <1>1 DEF SurrealEnqueue, Next
<1>2. ASSUME NEW w \in Workers, DispatcherStep(w)
      PROVE  \/ Next
             \/ Refused(w) \/ FilesNothing(w)
             \/ \E m \in Messages : Considers(w, m)
  <2>1. ASSUME NEW m \in Messages, Dispatch(w, m) PROVE WorkerStep(w)
    BY <2>1 DEF Dispatch, WorkerStep
  <2>2. ASSUME SendOk(w) \/ SendErr(w) PROVE WorkerStep(w)
    BY <2>2 DEF WorkerStep
  <2>3. ASSUME SurrealAck(w) PROVE AckDone(w)
    BY <2>3 DEF SurrealAck, Settles, Writes, Acked, Unleased, AckDone, SetRow
  <2>4. ASSUME SurrealNack(w) PROVE NackBackoff(w)
    <3>1. PICK delay \in MinDelay..MaxDelay :
             Writes(cur[w], Nacked(outbox[cur[w]],
                                   IF delay > age[w] THEN delay - age[w] ELSE 0))
      BY <2>4 DEF SurrealNack
    <3>2. SetRow(cur[w], "Pending", outbox[cur[w]].attempts + 1,
                 IF delay > age[w] THEN delay - age[w] ELSE 0)
      BY <3>1 DEF Writes, Nacked, Unleased, SetRow
    <3>3. QED
      BY <2>4, <3>2 DEF SurrealNack, Settles, NackBackoff
  <2>5. ASSUME SurrealDead(w) PROVE DeadLetter(w)
    BY <2>5 DEF SurrealDead, Writes, GivenUp, Unleased, DeadLetter, SetRow
  <2>6. ASSUME SurrealPush(w) PROVE PushLetter(w) \/ FilesNothing(w)
    BY <2>6 DEF SurrealPush, Settles, PushLetter, FilesNothing, store
  <2>7. WorkerStep(w) => Next
    BY DEF Next
  <2>8. QED
    BY <1>2, <2>1, <2>2, <2>3, <2>4, <2>5, <2>6, <2>7
    DEF DispatcherStep, Considers, WorkerStep
<1>3. ASSUME NEW w \in Workers, SurrealAborts(w) PROVE Next
  BY <1>3 DEF SurrealAborts, Next
<1>4. ASSUME NEW w \in Workers, NEW m \in Messages, SurrealHeartbeat(w, m) PROVE Next
  <2>1. Heartbeat(w, m)
    BY <1>4 DEF SurrealHeartbeat, Heartbeat, Writes, Extended
  <2>2. QED
    BY <2>1 DEF Next
<1>5. ASSUME NEW r \in Replays, SurrealReplay(r) PROVE Next
  <2>1. ASSUME SurrealRevive(r) PROVE ReplayRevive(r)
    BY <2>1 DEF SurrealRevive, Writes, Revived, Unleased, ReplayRevive, SetRow
  <2>2. ReplayStep(r)
    BY <1>5, <2>1 DEF SurrealReplay, SurrealReplayRead, SurrealReplayRemove, ReplayStep
  <2>3. QED
    BY <2>2 DEF Next
<1>6. SurrealPurge \/ SurrealTick => Next
  BY DEF SurrealPurge, SurrealTick, Next
<1>7. UNCHANGED surrealVars => UNCHANGED vars
  BY DEF surrealVars
<1>8. QED
  BY <1>1, <1>2, <1>3, <1>4, <1>5, <1>6, <1>7 DEF SurrealNext

\* The choice of candidates touches nothing but the worker's own variables.
LEMMA SelectIs ==
    ASSUME NEW w \in Workers, Select(w)
    PROVE  /\ pc[w] = "idle"
           /\ pc' = [pc EXCEPT ![w] = "selecting"]
           /\ UNCHANGED <<outbox, letters, letterAge, todo, cur, snap, age, replay,
                          delivered, fails, aborts>>
BY DEF Select, store, network

\* A candidate is done with: it is passed over, or it is leased as it then is.
LEMMA ConsidersIs ==
    ASSUME TypeInv, KeyInv, NEW w \in Workers, NEW m \in Messages, Considers(w, m)
    PROVE  /\ pc[w] = "selecting"
           /\ UNCHANGED <<letters, letterAge, cur, replay, delivered, fails, aborts>>
           /\ \E step \in {"selecting", "working", "idle"} :
                 /\ pc' = [pc EXCEPT ![w] = step]
                 /\ step = "idle" <=> step # "selecting" /\ todo'[w] = {}
                 /\ age' = [age EXCEPT ![w] = IF step = "idle" THEN 0 ELSE @]
           /\ \/ UNCHANGED <<outbox, todo, snap>>
              \/ /\ m \in Eligible(w)
                 /\ outbox' = [outbox EXCEPT ![m] = LeasedSince(outbox[m], w)]
                 /\ snap' = [snap EXCEPT ![w] = [snap[w] EXCEPT ![m] = outbox[m].attempts]]
                 /\ todo' = [todo EXCEPT ![w] = todo[w] \cup {m}]
<1>1. m \in left[w]
  BY DEF Considers, SkipCandidate, TryLease, LoseCandidate
<1>2. pc[w] = "selecting"
  BY <1>1 DEF KeyInv
<1>3. PICK batch \in {todo[w], todo[w] \cup {m}} :
         /\ Chosen(w, m, batch)
         /\ \/ batch = todo[w] /\ UNCHANGED <<outbox, snap>>
            \/ /\ batch = todo[w] \cup {m}
               /\ m \in Eligible(w)
               /\ outbox' = [outbox EXCEPT ![m] = LeasedSince(outbox[m], w)]
               /\ snap' = [snap EXCEPT ![w] = [snap[w] EXCEPT ![m] = outbox[m].attempts]]
  BY DEF Considers, SkipCandidate, TryLease, LoseCandidate
<1> DEFINE over == left[w] = {m} \/ (batch # {} /\ Cardinality(batch) >= Batch)
           step == IF ~over THEN "selecting"
                   ELSE IF batch = {} THEN "idle" ELSE "working"
<1>4. /\ todo' = [todo EXCEPT ![w] = batch]
      /\ pc' = [pc EXCEPT ![w] = step]
      /\ age' = [age EXCEPT ![w] = IF over /\ batch = {} THEN 0 ELSE @]
      /\ UNCHANGED <<letters, letterAge, cur, replay, delivered, fails, aborts>>
  BY <1>3 DEF Chosen, network
<1>5. todo \in [Workers -> SUBSET Messages]
  BY PromptTypes
<1>6. /\ step \in {"selecting", "working", "idle"}
      /\ step = "idle" <=> over /\ batch = {}
      /\ step = "selecting" <=> ~over
  OBVIOUS
<1> HIDE DEF over, step
<1>7. todo'[w] = batch /\ (batch = todo[w] => todo' = todo)
  BY <1>4, <1>5
<1>8. /\ pc' = [pc EXCEPT ![w] = step]
      /\ step = "idle" <=> step # "selecting" /\ todo'[w] = {}
      /\ age' = [age EXCEPT ![w] = IF step = "idle" THEN 0 ELSE @]
  BY <1>4, <1>6, <1>7
<1>9. \/ UNCHANGED <<outbox, todo, snap>>
      \/ /\ m \in Eligible(w)
         /\ outbox' = [outbox EXCEPT ![m] = LeasedSince(outbox[m], w)]
         /\ snap' = [snap EXCEPT ![w] = [snap[w] EXCEPT ![m] = outbox[m].attempts]]
         /\ todo' = [todo EXCEPT ![w] = todo[w] \cup {m}]
  BY <1>3, <1>4, <1>7
<1>10. QED
  BY <1>2, <1>4, <1>6, <1>8, <1>9

\* No step of its own over SurrealDB changes the types.
LEMMA SurrealTypes ==
    ASSUME TypeInv, KeyInv, [SurrealNext]_surrealVars
    PROVE  TypeInv'
<1>t. TypesOK /\ HandOK
  BY DEF TypeInv
<1>k. NoSnap \in [Messages -> Nat]
  BY DEF NoSnap
<1>1. ASSUME NEW w \in Workers, Select(w) PROVE TypeInv'
  BY <1>1, <1>t, SelectIs DEF TypeInv, TypesOK, HandOK, Steps
<1>2. ASSUME NEW w \in Workers, Refused(w) PROVE TypeInv'
  BY <1>2, <1>t, <1>k DEF Refused, Forgets, TypeInv, TypesOK, HandOK, Steps, store,
     network
<1>3. ASSUME NEW w \in Workers, NEW m \in Messages, Considers(w, m) PROVE TypeInv'
  <2>1. /\ pc[w] = "selecting"
        /\ UNCHANGED <<letters, letterAge, cur, replay, delivered, fails, aborts>>
        /\ \E step \in {"selecting", "working", "idle"} :
              /\ pc' = [pc EXCEPT ![w] = step]
              /\ age' = [age EXCEPT ![w] = IF step = "idle" THEN 0 ELSE @]
        /\ \/ UNCHANGED <<outbox, todo, snap>>
           \/ /\ outbox' = [outbox EXCEPT ![m] = LeasedSince(outbox[m], w)]
              /\ snap' = [snap EXCEPT ![w] = [snap[w] EXCEPT ![m] = outbox[m].attempts]]
              /\ todo' = [todo EXCEPT ![w] = todo[w] \cup {m}]
    BY <1>3, ConsidersIs
  <2>2. LeasedSince(outbox[m], w) \in Row /\ outbox[m].attempts \in Nat
    <3>1. outbox[m] \in Row /\ age[w] \in Nat /\ Lease \in Nat
      BY <1>t, ParametersAssumption DEF TypesOK
    <3>2. (IF age[w] < Lease THEN Lease - age[w] ELSE 0) \in Nat
      BY <3>1
    <3>3. QED
      BY <3>1, <3>2 DEF LeasedSince, Row, Status, Open
  <2>3. outbox' \in [Messages -> Row]
    BY <2>1, <2>2, <1>t DEF TypesOK
  <2>4. /\ snap' \in [Workers -> [Messages -> Nat]]
        /\ todo' \in [Workers -> SUBSET Messages]
    <3>1. [snap[w] EXCEPT ![m] = outbox[m].attempts] \in [Messages -> Nat]
      BY <2>2, <1>t DEF TypesOK
    <3>2. todo[w] \cup {m} \in SUBSET Messages
      BY <1>t DEF TypesOK
    <3>3. snap \in [Workers -> [Messages -> Nat]] /\ todo \in [Workers -> SUBSET Messages]
      BY <1>t DEF TypesOK
    <3> DEFINE counted == [snap[w] EXCEPT ![m] = outbox[m].attempts]
               more == todo[w] \cup {m}
    <3>4. /\ snap' \in {snap, [snap EXCEPT ![w] = counted]}
          /\ todo' \in {todo, [todo EXCEPT ![w] = more]}
      BY <2>1
    <3> HIDE DEF counted, more
    <3>5. counted \in [Messages -> Nat] /\ more \in SUBSET Messages
      BY <3>1, <3>2 DEF counted, more
    <3>6. QED
      BY <3>3, <3>4, <3>5
  <2>5. /\ pc' \in [Workers -> Steps]
        /\ age' \in [Workers -> Nat]
    BY <2>1, <1>t DEF TypesOK, Steps
  <2>6. HandOK'
    BY <2>1, <1>t DEF TypesOK, HandOK
  <2>7. QED
    BY <2>1, <2>3, <2>4, <2>5, <2>6, <1>t DEF TypeInv, TypesOK
<1>4. ASSUME NEW w \in Workers, FilesNothing(w) PROVE TypeInv'
  BY <1>4, <1>t, <1>k DEF FilesNothing, Proceed, TypeInv, TypesOK, HandOK, Steps, store,
     network
<1>5. QED
  BY <1>1, <1>2, <1>3, <1>4, SurrealActs, NextTypeInv

\* Nor do they acknowledge anything.
LEMMA SurrealAckInv ==
    ASSUME TypeInv, KeyInv, AckInv, [SurrealNext]_surrealVars
    PROVE  AckInv'
<1>t. pc \in [Workers -> Steps] /\ outbox \in [Messages -> Row]
  BY PromptTypes
<1>1. ASSUME NEW w \in Workers, Select(w) PROVE AckInv'
  BY <1>1, <1>t, SelectIs DEF AckInv, DoneWasDelivered
<1>2. ASSUME NEW w \in Workers, Refused(w) PROVE AckInv'
  <2>1. /\ pc' = [pc EXCEPT ![w] = "idle"]
        /\ \A v \in Workers \ {w} : cur'[v] = cur[v]
        /\ UNCHANGED <<outbox, delivered>>
    BY <1>2, PromptTypes DEF Refused, Forgets, store, network
  <2>2. QED
    BY <2>1, <1>t DEF AckInv, DoneWasDelivered
<1>3. ASSUME NEW w \in Workers, NEW m \in Messages, Considers(w, m) PROVE AckInv'
  <2>1. /\ \E step \in {"selecting", "working", "idle"} : pc' = [pc EXCEPT ![w] = step]
        /\ UNCHANGED <<cur, delivered>>
        /\ \/ outbox' = outbox
           \/ outbox' = [outbox EXCEPT ![m] = LeasedSince(outbox[m], w)]
    BY <1>3, ConsidersIs
  <2>2. \A n \in Messages : outbox'[n].status = "Done" => outbox[n].status = "Done"
    BY <2>1, <1>t DEF LeasedSince
  <2>3. QED
    BY <2>1, <2>2, <1>t DEF AckInv, DoneWasDelivered
<1>4. ASSUME NEW w \in Workers, FilesNothing(w) PROVE AckInv'
  BY <1>4, <1>t DEF AckInv, DoneWasDelivered, FilesNothing, Proceed, store, network
<1>5. QED
  BY <1>1, <1>2, <1>3, <1>4, SurrealActs, NextAckInv

\* A lease copies the row's attempts, and no other step of lease_batch counts.
LEMMA SurrealCountInv ==
    ASSUME TypeInv, KeyInv, CountInv, [SurrealNext]_surrealVars
    PROVE  CountInv'
<1>t. /\ pc \in [Workers -> Steps]
      /\ outbox \in [Messages -> Row]
      /\ snap \in [Workers -> [Messages -> Nat]]
      /\ cur \in [Workers -> Messages \cup {NoMessage}]
      /\ fails \in [Messages -> Nat]
      /\ \A m \in Messages : outbox[m].attempts \in Nat
      /\ TypeInv'
  BY PromptTypes, SurrealTypes DEF TypeInv, TypesOK
<1>0. \A v \in Workers, m \in Messages : NoSnap[m] <= snap[v][m]
  BY <1>t DEF NoSnap
<1>1. ASSUME NEW w \in Workers, Select(w) PROVE CountInv'
  <2>1. /\ UNCHANGED <<outbox, cur, snap, fails>>
        /\ pc' = [pc EXCEPT ![w] = "selecting"]
    BY <1>1, SelectIs
  <2>2. QED
    BY <2>1, <1>t, KeepsCount DEF Failing
<1>2. ASSUME NEW w \in Workers, Refused(w) PROVE CountInv'
  <2>1. /\ UNCHANGED <<outbox, fails>>
        /\ pc' = [pc EXCEPT ![w] = "idle"]
        /\ \A v \in Workers : v # w => cur'[v] = cur[v]
        /\ \A v \in Workers : snap'[v] \in {snap[v], NoSnap}
    BY <1>2, <1>t DEF Refused, Forgets, store, network
  <2>2. QED
    BY <2>1, <1>t, <1>0, KeepsCount DEF Failing
<1>3. ASSUME NEW w \in Workers, NEW m \in Messages, Considers(w, m) PROVE CountInv'
  <2>1. /\ pc[w] = "selecting"
        /\ \E step \in {"selecting", "working", "idle"} : pc' = [pc EXCEPT ![w] = step]
        /\ UNCHANGED <<cur, fails>>
        /\ \/ UNCHANGED <<outbox, snap>>
           \/ /\ outbox' = [outbox EXCEPT ![m] = LeasedSince(outbox[m], w)]
              /\ snap' = [snap EXCEPT ![w] = [snap[w] EXCEPT ![m] = outbox[m].attempts]]
    BY <1>3, ConsidersIs
  <2>2. /\ \A n \in Messages : Failing(n)' = Failing(n)
        /\ \A v \in Workers : pc'[v] = "failing" => pc[v] = "failing" /\ v # w
    BY <2>1, <1>t DEF Failing
  <2>3. \A n \in Messages :
           /\ outbox'[n].attempts = outbox[n].attempts
           /\ outbox'[n].status = "Dead" => outbox[n].status = "Dead"
    BY <2>1, <1>t DEF LeasedSince
  <2>4. ASSUME NEW v \in Workers, NEW n \in Messages
        PROVE  snap'[v][n] <= fails'[n]
    <3>1. snap'[v][n] \in {snap[v][n], outbox[n].attempts}
      BY <2>1, <1>t
    <3>2. outbox[n].attempts + Cardinality(Failing(n)) <= fails[n] /\ snap[v][n] <= fails[n]
      BY DEF CountInv
    <3>3. outbox[n].attempts <= fails[n]
      BY <3>2, FailingFinite, <1>t
    <3>4. QED
      BY <3>1, <3>2, <3>3, <2>1
  <2>5. \A v \in Workers : pc'[v] = "failing" => snap'[v] = snap[v]
    BY <2>1, <2>2, <1>t
  <2>6. \A v \in Workers : pc'[v] = "failing" => snap'[v][cur'[v]] + 1 <= fails'[cur'[v]]
    BY <2>1, <2>2, <2>5 DEF CountInv
  <2>7. DeadWasTried'
    BY <2>1, <2>3 DEF CountInv, DeadWasTried
  <2>8. QED
    BY <2>1, <2>2, <2>3, <2>4, <2>6, <2>7 DEF CountInv
<1>4. ASSUME NEW w \in Workers, FilesNothing(w) PROVE CountInv'
  <2>1. /\ UNCHANGED <<outbox, fails>>
        /\ \A v \in Workers : pc'[v] = "failing" => pc[v] = "failing" /\ v # w
        /\ \A v \in Workers : v # w => cur'[v] = cur[v]
        /\ \A v \in Workers : snap'[v] \in {snap[v], NoSnap}
    BY <1>4, <1>t DEF FilesNothing, Proceed, store, network
  <2>2. QED
    BY <2>1, <1>t, <1>0, KeepsCount DEF Failing
<1>5. QED
  BY <1>1, <1>2, <1>3, <1>4, SurrealActs, NextCountInv

\* With prompt ticks the batch that is put together is within its leases all along.
LEMMA SurrealPromptInv ==
    ASSUME Prompt, TypeInv, KeyInv, PromptInv, ReplaysApart, ReplaysApart',
           [SurrealNext]_surrealVars
    PROVE  PromptInv'
<1>p. HeldInv /\ BatchInv /\ OpenInv /\ DeadInv /\ LetterInv
  BY DEF PromptInv
<1>t. /\ outbox \in [Messages -> Row]
      /\ \A m \in Messages : outbox[m].attempts \in Nat /\ outbox[m].lease \in Nat
      /\ pc \in [Workers -> Steps]
      /\ todo \in [Workers -> SUBSET Messages]
      /\ cur \in [Workers -> Messages \cup {NoMessage}]
      /\ snap \in [Workers -> [Messages -> Nat]]
      /\ age \in [Workers -> Nat]
      /\ Lease \in Nat /\ Lease > 0
      /\ \A w \in Workers : InHand(w) \subseteq Messages
  BY PromptTypes
<1>1. ASSUME NEW w \in Workers, Select(w) PROVE PromptInv'
  <2>1. /\ pc[w] = "idle"
        /\ pc' = [pc EXCEPT ![w] = "selecting"]
        /\ UNCHANGED <<outbox, letters, todo, cur, snap, age, replay>>
    BY <1>1, SelectIs
  <2>2. \A v \in Workers : InHand(v)' = InHand(v)
    BY <2>1, <1>t DEF InHand
  <2>3. HeldInv'
    BY <2>1, <2>2, <1>p, KeepsHeld
  <2>4. cur[w] \notin todo[w] /\ todo[w] = {}
    BY <2>1, <1>p DEF BatchInv
  <2>5. BatchInv'
    BY <2>1, <2>4, <1>t, <1>p DEF BatchInv
  <2>6. OpenInv'
    BY <2>1, <1>p DEF OpenInv
  <2>7. DeadInv' /\ LetterInv'
    <3>1. \A v \in Workers : pc'[v] = "pushing" => pc[v] = "pushing" /\ cur'[v] = cur[v]
      BY <2>1, <1>t
    <3>2. letters' \subseteq letters
      BY <2>1
    <3>3. QED
      BY <2>1, <3>1, <3>2, <1>p, KeepsDead
  <2>8. QED
    BY <2>3, <2>5, <2>6, <2>7 DEF PromptInv
<1>2. ASSUME NEW w \in Workers, Refused(w) PROVE PromptInv'
  BY <1>2, ForgetsPrompt DEF Refused, store
<1>3. ASSUME NEW w \in Workers, NEW m \in Messages, Considers(w, m) PROVE PromptInv'
  <2>1. /\ pc[w] = "selecting"
        /\ UNCHANGED <<letters, cur, replay>>
    BY <1>3, ConsidersIs
  <2>2. PICK step \in {"selecting", "working", "idle"} :
           /\ pc' = [pc EXCEPT ![w] = step]
           /\ step = "idle" <=> step # "selecting" /\ todo'[w] = {}
           /\ age' = [age EXCEPT ![w] = IF step = "idle" THEN 0 ELSE @]
    BY <1>3, ConsidersIs
  <2>3. \/ UNCHANGED <<outbox, todo, snap>>
        \/ /\ m \in Eligible(w)
           /\ outbox' = [outbox EXCEPT ![m] = LeasedSince(outbox[m], w)]
           /\ snap' = [snap EXCEPT ![w] = [snap[w] EXCEPT ![m] = outbox[m].attempts]]
           /\ todo' = [todo EXCEPT ![w] = todo[w] \cup {m}]
    BY <1>3, ConsidersIs
  <2>4. /\ InHand(w) = todo[w] /\ InHand(w)' = todo'[w]
        /\ \A v \in Workers \ {w} : /\ InHand(v)' = InHand(v)
                                    /\ age'[v] = age[v]
        /\ todo'[w] # {} => age' = age
    BY <2>1, <2>2, <2>3, <1>t DEF InHand
  <2>5. \A n \in Messages : /\ outbox'[n].attempts = outbox[n].attempts
                            /\ outbox[n].status \notin Open => outbox'[n] = outbox[n]
    BY <2>3, <1>t DEF Eligible, LeasedSince
  <2>6. HeldInv'
    <3>1. CASE UNCHANGED <<outbox, todo, snap>>
      <4>1. ASSUME NEW v \in Workers, NEW n \in InHand(v)'
            PROVE  n \in InHand(v) /\ age'[v] = age[v]
        BY <3>1, <4>1, <2>4
      <4>2. QED
        BY <3>1, <4>1, <1>p, KeepsHeld
    <3>2. CASE /\ m \in Eligible(w)
               /\ outbox' = [outbox EXCEPT ![m] = LeasedSince(outbox[m], w)]
               /\ snap' = [snap EXCEPT ![w] = [snap[w] EXCEPT ![m] = outbox[m].attempts]]
               /\ todo' = [todo EXCEPT ![w] = todo[w] \cup {m}]
      <4>1. ASSUME NEW v \in Workers \ {w} PROVE m \notin InHand(v)
        <5>1. ASSUME m \in InHand(v) PROVE FALSE
          <6>1. /\ outbox[m].worker = v
                /\ outbox[m].lease + age[v] >= Lease
                /\ age[v] < Lease
            BY <5>1, <1>p DEF HeldInv, BatchInv
          <6>2. outbox[m].lease > 0
            BY <6>1, <1>t
          <6>3. QED
            BY <6>1, <6>2, <3>2 DEF Eligible
        <5>2. QED
          BY <5>1
      <4>2. age' = age /\ age[w] < Lease /\ age[w] \in Nat
        BY <3>2, <2>4, <1>t, <1>p DEF BatchInv
      <4>3. ASSUME NEW v \in Workers, NEW n \in InHand(v)'
            PROVE  /\ outbox'[n].status = "Leased"
                   /\ outbox'[n].worker = v
                   /\ outbox'[n].lease + age'[v] >= Lease
                   /\ snap'[v][n] = outbox'[n].attempts
        <5>1. CASE v = w /\ n = m
          <6>1. /\ outbox'[m] = LeasedSince(outbox[m], w)
                /\ snap'[w][m] = outbox[m].attempts
            BY <3>2, <1>t
          <6>2. LeasedSince(outbox[m], w).lease = Lease - age[w]
            BY <4>2 DEF LeasedSince
          <6>3. (Lease - age[w]) + age[w] >= Lease
            BY <4>2, <1>t
          <6>4. QED
            BY <5>1, <6>1, <6>2, <6>3, <4>2 DEF LeasedSince
        <5>2. CASE v = w /\ n # m
          <6>1. n \in InHand(w) /\ n \in Messages
            BY <5>2, <4>3, <3>2, <2>4, <1>t
          <6>2. outbox'[n] = outbox[n] /\ snap'[w][n] = snap[w][n]
            BY <5>2, <6>1, <3>2, <1>t
          <6>3. QED
            BY <5>2, <6>1, <6>2, <4>2, <1>p DEF HeldInv
        <5>3. CASE v # w
          <6>1. n \in InHand(v) /\ n # m /\ n \in Messages
            BY <5>3, <4>3, <4>1, <2>4, <1>t
          <6>2. outbox'[n] = outbox[n] /\ snap'[v] = snap[v]
            BY <5>3, <6>1, <3>2, <1>t
          <6>3. QED
            BY <6>1, <6>2, <4>2, <1>p DEF HeldInv
        <5>4. QED
          BY <5>1, <5>2, <5>3
      <4>4. QED
        BY <4>3 DEF HeldInv
    <3>3. QED
      BY <2>3, <3>1, <3>2
  <2>7. BatchInv'
    <3>1. /\ pc'[w] = step
          /\ age'[w] = IF step = "idle" THEN 0 ELSE age[w]
          /\ cur'[w] = cur[w]
      BY <2>1, <2>2, <1>t
    <3>2. \A v \in Workers \ {w} : /\ pc'[v] = pc[v] /\ age'[v] = age[v]
                                   /\ todo'[v] = todo[v] /\ cur'[v] = cur[v]
      BY <2>1, <2>2, <2>3, <1>t
    <3>3. cur[w] = NoMessage
      BY <2>1 DEF KeyInv
    <3>4. cur'[w] \notin todo'[w]
      BY <3>1, <3>3, <2>3, <1>t, SetsAssumption
    <3>5. QED
      BY <3>1, <3>2, <3>4, <2>2, <1>t, <1>p DEF BatchInv
  <2>8. OpenInv'
    <3>1. ASSUME NEW n \in Messages
          PROVE  /\ outbox'[n].status \in Open => outbox[n].status \in Open
                 /\ outbox'[n].status = "Absent" => outbox[n].status = "Absent"
      BY <2>3, <2>5, <1>t DEF LeasedSince
    <3>2. QED
      BY <3>1, <2>5, <1>p DEF OpenInv
  <2>9. DeadInv' /\ LetterInv'
    <3>1. \A v \in Workers : pc'[v] = "pushing" => pc[v] = "pushing" /\ cur'[v] = cur[v]
      BY <2>1, <2>2, <1>t
    <3>2. \A n \in Messages : outbox[n].status = "Dead" => outbox'[n].status = "Dead"
      BY <2>5 DEF Open
    <3>3. letters' \subseteq letters /\ replay' = replay
      BY <2>1
    <3>4. QED
      BY <3>1, <3>2, <3>3, <1>p, KeepsDead
  <2>10. QED
    BY <2>6, <2>7, <2>8, <2>9 DEF PromptInv
<1>4. ASSUME NEW w \in Workers, FilesNothing(w) PROVE PromptInv'
  <2>1. /\ pc[w] = "pushing"
        /\ Proceed(w)
        /\ UNCHANGED <<outbox, letters, replay>>
    BY <1>4 DEF FilesNothing, store
  <2>2. /\ \A v \in Workers \ {w} :
              /\ InHand(v)' = InHand(v)
              /\ snap'[v] = snap[v]
              /\ age'[v] = age[v]
              /\ pc'[v] = pc[v]
              /\ cur'[v] = cur[v]
        /\ InHand(w)' = todo[w] /\ todo[w] \subseteq InHand(w)
        /\ todo[w] # {} => snap' = snap /\ age' = age
        /\ BatchInv'
        /\ pc'[w] # "pushing"
    BY <2>1, <1>p, ProceedHeld DEF InHand
  <2>3. ASSUME NEW v \in Workers, NEW n \in InHand(v)'
        PROVE  /\ n \in InHand(v)
               /\ snap'[v][n] = snap[v][n]
               /\ age'[v] = age[v]
    <3>1. CASE v = w
      BY <3>1, <2>3, <2>2
    <3>2. CASE v # w
      BY <3>2, <2>3, <2>2
    <3>3. QED
      BY <3>1, <3>2
  <2>4. HeldInv'
    BY <2>1, <2>3, <1>p, KeepsHeld
  <2>5. OpenInv'
    BY <2>1, <1>p DEF OpenInv
  <2>6. DeadInv' /\ LetterInv'
    BY <2>1, <2>2, <1>p, KeepsDead
  <2>7. QED
    BY <2>2, <2>4, <2>5, <2>6 DEF PromptInv
<1>5. QED
  BY <1>1, <1>2, <1>3, <1>4, SurrealActs, NextPromptInv

\* Taking a candidate is a claim of one message, refusing a send gives the batch up.
LEMMA SurrealLifecycle ==
    ASSUME Prompt, TypeInv, KeyInv, AckInv, PromptInv, PromptInv',
           [SurrealNext]_surrealVars
    PROVE  [Lifecycle!Next]_Lifecycle!vars
<1> DEFINE phase == [n \in Messages |-> Phase(n)]
           holder == [n \in Messages |-> Holder(n)]
           tries == [n \in Messages |-> outbox[n].attempts]
<1>p. HeldInv /\ HeldInv'
  BY DEF PromptInv
<1>t. /\ outbox \in [Messages -> Row]
      /\ pc \in [Workers -> Steps]
      /\ todo \in [Workers -> SUBSET Messages]
  BY PromptTypes
<1>q. ASSUME UNCHANGED <<phase, holder, tries, delivered>>
      PROVE  [Lifecycle!Next]_Lifecycle!vars
  BY <1>q DEF Lifecycle!vars
<1>1. ASSUME NEW w \in Workers, Select(w) PROVE [Lifecycle!Next]_Lifecycle!vars
  <2>1. /\ pc[w] = "idle"
        /\ pc' = [pc EXCEPT ![w] = "selecting"]
        /\ UNCHANGED <<outbox, todo, cur, delivered>>
    BY <1>1, SelectIs
  <2>2. \A v \in Workers : InHand(v)' = InHand(v)
    BY <2>1, <1>t DEF InHand
  <2>3. UNCHANGED <<phase, holder, tries>>
    BY <2>1, <2>2, QuietMaps DEF Phase
  <2>4. QED
    BY <2>1, <2>3, <1>q
<1>2. ASSUME NEW w \in Workers, Refused(w) PROVE [Lifecycle!Next]_Lifecycle!vars
  <2>1. Forgets(w) /\ delivered' = delivered /\ outbox' = outbox
    BY <1>2 DEF Refused, store, network
  <2>2. QED
    BY <2>1, ForgetsMaps
<1>3. ASSUME NEW w \in Workers, NEW m \in Messages, Considers(w, m)
      PROVE  [Lifecycle!Next]_Lifecycle!vars
  <2>1. /\ pc[w] = "selecting"
        /\ \E step \in {"selecting", "working", "idle"} : pc' = [pc EXCEPT ![w] = step]
        /\ UNCHANGED <<cur, delivered>>
    BY <1>3, ConsidersIs
  <2>2. \/ UNCHANGED <<outbox, todo>>
        \/ /\ m \in Eligible(w)
           /\ outbox' = [outbox EXCEPT ![m] = LeasedSince(outbox[m], w)]
           /\ todo' = [todo EXCEPT ![w] = todo[w] \cup {m}]
    BY <1>3, ConsidersIs
  <2>3. /\ InHand(w) = todo[w] /\ InHand(w)' = todo'[w]
        /\ \A v \in Workers \ {w} : InHand(v)' = InHand(v)
    BY <2>1, <2>2, <1>t DEF InHand
  <2>4. \A n \in Messages : Phase(n)' = Phase(n) /\ outbox'[n].attempts = outbox[n].attempts
    BY <2>2, <1>t DEF Phase, Eligible, LeasedSince, Open
  <2>5. CASE todo' = todo
    <3>1. \A v \in Workers : InHand(v)' = InHand(v)
      BY <2>3, <2>5
    <3>2. UNCHANGED <<phase, holder, tries>>
      BY <3>1, <2>4, QuietMaps
    <3>3. QED
      BY <2>1, <3>2, <1>q
  <2>6. CASE todo' # todo
    <3>1. m \in Eligible(w) /\ todo'[w] = todo[w] \cup {m} /\ m \notin todo[w]
      BY <2>2, <2>6, <1>t
    <3> DEFINE S == {m}
    <3>2. S \cap InHand(w) = {} /\ InHand(w)' = InHand(w) \cup S
      BY <3>1, <2>3
    <3>3. S \in SUBSET Messages /\ \A n \in S : Phase(n) = "Open"
      BY <3>1 DEF Eligible, Phase
    <3> HIDE DEF S
    <3>4. \A n \in Messages : /\ Holder(n)' = IF n \in S THEN w ELSE Holder(n)
                              /\ n \in S => Holder(n) = NoWorker
      BY <3>2, <2>3, <1>p, HolderTakes
    <3>5. S \in SUBSET {n \in Messages : phase[n] = "Open" /\ holder[n] = NoWorker}
      BY <3>3, <3>4
    <3>6. holder' = [n \in Messages |-> IF n \in S THEN w ELSE holder[n]]
      BY <3>4
    <3>7. Lifecycle!Claim(w)
      BY <2>1, <2>4, <3>5, <3>6 DEF Lifecycle!Claim
    <3>8. QED
      BY <3>7 DEF Lifecycle!Next
  <2>7. QED
    BY <2>5, <2>6
<1>4. ASSUME NEW w \in Workers, FilesNothing(w) PROVE [Lifecycle!Next]_Lifecycle!vars
  <2>1. /\ pc[w] = "pushing" /\ Proceed(w)
        /\ UNCHANGED <<outbox, delivered>>
    BY <1>4 DEF FilesNothing, store, network
  <2>2. BatchInv
    BY DEF PromptInv
  <2>3. \A v \in Workers : InHand(v)' = InHand(v)
    BY <2>1, <2>2, ProceedHeld DEF InHand
  <2>4. UNCHANGED <<phase, holder, tries>>
    BY <2>1, <2>3, QuietMaps DEF Phase
  <2>5. QED
    BY <2>1, <2>4, <1>q
<1>5. QED
  BY <1>1, <1>2, <1>3, <1>4, SurrealActs, NextLifecycle

\* What holds of every behaviour over SurrealDB before anything is said of time.
SurrealBase == TypeInv /\ KeyInv /\ AckInv /\ CountInv

\* Types, keys, acknowledgements and counts, step by step.
LEMMA SurrealBaseAlways == SurrealSpec => []SurrealBase
<1>1. SurrealInit => SurrealBase
  <2> SUFFICES ASSUME SurrealInit PROVE SurrealBase
    OBVIOUS
  <2>1. Init /\ KeyInv
    BY InitKeyInv DEF SurrealInit
  <2>2. AckInv
    BY <2>1 DEF Init, AckInv, DoneWasDelivered, NoRow
  <2>3. QED
    BY <2>1, <2>2, InitTypeInv, InitCountInv DEF SurrealBase
<1>2. SurrealBase /\ [SurrealNext]_surrealVars => SurrealBase'
  BY SurrealTypes, NextKeyInv, SurrealAckInv, SurrealCountInv DEF SurrealBase
<1>3. QED
  BY <1>1, <1>2, PTL DEF SurrealSpec

\* Over SurrealDB, too, Done means delivered and Dead means that max_attempts sends
\* failed, whatever happens between the query for candidates and the UPDATE of each.
THEOREM SurrealSettles == SurrealSpec => [](DoneWasDelivered /\ DeadWasTried)
<1>1. SurrealBase => DoneWasDelivered /\ DeadWasTried
  BY DEF SurrealBase, AckInv, CountInv
<1>2. QED
  BY <1>1, SurrealBaseAlways, PTL

\* With prompt ticks the batches that are put together statement by statement are
\* as exclusive as those taken under the memory store's lock.
LEMMA SurrealPromptAlways ==
    ASSUME Prompt
    PROVE  SurrealSpec /\ []ReplaysApart => []PromptInv
<1>1. SurrealInit => PromptInv
  BY InitPromptInv DEF SurrealInit
<1>2. SurrealBase /\ PromptInv /\ ReplaysApart /\ ReplaysApart' /\ [SurrealNext]_surrealVars
      => PromptInv'
  BY SurrealPromptInv DEF SurrealBase
<1>3. QED
  BY <1>1, <1>2, SurrealBaseAlways, PTL DEF SurrealSpec

\* Two dispatchers over SurrealDB that read the same candidates never have the same
\* message in hand, as long as ticks end before their leases: the condition in the
\* UPDATE decides, and a lease runs from the start of the tick.
THEOREM SurrealLeaseExcludes ==
    ASSUME Prompt
    PROVE  SurrealSpec /\ []ReplaysApart => [](ExclusiveLease /\ LetterMeansDead)
<1>1. SurrealBase /\ PromptInv => ExclusiveLease /\ LetterMeansDead
  BY PromptSafe DEF SurrealBase
<1>2. QED
  BY <1>1, SurrealPromptAlways, SurrealBaseAlways, PTL

\* The statements of SurrealTxStore, the query for candidates and one UPDATE for
\* each included, implement the queue of OutboxLifecycle.
THEOREM SurrealKeepsThePromise ==
    ASSUME Prompt
    PROVE  SurrealSpec /\ []ReplaysApart => ImplementsLifecycle
<1>1. SurrealInit => Lifecycle!Init
  BY InitLifecycle DEF SurrealInit
<1>2. SurrealBase /\ PromptInv /\ PromptInv' /\ [SurrealNext]_surrealVars
      => [Lifecycle!Next]_Lifecycle!vars
  BY SurrealLifecycle DEF SurrealBase
<1>3. QED
  BY <1>1, <1>2, SurrealBaseAlways, SurrealPromptAlways, PTL
  DEF SurrealSpec, ImplementsLifecycle, Lifecycle!Spec

=============================================================================
