------------------------------- MODULE Outbox -------------------------------
(***************************************************************************)
(* The transactional outbox of sb-tx: the outbox table, the dispatcher     *)
(* workers that lease, send and settle its messages, the dead-letter store *)
(* and the replay and retention calls that act on it.                      *)
(*                                                                         *)
(* Every store call is one critical section of the code (a write lock of   *)
(* the memory store, a single statement of the database), so it is one     *)
(* action; between two calls of a tick every other actor may step.         *)
(*                                                                         *)
(* Time is relative: a message carries the time left until its not_before  *)
(* and until its lease_until, a worker the time since its tick began, a    *)
(* letter its age.  Tick lets one unit pass.                               *)
(*                                                                         *)
(* A definition commented as a slip is not part of the specification: it   *)
(* is a plausible error in the definition after it, which one of the       *)
(* properties below must tell from the code.                               *)
(***************************************************************************)
EXTENDS Naturals, FiniteSets

CONSTANTS
    Messages,      \* ids of the messages producers may enqueue (one tenant)
    Workers,       \* worker ids, one dispatcher each
    Replays,       \* calls of DeadStore::replay, each made at most once
    Key,           \* dispatch_key of each message
    NoKey,         \* the key of a message enqueued without one
    NoMessage,
    NoWorker,
    GroupByKey,    \* group_by_dispatch_key
    MaxAttempts,   \* max_attempts
    Lease,         \* lease_ms
    Batch,         \* batch
    MinDelay,      \* base_ms of the retry policy
    MaxDelay,      \* cap_ms of the retry policy
    Retention,     \* dead-letter retention_ms, 0 for "keep for ever"
    Prompt,        \* environment: a tick ends before the leases it took
    Heartbeats,    \* environment: somebody renews the leases of a tick
    MaxAborts      \* bound: ticks that die before their end

ASSUME SetsAssumption ==
    /\ NoMessage \notin Messages
    /\ NoWorker \notin Workers
    /\ IsFiniteSet(Workers)

ASSUME ParametersAssumption ==
    /\ {GroupByKey, Prompt, Heartbeats} \subseteq BOOLEAN
    /\ {Lease, MaxAttempts} \subseteq Nat \ {0}
    /\ {Batch, MinDelay, MaxDelay, Retention, MaxAborts} \subseteq Nat
    /\ MinDelay <= MaxDelay

VARIABLES
    outbox,     \* the message table; status "Absent" is a row not there yet
    letters,    \* the ids the dead-letter store has an entry for
    letterAge,  \* time since a letter's occurred_at
    pc,         \* where each worker is in Dispatcher::tick
    todo,       \* what its batch still holds, the message in hand excluded
    cur,        \* the message in hand
    snap,       \* attempts of the rows as lease_batch returned them
    age,        \* time since the tick's now_ms
    replay,     \* where each replay call is, and its message
    delivered,  \* messages their receiver got at least once
    fails,      \* sends of each message that returned an error
    aborts

store == <<outbox, letters, letterAge>>
worker == <<pc, todo, cur, snap, age>>
network == <<delivered, fails>>
vars == <<store, worker, replay, network, aborts>>

Open == {"Pending", "Leased"}
Terminal == {"Done", "Dead"}     \* OutboxStatus::is_terminal
Status == {"Absent"} \cup Open \cup Terminal

MaxOf(i, j) == IF i >= j THEN i ELSE j
Left(n) == IF n = 0 THEN 0 ELSE n - 1
AgeCap == MaxOf(Lease, MaxDelay)   \* an age beyond it makes no difference

Row == [status : Status, attempts : Nat, notBefore : Nat, lease : Nat,
        worker : Workers \cup {NoWorker}]
NoRow == [status |-> "Absent", attempts |-> 0, notBefore |-> 0, lease |-> 0,
          worker |-> NoWorker]
NoSnap == [m \in Messages |-> 0]

TypeOK ==
    /\ outbox \in [Messages -> Row]
    /\ letters \subseteq Messages
    /\ letterAge \in [Messages -> Nat]
    /\ pc \in [Workers -> {"idle", "working", "sending", "acking", "failing",
                           "pushing"}]
    /\ todo \in [Workers -> SUBSET Messages]
    /\ cur \in [Workers -> Messages \cup {NoMessage}]
    /\ snap \in [Workers -> [Messages -> Nat]]
    /\ age \in [Workers -> Nat]
    /\ replay \in [Replays -> [pc : {"ready", "read", "revived", "over"},
                               ref : Messages \cup {NoMessage}]]
    /\ delivered \subseteq Messages
    /\ fails \in [Messages -> Nat]
    /\ aborts \in 0..MaxAborts

Init ==
    /\ outbox = [m \in Messages |-> NoRow]
    /\ letters = {}
    /\ letterAge = [m \in Messages |-> 0]
    /\ pc = [w \in Workers |-> "idle"]
    /\ todo = [w \in Workers |-> {}]
    /\ cur = [w \in Workers |-> NoMessage]
    /\ snap = [w \in Workers |-> NoSnap]
    /\ age = [w \in Workers |-> 0]
    /\ replay = [r \in Replays |-> [pc |-> "ready", ref |-> NoMessage]]
    /\ delivered = {}
    /\ fails = [m \in Messages |-> 0]
    /\ aborts = 0

-----------------------------------------------------------------------------
(* Producers.                                                              *)

\* Row m as every call but lease_batch and heartbeat leaves it: without a lease.
SetRow(m, status, attempts, notBefore) ==
    outbox' = [outbox EXCEPT ![m] =
                 [status |-> status, attempts |-> attempts,
                  notBefore |-> notBefore, lease |-> 0, worker |-> NoWorker]]

\* A producer stores a new message, due at once or after a delay; an id that
\* exists is refused with a conflict and changes nothing.
Enqueue(m) ==
    /\ outbox[m].status = "Absent"
    /\ \E wait \in {0, MaxDelay} : SetRow(m, "Pending", 0, wait)
    /\ UNCHANGED <<letters, letterAge, worker, replay, network, aborts>>

-----------------------------------------------------------------------------
(* A dispatcher's tick.                                                    *)

\* Slip: leases of other workers are not looked at.
EligibleThoughLeased(w) ==
    {m \in Messages : outbox[m].status \in Open /\ outbox[m].notBefore = 0}

\* The rows select_messages does not skip for worker w.
Eligible(w) ==
    {m \in Messages : /\ outbox[m].status \in Open
                      /\ outbox[m].lease > 0 => outbox[m].worker = w
                      /\ outbox[m].notBefore = 0}

SameKey(m, n) == GroupByKey /\ Key[m] # NoKey /\ Key[m] = Key[n]

\* Slip: the batch is full before its first message when batch is 0.
SelectionsStrict(w) ==
    {S \in SUBSET Eligible(w) :
        /\ Cardinality(S) <= Batch
        /\ \A m, n \in S : SameKey(m, n) => m = n}

\* What one pass over the table, in any order, may select: no key twice, and
\* the pass only stops early at a full batch, which is at least one message.
Selections(w) ==
    {S \in SUBSET Eligible(w) :
        /\ Cardinality(S) <= MaxOf(1, Batch)
        /\ \A m, n \in S : SameKey(m, n) => m = n
        /\ Cardinality(S) < MaxOf(1, Batch) =>
              \A m \in Eligible(w) \ S : \E n \in S : SameKey(m, n)}

\* A row under a fresh lease of worker w.
Leased(row, status, w) ==
    [status |-> status, attempts |-> row.attempts,
     notBefore |-> row.notBefore, lease |-> Lease, worker |-> w]

\* lease_batch: the selected rows become this worker's until the lease ends.
\* A tick that selects nothing changes nothing.
LeaseBatch(w) ==
    /\ pc[w] = "idle"
    /\ \E S \in Selections(w) \ {{}} :
          /\ outbox' = [m \in Messages |->
                          IF m \in S THEN Leased(outbox[m], "Leased", w)
                          ELSE outbox[m]]
          /\ todo' = [todo EXCEPT ![w] = S]
          /\ snap' = [snap EXCEPT ![w] = [m \in Messages |->
                          IF m \in S THEN outbox[m].attempts ELSE 0]]
    /\ pc' = [pc EXCEPT ![w] = "working"]
    /\ UNCHANGED <<letters, letterAge, cur, age, replay, network, aborts>>

\* The next message of the batch passes the budget guard and is handed to the
\* transport.
StartSend(w, m) ==
    /\ pc[w] = "working"
    /\ m \in todo[w]
    /\ pc' = [pc EXCEPT ![w] = "sending"]
    /\ cur' = [cur EXCEPT ![w] = m]
    /\ todo' = [todo EXCEPT ![w] = @ \ {m}]
    /\ UNCHANGED <<store, snap, age, replay, network, aborts>>

SendOk(w) ==
    /\ pc[w] = "sending"
    /\ pc' = [pc EXCEPT ![w] = "acking"]
    /\ delivered' = delivered \cup {cur[w]}
    /\ UNCHANGED <<store, todo, cur, snap, age, replay, fails, aborts>>

\* Slip: the result of the send is not looked at.
SendErrIgnored(w) ==
    /\ pc[w] = "sending"
    /\ pc' = [pc EXCEPT ![w] = "acking"]
    /\ delivered' \in {delivered, delivered \cup {cur[w]}}
    /\ UNCHANGED <<store, todo, cur, snap, age, replay, fails, aborts>>

\* An error says nothing about the receiver: a timeout may follow a delivery.
SendErr(w) ==
    /\ pc[w] = "sending"
    /\ pc' = [pc EXCEPT ![w] = "failing"]
    /\ delivered' \in {delivered, delivered \cup {cur[w]}}
    /\ fails' = [fails EXCEPT ![cur[w]] = @ + 1]
    /\ UNCHANGED <<store, todo, cur, snap, age, replay, aborts>>

\* The worker is through with the message in hand and goes on with its batch;
\* with the last one the tick ends.
Proceed(w) ==
    LET last == todo[w] = {} IN
    /\ pc' = [pc EXCEPT ![w] = IF last THEN "idle" ELSE "working"]
    /\ cur' = [cur EXCEPT ![w] = NoMessage]
    /\ snap' = [snap EXCEPT ![w] = IF last THEN NoSnap ELSE @]
    /\ age' = [age EXCEPT ![w] = IF last THEN 0 ELSE @]
    /\ UNCHANGED todo

\* ack_done: neither the row's status nor its worker is looked at.
AckDone(w) ==
    /\ pc[w] = "acking"
    /\ SetRow(cur[w], "Done", outbox[cur[w]].attempts, outbox[cur[w]].notBefore)
    /\ Proceed(w)
    /\ UNCHANGED <<letters, letterAge, replay, network, aborts>>

Exhausted(w) == snap[w][cur[w]] + 1 >= MaxAttempts

\* nack_backoff, again without a look at the row: the delay runs from the
\* tick's own now_ms, so part of it may be over already.
NackBackoff(w) ==
    /\ pc[w] = "failing"
    /\ ~Exhausted(w)
    /\ \E delay \in MinDelay..MaxDelay :
          SetRow(cur[w], "Pending", outbox[cur[w]].attempts + 1,
                 IF delay > age[w] THEN delay - age[w] ELSE 0)
    /\ Proceed(w)
    /\ UNCHANGED <<letters, letterAge, replay, network, aborts>>

\* Slip: the letter is dropped, the tick goes on.
DeadLetterDropped(w) ==
    /\ pc[w] = "failing"
    /\ Exhausted(w)
    /\ SetRow(cur[w], "Dead", outbox[cur[w]].attempts + 1,
              outbox[cur[w]].notBefore)
    /\ Proceed(w)
    /\ UNCHANGED <<letters, letterAge, replay, network, aborts>>

\* dead_letter: the row is marked and the letter returned to the worker ...
DeadLetter(w) ==
    /\ pc[w] = "failing"
    /\ Exhausted(w)
    /\ SetRow(cur[w], "Dead", outbox[cur[w]].attempts + 1,
              outbox[cur[w]].notBefore)
    /\ pc' = [pc EXCEPT ![w] = "pushing"]
    /\ UNCHANGED <<letters, letterAge, todo, cur, snap, age, replay, network,
                   aborts>>

\* ... which pushes it to the dead-letter store, over an older entry if any.
PushLetter(w) ==
    /\ pc[w] = "pushing"
    /\ letters' = letters \cup {cur[w]}
    /\ letterAge' = [letterAge EXCEPT ![cur[w]] = 0]
    /\ Proceed(w)
    /\ UNCHANGED <<outbox, replay, network, aborts>>

\* A worker forgets its batch; what the batch still holds stays leased.
Forgets(w) ==
    /\ pc' = [pc EXCEPT ![w] = "idle"]
    /\ todo' = [todo EXCEPT ![w] = {}]
    /\ cur' = [cur EXCEPT ![w] = NoMessage]
    /\ snap' = [snap EXCEPT ![w] = NoSnap]
    /\ age' = [age EXCEPT ![w] = 0]

\* A tick that ends early: the budget guard, a hook or a store call returns an
\* error the "?" hands on, or the worker's task dies and is started again.
\* A send under way may arrive.
TickAborts(w) ==
    /\ pc[w] # "idle"
    /\ aborts < MaxAborts
    /\ aborts' = aborts + 1
    /\ delivered' \in {delivered} \cup
          (IF pc[w] = "sending" THEN {delivered \cup {cur[w]}} ELSE {})
    /\ Forgets(w)
    /\ UNCHANGED <<store, replay, fails>>

\* The messages a worker will still settle as their lease holder.
InHand(w) ==
    todo[w] \cup (IF pc[w] \in {"sending", "acking", "failing"}
                  THEN {cur[w]} ELSE {})

\* heartbeat: extends the lease of a row that still names the worker, and
\* leaves its status as it is.
Heartbeat(w, m) ==
    /\ Heartbeats
    /\ m \in InHand(w)
    /\ outbox[m].worker = w
    /\ outbox' = [outbox EXCEPT ![m] = Leased(@, @.status, w)]
    /\ UNCHANGED <<letters, letterAge, worker, replay, network, aborts>>

-----------------------------------------------------------------------------
(* Operators: replay of a dead letter, and retention.                      *)

\* replay reads the letter under one lock, ...
ReplayRead(r, m) ==
    /\ replay[r].pc = "ready"
    /\ m \in letters
    /\ replay' = [replay EXCEPT ![r] = [pc |-> "read", ref |-> m]]
    /\ UNCHANGED <<store, worker, network, aborts>>

\* Slip: the attempts of the first life stay.
ReplayReviveCounted(r) ==
    /\ replay[r].pc = "read"
    /\ SetRow(replay[r].ref, "Pending", outbox[replay[r].ref].attempts, 0)
    /\ replay' = [replay EXCEPT ![r].pc = "revived"]
    /\ UNCHANGED <<letters, letterAge, worker, network, aborts>>

\* ... revives the row under another, whatever its status, ...
ReplayRevive(r) ==
    /\ replay[r].pc = "read"
    /\ SetRow(replay[r].ref, "Pending", 0, 0)
    /\ replay' = [replay EXCEPT ![r].pc = "revived"]
    /\ UNCHANGED <<letters, letterAge, worker, network, aborts>>

\* Slip: the entry stays in the dead-letter store.
ReplayRemoveNothing(r) ==
    /\ replay[r].pc = "revived"
    /\ replay' = [replay EXCEPT ![r].pc = "over"]
    /\ UNCHANGED <<store, worker, network, aborts>>

\* ... and removes the entry under a third, whichever letter it now is.
ReplayRemove(r) ==
    /\ replay[r].pc = "revived"
    /\ letters' = letters \ {replay[r].ref}
    /\ letterAge' = [letterAge EXCEPT ![replay[r].ref] = 0]
    /\ replay' = [replay EXCEPT ![r].pc = "over"]
    /\ UNCHANGED <<outbox, worker, network, aborts>>

Expired == {m \in letters : letterAge[m] > Retention}

\* purge_older_than, from the maintenance task; retention 0 parks the task.
Purge ==
    /\ Retention > 0
    /\ Expired # {}
    /\ letters' = letters \ Expired
    /\ letterAge' = [m \in Messages |-> IF m \in Expired THEN 0
                                        ELSE letterAge[m]]
    /\ UNCHANGED <<outbox, worker, replay, network, aborts>>

-----------------------------------------------------------------------------
(* Time.                                                                   *)

Later(row) ==
    [status |-> row.status, attempts |-> row.attempts,
     notBefore |-> Left(row.notBefore), lease |-> Left(row.lease),
     worker |-> row.worker]

Tick ==
    /\ Prompt => \A w \in Workers : pc[w] # "idle" => age[w] + 1 < Lease
    /\ outbox' = [m \in Messages |-> Later(outbox[m])]
    /\ age' = [w \in Workers |->
                 IF pc[w] # "idle" /\ age[w] < AgeCap THEN age[w] + 1 ELSE age[w]]
    /\ letterAge' = [m \in Messages |->
                       IF m \in letters /\ letterAge[m] <= Retention /\ Retention > 0
                       THEN letterAge[m] + 1 ELSE letterAge[m]]
    /\ UNCHANGED <<letters, pc, todo, cur, snap, replay, network, aborts>>

WorkerStep(w) ==
    \/ \E m \in Messages : StartSend(w, m)
    \/ SendOk(w)
    \/ SendErr(w)
    \/ AckDone(w)
    \/ NackBackoff(w)
    \/ DeadLetter(w)
    \/ PushLetter(w)

ReplayStep(r) ==
    \/ \E m \in Messages : ReplayRead(r, m)
    \/ ReplayRevive(r)
    \/ ReplayRemove(r)

Next ==
    \/ \E m \in Messages : Enqueue(m)
    \/ \E w \in Workers : LeaseBatch(w) \/ WorkerStep(w) \/ TickAborts(w)
    \/ \E w \in Workers, m \in Messages : Heartbeat(w, m)
    \/ \E r \in Replays : ReplayStep(r)
    \/ Purge
    \/ Tick

Spec == Init /\ [][Next]_vars

\* The interval timer keeps calling tick, a tick's future is polled until it
\* ends (sends are bounded by the transport's own timeout), and time passes.
\* Producers, operators, retention and aborts owe nothing.
Fairness ==
    /\ \A w \in Workers : WF_vars(LeaseBatch(w)) /\ WF_vars(WorkerStep(w))
    /\ WF_vars(Tick)

FairSpec == Spec /\ Fairness

-----------------------------------------------------------------------------
(* Correctness.                                                            *)

\* At-least-once: a message only ends as Done after its receiver got it, even
\* with stale workers, aborted ticks and replays in between.
DoneWasDelivered ==
    \A m \in Messages : outbox[m].status = "Done" => m \in delivered

\* A message is only given up after max_attempts sends of it have failed,
\* whichever workers made them.
DeadWasTried ==
    \A m \in Messages : outbox[m].status = "Dead" => fails[m] >= MaxAttempts

\* Whatever ticks overlap, outlive their leases or end in the middle: Done means
\* delivered and Dead means given up for cause (outbox.rs:136, :151).
OutboxInv == TypeOK /\ DoneWasDelivered /\ DeadWasTried

\* A lease excludes: what a worker has in hand is leased to it, the lease runs,
\* and so no other worker has the same message in hand.
ExclusiveLease ==
    \A w \in Workers : \A m \in InHand(w) :
        /\ outbox[m].status = "Leased"
        /\ outbox[m].worker = w
        /\ outbox[m].lease > 0

\* A message that was given up has a letter, or a worker is about to push it;
\* only a tick that aborts, or a replay of an earlier letter, can lose it.
DeadHasLetter ==
    \A m \in Messages : outbox[m].status = "Dead" =>
        \/ m \in letters
        \/ \E w \in Workers : pc[w] = "pushing" /\ cur[w] = m
        \/ aborts > 0
        \/ \E r \in Replays : replay[r].ref = m

\* The same of replays: what was given up again keeps its letter, although the call
\* that brought it back removes the letter of its reference last (dead_store.rs:80-103).
ReplayKeepsLetters ==
    \A m \in Messages : outbox[m].status = "Dead" =>
        \/ m \in letters
        \/ \E w \in Workers : pc[w] = "pushing" /\ cur[w] = m
        \/ aborts > 0

\* A letter stands for a message that is dead, or that a replay call brought
\* back without having removed the letter so far.
LetterMeansDead ==
    \A m \in letters :
        \/ outbox[m].status = "Dead"
        \/ \E r \in Replays : replay[r] = [pc |-> "revived", ref |-> m]

\* Every message that was stored ends as Done or Dead and stays there.
AllSettle ==
    \A m \in Messages :
        outbox[m].status # "Absent" ~> [](outbox[m].status \in Terminal)

-----------------------------------------------------------------------------
(* The promise: with ticks that end before their leases, the outbox is an  *)
(* exclusive at-least-once queue.                                          *)

Phase(m) == IF outbox[m].status \in Open THEN "Open" ELSE outbox[m].status

Holder(m) == IF \E w \in Workers : m \in InHand(w)
             THEN CHOOSE w \in Workers : m \in InHand(w) ELSE NoWorker

Lifecycle == INSTANCE OutboxLifecycle
    WITH phase <- [m \in Messages |-> Phase(m)],
         holder <- [m \in Messages |-> Holder(m)],
         tries <- [m \in Messages |-> outbox[m].attempts],
         Nobody <- NoWorker

\* The lease, the settling calls, aborted ticks and a replay call together keep
\* every promise of OutboxLifecycle.
ImplementsLifecycle == Lifecycle!Spec

=============================================================================
