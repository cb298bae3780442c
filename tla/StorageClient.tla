--------------------------- MODULE StorageClient ---------------------------
(***************************************************************************)
(* The datastores of sb-storage, their transactions and their migrators.   *)
(* A SurrealDatastore has one client, shared by every session, and BEGIN,  *)
(* COMMIT and CANCEL are statements like any others: what anybody sends    *)
(* while a transaction is open takes part in it.  The in-memory datastore  *)
(* keeps its tables behind locks and its transactions do nothing.  Which   *)
(* of the two is used is chosen when a behaviour starts.                   *)
(***************************************************************************)
EXTENDS StorageFilter, FiniteSets, SequencesExt

CONSTANTS
    Clients,
    Ids,            \* records of one table and one tenant, in the order of their ids
    Scripts,        \* migration scripts, a sequence in the order of their versions
    Broken,         \* those whose SQL the server refuses to parse
    Failing,        \* those one of whose statements fails when it is run
    Backends,       \* what a behaviour may use: "surreal", "memory"
    Casts,          \* what the clients may be: functions from Clients to roles
    MaxCalls,       \* calls of a client
    MaxMarks,       \* statements of a transaction
    Tables,         \* the records a behaviour may start with
    None

ASSUME ClientAssumption ==
    /\ Ids \subseteq Nat \ {0}
    /\ Scripts \in Seq(Range(Scripts)) /\ Broken \cup Failing \subseteq Range(Scripts)
    /\ Backends \subseteq {"surreal", "memory"}
    /\ MaxCalls \in Nat /\ MaxMarks \in Nat

VARIABLES
    backend, cast,
    db,         \* what is committed
    work,       \* the transaction open on the client, if any
    cut,        \* whether the connection has been lost: "no", "own", "foreign"
    undone,     \* transactions rolled back, as <<client, calls left>>
    at,         \* where each client is in its call, and what it holds
    left,       \* calls each client may still make
    stay        \* records a client's scan cannot have missed

client == <<backend, cast, db, work, cut>>
vars == <<client, undone, at, left, stay>>

Surreal == backend = "surreal"
Memory == backend = "memory"

Idle == [pc |-> "idle"]

\* Outside transactions every statement is one of its own.
NoTx == [doomed |-> FALSE]

Fresh(rows) == [rows |-> rows, edges |-> {}, vectors |-> {},
                schema |-> {}, versions |-> <<>>, marks |-> {},
                acks |-> [i \in Ids |-> 0], gone |-> {}]

ClientInit ==
    /\ backend \in Backends
    /\ cast \in Casts
    /\ \E rows \in Tables : db = Fresh(rows)
    /\ work = NoTx
    /\ cut = "no"
    /\ undone = {}
    /\ at = [c \in Clients |-> Idle]
    /\ left = [c \in Clients |-> MaxCalls]
    /\ stay = [c \in Clients |-> {}]

-----------------------------------------------------------------------------
(* Statements of the shared client.                                         *)

\* What the next statement sees.
Seen == IF work = NoTx THEN db ELSE work.data

\* A transaction in which a statement has failed runs no more of them.
Doomed == work # NoTx /\ work.doomed

\* Records that a scan still cannot miss when the tables become d.
Staying(d) ==
    [c \in Clients |-> {i \in stay[c] : d.rows[i] # None /\ Meaning(at[c].filter, d.rows[i])}]

\* run_raw: the statement turns what it sees into d.
Puts(d) ==
    IF Doomed THEN UNCHANGED <<client, stay>>
    ELSE /\ IF work = NoTx THEN db' = d /\ UNCHANGED work
            ELSE work' = [work EXCEPT !.data = d] /\ UNCHANGED db
         /\ stay' = Staying(d)
         /\ UNCHANGED <<backend, cast, cut>>

\* run_raw: the statement fails, which only its response tells.
Fails ==
    /\ work' = IF work = NoTx THEN NoTx ELSE [work EXCEPT !.doomed = TRUE]
    /\ UNCHANGED <<backend, cast, db, cut, stay>>

Opens ==
    /\ work' = IF work = NoTx THEN [data |-> db, doomed |-> FALSE] ELSE work
    /\ UNCHANGED <<backend, cast, db, cut, stay>>

\* The transaction ends, and d is what is committed then.
Closes(d) ==
    /\ db' = d
    /\ work' = NoTx
    /\ stay' = Staying(d)
    /\ UNCHANGED <<backend, cast, cut>>

Commits == Closes(IF Doomed \/ work = NoTx THEN db ELSE work.data)

Cancels == Closes(db)

\* Client c goes to state s, its call being over when that is Idle.
Goes(c, s) ==
    /\ at' = [at EXCEPT ![c] = s]
    /\ left' = [left EXCEPT ![c] = IF s = Idle THEN @ - 1 ELSE @]

InTx(c) == at[c].pc \in {"script", "record", "commit", "tx"}

\* Assumption on the callers: transactions do not overlap.  Other statements
\* may be sent while one is under way.
MayOpen(c) == at[c] = Idle /\ left[c] > 0 /\ \A o \in Clients : ~InTx(o)

-----------------------------------------------------------------------------
(* Explicit transactions: Session::begin, Tx::execute, commit, rollback.    *)

MarksOf(c, n, d) == {i \in 1..MaxMarks : <<c, n, i>> \in d.marks}

TxBegin(c) ==
    /\ cast[c] = "tx"
    /\ MayOpen(c)
    /\ IF Surreal THEN Opens ELSE UNCHANGED <<client, stay>>
    /\ Goes(c, [pc |-> "tx", done |-> 0])

\* The n-th statement leaves its mark; a failure would show in the response,
\* which execute does not look at.  In memory, execute is not implemented.
TxExecute(c) ==
    /\ at[c].pc = "tx"
    /\ at[c].done < MaxMarks
    /\ IF Surreal
       THEN /\ Puts([Seen EXCEPT !.marks = @ \cup {<<c, left[c], at[c].done + 1>>}])
            /\ Goes(c, [at[c] EXCEPT !.done = @ + 1])
       ELSE /\ UNCHANGED <<client, stay>>
            /\ Goes(c, Idle)

TxCommit(c) ==
    /\ at[c].pc = "tx"
    /\ IF Surreal THEN Commits ELSE UNCHANGED <<client, stay>>
    /\ Goes(c, Idle)

TxRollback(c) ==
    /\ at[c].pc = "tx"
    /\ IF Surreal THEN Cancels ELSE UNCHANGED <<client, stay>>
    /\ undone' = undone \cup {<<c, left[c]>>}
    /\ Goes(c, Idle)

-----------------------------------------------------------------------------
(* Migrations.                                                              *)

\* Some of the scripts, in the order of their versions.
InOrder(chosen) ==
    {q \in SetToSeqs(chosen) :
        \A a, b \in DOMAIN q : a < b =>
            \E i, j \in DOMAIN Scripts : i < j /\ Scripts[i] = q[a] /\ Scripts[j] = q[b]}

Pending(d) == InOrder(Range(Scripts) \ Range(d.versions))

\* The lists a caller may ask for: what applied_versions does not name, every
\* script again, or one, upwards; the last one applied, downwards.
Lists(dir) ==
    IF dir = "up" THEN Pending(Seen) \cup {Scripts} \cup {<<s>> : s \in Range(Scripts)}
    ELSE {IF Seen.versions = <<>> THEN <<>> ELSE <<Last(Seen.versions)>>}

\* Slip: no BEGIN.
MigrateBare(c) ==
    /\ cast[c] = "migrator"
    /\ Surreal
    /\ MayOpen(c)
    /\ UNCHANGED <<client, stay>>
    /\ \E dir \in {"up", "down"} : \E list \in Lists(dir) :
          Goes(c, IF list = <<>> THEN Idle ELSE [pc |-> "script", dir |-> dir, todo |-> list])

\* ensure_table, then BEGIN unless there is nothing to do.
Migrate(c) ==
    /\ cast[c] = "migrator"
    /\ Surreal
    /\ MayOpen(c)
    /\ \E dir \in {"up", "down"} : \E list \in Lists(dir) :
          IF list = <<>> THEN UNCHANGED <<client, stay>> /\ Goes(c, Idle)
          ELSE Opens /\ Goes(c, [pc |-> "script", dir |-> dir, todo |-> list])

\* The script's SQL is run; that one of its statements fails is not noticed.
RunScript(c) ==
    /\ at[c].pc = "script"
    /\ LET s == Head(at[c].todo) IN
          /\ s \notin Broken
          /\ IF s \in Failing THEN Fails
             ELSE Puts([Seen EXCEPT !.schema = IF at[c].dir = "up" THEN @ \cup {s} ELSE @ \ {s}])
    /\ Goes(c, [at[c] EXCEPT !.pc = "record"])

\* Slip: the error is returned at once.
RunBrokenReturns(c) ==
    /\ at[c].pc = "script"
    /\ Head(at[c].todo) \in Broken
    /\ UNCHANGED <<client, stay>>
    /\ Goes(c, Idle)

\* SQL that cannot be parsed is an error of run_raw: CANCEL, and return it.
RunBroken(c) ==
    /\ at[c].pc = "script"
    /\ Head(at[c].todo) \in Broken
    /\ Cancels
    /\ Goes(c, Idle)

\* The version table is written in the same transaction.  A version that is in
\* it already breaks its unique index, and is deleted as the only one.
Record(c) ==
    /\ at[c].pc = "record"
    /\ LET s == Head(at[c].todo) IN
          IF at[c].dir = "up" /\ s \in Range(Seen.versions) THEN Fails
          ELSE Puts([Seen EXCEPT !.versions =
                       IF at[c].dir = "up" THEN Append(@, s) ELSE RemoveFirst(@, s)])
    /\ Goes(c, IF Len(at[c].todo) = 1 THEN [pc |-> "commit"]
               ELSE [at[c] EXCEPT !.pc = "script", !.todo = Tail(@)])

MigrateCommit(c) ==
    /\ at[c].pc = "commit"
    /\ Commits
    /\ Goes(c, Idle)

\* The in-memory migrator keeps the versions and runs no SQL.  Upwards it adds
\* those of the list that it has not got.
MigrateMemory(c) ==
    /\ cast[c] = "migrator"
    /\ Memory
    /\ at[c] = Idle /\ left[c] > 0
    /\ \/ \E list \in Lists("up") : \E new \in InOrder(Range(list) \ Range(db.versions)) :
             db' = [db EXCEPT !.versions = @ \o new]
       \/ \E list \in Lists("down") :
             db' = [db EXCEPT !.versions = IF list = <<>> THEN @ ELSE RemoveFirst(@, Head(list))]
    /\ UNCHANGED <<backend, cast, work, cut, stay>>
    /\ Goes(c, Idle)

-----------------------------------------------------------------------------
(* The connection is lost while client c waits for a statement, once.  The  *)
(* server drops the open transaction, and c's call ends with the error: of  *)
(* apply_up and apply_down, and of the whole use of a Tx.  A COMMIT may     *)
(* have been carried out.                                                   *)

Lose(c) ==
    /\ Surreal
    /\ cut = "no"
    /\ at[c] # Idle
    /\ \E d \in {db} \cup IF at[c].pc \in {"commit", "tx"} /\ work # NoTx /\ ~Doomed
                          THEN {work.data} ELSE {} :
          db' = d /\ stay' = [Staying(d) EXCEPT ![c] = {}]
    /\ work' = NoTx
    /\ cut' = IF work # NoTx /\ ~InTx(c) THEN "foreign" ELSE "own"
    /\ Goes(c, Idle)
    /\ UNCHANGED <<backend, cast>>

ClientStep(c) ==
    \/ TxRollback(c)
    \/ /\ \/ TxBegin(c) \/ TxExecute(c) \/ TxCommit(c)
          \/ Migrate(c) \/ RunScript(c) \/ RunBroken(c) \/ Record(c) \/ MigrateCommit(c)
          \/ MigrateMemory(c)
          \/ Lose(c)
       /\ UNCHANGED undone

-----------------------------------------------------------------------------
(* Correctness.                                                             *)

\* A transaction takes force as a whole or not at all, unless somebody else's
\* statement met the loss of the connection in the middle of it: what is recorded
\* as migrated is what was migrated, each version once (apply_up, apply_down);
\* of an explicit transaction no statement is there without the earlier ones, and
\* none that was rolled back.
TransactionsAreWhole ==
    cut # "foreign" =>
        /\ Cardinality(Range(db.versions)) = Len(db.versions)
        /\ Surreal => Range(db.versions) = db.schema
        /\ \A c \in Clients, n \in 0..MaxCalls :
              LET marks == MarksOf(c, n, db) IN
              /\ marks = 1..Cardinality(marks)
              /\ <<c, n>> \in undone => marks = {}

\* A transaction is open on the shared client only while somebody is in the course
\* of one: whatever ended before was committed or cancelled, so no other session's
\* statements are held back in it for good.
OpenIsOwned == work # NoTx => \E c \in Clients : InTx(c)
=============================================================================
