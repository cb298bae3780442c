# Verification of soulbase

TLA+ models of the soulbase crates (`src/crates/*`), the TLC configurations that check them
on small instances, and theorems about them that TLAPS has proved for every instance.

The definitions are translated from the Rust source. `PROJECT.json` maps each of them to
the lines it stands for. The documents under `src/docs` are cited only where the code
disagrees with them.

Run `tlc -config X.cfg M` for a run of the table below and `tlapm M.tla` for a proof module.

## 1. The system

soulbase is a workspace of libraries for services that let language models act: a request
comes through an interceptor chain, is authorized, handled, may invoke tools in a sandbox,
and leaves messages in a transactional outbox that dispatchers deliver. Every crate has an
in-memory implementation of its stores; `sb-tx` and `sb-storage` also have one for SurrealDB.

| Component | State it keeps | Operations | Talks to | Status |
|---|---|---|---|---|
| `sb-tx` outbox and dispatcher | message rows (status, attempts, not_before, lease, worker), dead letters | enqueue, lease_batch, heartbeat, ack_done, nack_backoff, dead_letter, revive, Dispatcher::tick, DeadStore push/replay/purge, worker loops | transport (send), budget guard, clock | modelled |
| `sb-tx` SurrealDB outbox, budget guard | the same rows, in-flight count and window count per tenant | select_candidates, try_lease, every other statement on a row, on_dispatch_attempt, on_dispatch_result | the outbox | partly |
| `sb-tx` saga | the instance (state, cursor, state of each step) | start, tick (execute, compensate), save, replay of a saga letter | participants | modelled |
| `sb-tx` idempotency | one record per tenant and key (hash, status, digest, time) | check_and_put, finish, fail | clients | modelled |
| `sb-interceptors` chain | stored responses, permits of the semaphore | run_with_handler: request stages, permit, retries and timeout, response stages, store, write | `sb-auth`, handler, client | modelled |
| `sb-auth` facade | decision cache, quota use | authorize: cache, PDP, consent, quota, cache | chain | partly |
| `sb-sandbox` manager | reservations, evidence | execute: grant, revocation, consent, guard, reserve, Begin, run, commit or rollback, End | tools, executors, revocation watcher | modelled |
| `sb-tools` invoker | results by key, Serial counts, events | invoke | sandbox | modelled |
| `sb-tools` registry, manifest, preflight | tools with state, policy, visibility, config fingerprint | register, update, set_state, update_policy, update_config_fingerprint, list; preflight | authorizer, configuration, sandbox | modelled |
| `sb-sandbox` profile, guard, executors | none; the file system | profile narrowed from grant, manifest and policy; guard; capability and consent checks; reading, writing, requests, temporary space | preflight, manager | partly |
| `sb-config` | current and last-known-good snapshot | load_with_prev over file, environment and command line; defaults; schema check; event; swap; rollback | every crate, as a reader | modelled |
| `sb-storage` in memory | rows, edges, vectors, migration versions | create, get, upsert, delete, select, search; relate, out, in; upsert_vec, remove_vec, knn; migrate | its users | modelled |
| `sb-storage` SurrealDB | one client that all sessions share | the same, a statement each; begin, execute, commit, rollback; apply_up, apply_down | its users | partly |
| `sb-llm`, `sb-errors`, `sb-types`, `sb-gateway` | provider registry; none; none; stub services | see section 8 | | not modelled |

What makes them hard:

- **Concurrency.** All of it is async Rust. A call gives way at every `await`, and the locks
  of the in-memory stores are released before the next one. So a tick, a replay, an
  authorization, an execution are sequences of atomic steps between which everybody else may
  act. Two dispatchers share a table, two requests a cache, two clients a key. The sessions of
  a SurrealDB datastore share even their transactions.
- **Failure.** A future can be dropped at any `await` (a client hangs up, a task is aborted).
  A send that returns an error may have been delivered. A crash in a saga's tick loses
  everything since its load.
- **Time.** Leases, delays, retention, cache entries, stored responses and idempotency records
  expire, and a late answer can meet what took its place.

What makes each of them correct (the properties below say it precisely): the outbox delivers
at least once, one worker at a time, and gives up only after all attempts; a saga is all or
nothing; a key lets one writer through per time to live; an authorization is recent and paid
for; a handler runs once per key and window and never above the limit; a sandbox's books and
evidence balance; a tool's answer from the store is a real one; a plan is one view of its tool
and nothing is executed that was not declared and consented to; a configuration is what its
sources say, defaults filling what they leave open; a transaction or migration takes force as a whole, no versioned update is lost, and
a scan misses nothing that stayed.
Some of these promises TLC refutes in some case; section 3 names them.

## 2. Modules

| Module | Models | Kind |
|---|---|---|
| `Outbox` | `sb-tx` outbox.rs, worker.rs, backoff.rs, memory/outbox_store.rs, memory/dead_store.rs | component |
| `OutboxLifecycle` | what the outbox promises its users | abstract specification |
| `BudgetGuard` | `sb-tx` qos.rs | component without Next |
| `OutboxSurreal` | surreal/store.rs: lease_batch statement by statement, every other call as its one statement; composes `Outbox` and `BudgetGuard` | composition |
| `Saga` | saga.rs and its store | component |
| `Idempotency` | memory/idempo_store.rs and check_and_put of surreal/store.rs | component |
| `Sandbox` | `sb-sandbox` manager.rs, budget.rs, evidence.rs | component without Next |
| `ToolInvoker` | `sb-tools` invoker.rs; composes `Sandbox` | composition |
| `AuthFacade` | `sb-auth` facade.rs, cache, quota | component without Next |
| `RequestChain` | `sb-interceptors` stages, idempotency.rs, resilience.rs; composes `AuthFacade` | composition |
| `ToolManifest` | `sb-tools` manifest.rs and mapping.rs: validation, capabilities, operations | pure definitions |
| `ToolRegistry` | registry.rs | component without Next |
| `SandboxProfile`, `SandboxExec` | `sb-sandbox` profile.rs, guard.rs, the checks of manager.rs; exec/ | pure definitions |
| `Preflight` | preflight.rs; composes `ToolRegistry` and the sandbox's definitions | composition |
| `ConfigMap` | `sb-config`: maps of paths, merge, insert, defaults, changed keys | pure definitions |
| `ConfigLoad` | loader.rs, source/, switch.rs | component |
| `StorageClient` | `sb-storage` datastore, transactions, migrators, both backends | component without Next |
| `Storage` | repository, graph, vector index and search over `StorageClient` | composition |
| `StorageFilter` | surreal/mapper.rs: filters into WHERE clauses, and the in-memory comparison | recursive functions |
| `OutboxProofs`, `SagaProofs`, `IdempotencyProofs`, `ToolProofs`, `ChainProofs`, `PreflightProofs`, `ConfigProofs`, `StorageProofs` | | theorems |
| `MC*` | constants, keys and symmetry of the instances | model checking |

Conventions. One action is what the code does between two points where others may run: one
locked section of a memory store, one statement of the database, one call of a participant or
executor. Time is relative and saturating: a row holds what is left of its lease, a cache
entry its age, and `Tick` lets one unit pass. Where a time is compared only with a bound,
ages stop one above it (`AgeCap`). A definition commented as a *slip* is not part of a
specification: it is a plausible error in the definition beside it, and `PROJECT.json`
("mutants") says which property tells the two apart.

### Outbox

`outbox[m]` is the row of message m; "Absent" is a row not enqueued so far. `pc`, `todo`,
`cur`, `snap`, `age` are the locals of each worker's `Dispatcher::tick`: where it is, the rest
of its batch, the message in hand, the attempts as lease_batch returned them, the time since
`now_ms` was taken. `LeaseBatch` takes any set that `select_messages` can return
(`Selections`): eligible rows, one per dispatch key if grouped, never more than a batch, but
one where batch is 0, since the code tests the length after the push. `SendOk` and `SendErr`
are the transport's answers; an error may or may not have delivered. `AckDone`,
`NackBackoff`, `DeadLetter`, `PushLetter` are the store calls. `NackBackoff` writes Pending
over whatever is there, as the code does. `TickAborts` ends a tick anywhere. `ReplayRead`,
`ReplayRevive`, `ReplayRemove` are the three sections of `DeadStore::replay`. `Prompt` is an
assumption on the environment: a tick ends before its leases do. Runs with it FALSE show what
is left without it.

`OutboxSurreal` replaces `LeaseBatch` by `Select` (one query for candidates) and one
conditional UPDATE per candidate (`TryLease`, `LoseCandidate`, `SkipCandidate`), and puts
`BudgetGuard` around each send. The other calls of `SurrealTxStore` are one statement each, and
what each makes of a row (`Acked`, `Nacked`, `GivenUp`, `Extended`, `Revived`) is written down
here from the statement's text and not taken from `Outbox`. `ImplementsLifecycle` is what both
must satisfy, and that each of these statements has the effect of the memory store's call is
proved (`SurrealActs`). `UpdateCreates` says what an UPDATE may make of a letter that does not exist:
file it or nothing. With both allowed everything but `DeadHasLetter` holds.

### Saga

`stored` is the instance in the store. `copy[d]` is what driver d's tick has loaded.
`effect` is what the participants have in force, which no code sees. A tick is `Load`, one
step or the loop of compensations, and `Save`; `Crash` ends it anywhere, and a call under way
may have taken force. The cursor counts steps as in the code. `Drivers` is how many callers
tick the same saga: nothing in the code keeps it at one. `FileLetter` is what an operator may
do; no code of the crate files a saga.

### Idempotency

One key. The memory store decides in one section (`CheckAndPut`). The SurrealDB store
fetches, deletes and creates in up to three (`Fetch`, `Sweep`, `Create`). A client writes
between check_and_put and finish or fail, may die there, and repeats while it is told "busy".
`held` is how long it has written and `rested` how long ago a write last ended.

### Sandbox and ToolInvoker

`at`, `op`, `outcome` are the locals of `Sandbox::execute` for a call's current operation.
`reserved` is the meter's open reservations; `began` and `ended` are the evidence events.
`Run` has the outcomes the code distinguishes: good, bad exit, executor error, and usage over
the profile's limits, where `ensure_usage_within_limits` returns by `?`. `Settle` and `End`
follow the branches of the code, including that this early return passes both. ToolInvoker
adds the key lookup, the Serial count with its guard, the loop over operations, the Ok or
Error End event, and the put of the result. A dropped invocation (`Abandon`) runs only the
guard's Drop.

### AuthFacade and RequestChain

`auth[r]` is where `authorize` is for request r, `decision[r]` what it has in hand with its
age (`born`), `cache` the entry of the shared decision key with its own age, `used` of `limit`
the quota. A hit returns at once; a miss asks PDP and consent (`Decide`), quota (`Consume`),
then saves (`SaveDecision`). RequestChain's `phase` is where `run_with_handler` is. The
request stages that share nothing are one step that may reject. `Acquire` takes the permit
that is released when the function is over, `HandlerRetry` is a transient error with a retry
left, `HandlerFails` any other failure or the timeout, `ResponseFails` a response stage or the
size limit returning an error after the handler succeeded, `Respond` the put, `Write` the
write, which may fail. `Drop` is a client that hangs up.

### ToolManifest, ToolRegistry, Preflight

`records[t]` is the registry's record of a tool. Each operation of the registry takes its lock
once and is one action; `admin` counts those of administrators. `pc[c]`, `spec[c]`, `plan[c]`
are where a preflight is, the copy of the spec it works on and what it returned. It is cut where
it awaits: `Look` (the registry, then the checks up to the authorizer), `Authorize`, `Arm` (the
plan of operations and the fingerprint written to the registry), `Build` (profile and guard).
`Run` hands one operation of a plan to the sandbox at any later time and passes the checks of
`Sandbox::execute` (`Admits`), an executor (`Execute`) and the comparison of its usage
(`WithinLimits`). `seen[c]` is history: what the registry has held since the call was made.

A manifest is a record of what the checks read. Paths and hosts are names; `Normal` and
`Extends` say how they normalize and which begins or ends with which, so that prefix and suffix
checks are kept and characters are not. An executor's outcomes are a set: the operating system
may fail any file operation, and a write that fails leaves the file emptied or partly written.

The two modules of the invoker and these meet in one place: `Clear` of `Sandbox` may refuse
anything, and `Admits` is what it decides by.

### ConfigMap, ConfigLoad

A configuration map is a function from the leaves' paths to values; `IsMap` says that no leaf
lies within another, as in a JSON tree. `Merge`, `Insert`, `WithDefault` and `ChangedKeys` are
the loader's helpers on it. `ConfigLoad` reads files in their order, variables and defaults in
any order (the code visits hash maps), arguments in their order, and then checks and compares.
`files` change between any two reads (`Edit`). `parts` is history: the map of each source.
`Documented` is what the documents promise of it: what a source said and no later one took back, and
below all of them the defaults of fields nobody claimed.
`Publish` is the caller's swap, `Rollback` the switch's.

### StorageClient, Storage, StorageFilter

Which backend there is, is chosen at the start. Under SurrealDB `db` is what is committed and
`work` the transaction open on the one client. A statement changes `work` if there is one, for
whomever (`Puts`); one that fails dooms it (`Fails`), which only the response tells, and nobody
looks at the response of `execute` or a script. `Lose` is the loss of the connection, once, which
ends the call that waits with its error; the server drops the open transaction, and a COMMIT
may have been carried out. A migration is `Migrate` (the version table and BEGIN), `RunScript` and
`Record` for each script, `MigrateCommit`; `RunBroken` is SQL the server refuses, which cancels.
In memory a call is one action for each lock it takes.

`at[c]` is where a client is in its call, with what it keeps (the row it will write back, the
cursor of its scan, the ends of an edge). `acks` counts the versioned updates of a record,
`gone` the records deleted, `stay[c]` what a scan has had no excuse to miss; these are history.

A filter is a tree of nodes, as the JSON value it is: objects, groups, and fields with their
tests. `Clause[n]` follows `build_filter_recursive`: asked with a value, the parameters bound before
it and those bound in the end, it says whether it can be built, what it says of the value, and
which parameters follow; so a clause is kept as what it says instead of as text. `Number` is the one
counter of parameters, `Joined` what the code makes of empty members. `BuiltSelects` binds a clause's
own parameters to it; `PlainSelects` is the in-memory comparison; `Means` is the usual reading of the
operators. `Clear` filters are those in which nothing empty is negated or an alternative: what is
empty the code drops, and then the clause says something else (section 6). Nodes and their depth are
constants, so the filters may be any finite trees; TLC gets the nodes of eight.

## 3. Runs

| Run | Instance | Question and result |
|---|---|---|
| outbox_prompt | 2 workers, 2 messages without keys, 1 replay, 1 abort, max_attempts 2, lease 2, prompt; symmetric messages and workers (103 000 states) | Do leases exclude, do letters stand for dead messages, does every step map to one of `OutboxLifecycle`? Yes |
| outbox_stale | the same with 1 message, not prompt, batch 0, with fairness (174 000) | Without the assumption: is Done still delivered, Dead still tried, and does every message settle? Yes |
| outbox_surreal | 2 workers, 2 messages of one key, max_attempts 2, 2 aborts, budget 2 in flight and 2 per window, an UPDATE that files a first letter or not (612 000) | Is the batch taken row by row as exclusive, does every statement keep the lifecycle, and are the guard's counts true? Yes |
| saga_one | 4 steps, step 2 without compensation, 1 driver, 2 crashes, 1 replay (4 600) | All or nothing, undone in reverse, one outcome, an end. Yes |
| saga_replay | 2 steps, 1 replay | The first step fails and so does its compensation; replayed, the saga executes the second and is Completed without the first. Violated |
| idempotency | 3 clients, one with another request, TTL 2, 1 death, both stores, prompt (4 500) | One writer, own answers, no second write within the TTL, everybody answered. Yes, the SurrealDB store until it sweeps another client's record |
| idempotency_sweep | 2 clients, SurrealDB store | "Three retries take effect once": two clients sweep one expired record and both write. Violated |
| tool_invoker | 2 repetitions of a request of 2 operations, 2 losses of grant or consent, 1 drop, patient or not (147 000) | Reservations and evidence balance, revocation stops, replayed answers are real, one success, all answered. Yes |
| request_chain | 2 repetitions of a keyed request, both stage orders, patient or not, limits 1, 2, 4 at cost 2, decision TTL 1, response TTL 2, 1 permit, 1 retry, 1 drop (395 000) | Allowances are fresh and paid, handlers bounded, replays real, one handling per window, all answered. Yes |
| tool_preflight | 1 tool, 8 manifests of which 2 are invalid, 2 administrative operations, an LLM's call with a consent that ends at 1 and an API call with one that ends at 0, time to 1, a file longer than its limit (190 000) | Plans have their consent and are one view of the registry; what is written or posted was declared and consented to; no executor exceeds its limits; administrators stand; all decided. Yes |
| config_load | 2 files with 5 contents, 3 environments, 3 command lines, 1 edit, 2 loads, defaults of two nested fields (168 000) | The merged map is the documented one, but for values with a default nested in them; it is complete, and its event tells every change. Yes |
| storage | 2 clients of 2 calls in 8 pairs of roles, 3 records, 3 scripts of which one is broken and one fails, 8 filters of which 1 is not clear and 2 cannot be built, pages of 1, 2 and 3, 1 loss of the connection, both backends, cursors compared by id or by type (1 154 000) | Transactions and migrations are whole and owned, versions count updates, scans and filters select what they should, edges had both ends. Yes |

The two violations are in `PROJECT.json` ("findings") with the line of the repository that
says otherwise. Four configurations more are kept to show where code and documents disagree
besides. Each has one property, which TLC refutes in less than a minute:

| Configuration | Instance | What the documents say, and what happens |
|---|---|---|
| `tlc -config OutboxReplay.cfg MCOutbox` | 1 message, 1 worker, 1 replay, no aborts | What exceeds its retries goes to dead_letters (`10-soulbase-tx/01…:66`). A replayed message is given up again before the replay's last step (dead_store.rs:103), which removes the new letter: `ReplayKeepsLetters` |
| `tlc -config OutboxSurrealLetters.cfg MCOutboxSurreal` | 1 message, 1 worker, no aborts, no replays, an UPDATE that makes no record | The same line. `push` writes `UPDATE … CONTENT` (surreal/store.rs:535, :907), with which SurrealDB 2 makes no record, and answers Ok; `sb-storage` writes UPSERT for this: `DeadHasLetter` |
| `tlc -config ConfigDefaults.cfg MCConfigLoad` | 1 load, files that do not change | `Defaults < File < RemoteKV < Env < CliArgs` (`03-soulbase-config/01…:42`). A default of a field below a value that a file gave takes that value's place (loader.rs:88): `SourcesPrevail` |
| `tlc -config StorageScan.cfg MCStorage` | 1 reader, SurrealDB, cursors compared by type | Pages carry a cursor for reading in increments (`09-soulbase-storage/04…:16`). The cursor is bound as a string and compared with the record id (repo.rs:194); by their types every id is behind every string, and the next page is the first once more: `ScanRepeatsNothing` |

What the properties of the newer runs say, where their names do not:

- `PlanIsOneView`: a plan's manifest, policy, profile and operations belong to one state the
  tool was in, enabled and open to the caller, since the call was made. `AdminStands`: the
  fingerprint a preflight writes never takes back what an administrator did meanwhile.
- `EffectsAreCovered`: registration, preflight, guard, manager and executor each check a part;
  together they let no write or post through that the manifest does not name, that lacks a
  consent *at that instant*, or that would fail the check of its usage afterwards.
- `ConfigInv`: `Documented` describes the result without any order: a leaf comes from the last
  source that says anything at, above or below it, and defaults fill what nobody claimed. It is
  compared at every path that has nothing to do with a value that has a default nested in it
  (`Overruled`). At those the documents are refuted: `SourcesPrevail`, ConfigDefaults.cfg.
- `TransactionsAreWhole`: after everything that can interrupt one, what is recorded as migrated
  is what was migrated, each version once, and of an explicit transaction there is a prefix only
  if there is all before it, nothing if it was rolled back. It excepts one case, described in
  section 6: a *foreign* statement meets the loss of the connection.
- `ScanComplete`: paging by id that comes to an end has returned all that was there throughout and
  meant by a clear filter. `select` compares the cursor as a plain string with the record id
  (repo.rs:194), and what that means is the database's: `Orders` holds the readings considered, by
  the id and by the type, where every record id is behind every string. `OrdersAssumption` is what
  they share, that a record behind the cursor is never left out. That a scan repeats nothing depends
  on the reading (`ScanRepeatsNothing`, StorageScan.cfg).
- `PagesMatch`: a page holds only what the filter means, for clear filters, however they are nested.

**Why the bounds are enough.** The hazards are between two actors and one shared thing (two
workers and a row, two clients and a key, two requests and a cache), and each run has two or
three actors. Times are 1 or 2, so that a lease, window or entry both outlives and does not
outlive what it guards. Two attempts separate the last from the others. Four saga steps
with one that cannot be undone give a gap with undoable steps on both sides of it. The tool's
manifests are one for each way the checks divide: with and without consent, scope, write,
network, a relative path, a capability without an operation. Configuration contents say something
at, above, beside and below two nested fields, and outside the schema; two loads make an event
with and without a predecessor. Three records are one to three pages, and a record between two of them; two calls
of a client are a read and the write that depends on it, or a migration and its repetition.
Bounds on aborts, crashes, drops, losses, edits and administrative operations (`MaxAborts`,
`MaxCrashes`, `MaxDrops`, `MaxLosses`, `MaxReplays`, `MaxEdits`, `MaxAdmin`) let each happen at
every point and, where two interact, twice. What is proved (section 5) does not depend on them.
Symmetry is used only in runs without liveness properties, over sets whose members no constant
tells apart. `CHECK_DEADLOCK` is off for config_load alone, where loads and rollbacks end at
their bounds; Preflight and Storage have an explicit last step (`Over`).

## 4. Fairness

- Outbox: each worker's interval timer keeps calling tick, and a tick's future is polled
  until it ends (`spawn_dispatcher_worker`), sends end by the transport's timeout: weak
  fairness of `LeaseBatch`, `WorkerStep`, `Tick`. Producers, operators, retention, aborts and
  heartbeats owe nothing.
- Saga: somebody keeps ticking, and participants answer (`WF` of the tick's steps). No code in
  the crate calls tick, so this is the caller's duty.
- Idempotency: clients repeat calls and end their writes, and time passes.
- ToolInvoker: every await is answered; executors have a timeout.
- RequestChain: every await is answered, handlers by the timeout of their policy; and tokio's
  semaphore is first in first out, so `Acquire` is strongly fair.

- Preflight: a preflight that was begun is polled, and authorizer and configuration answer (`WF`
  of `Proceed` for all calls together; a preflight has finitely many steps, so none is starved).
  Callers, administrators and the sandbox owe nothing.

## 5. Proofs

All for every value of the constants that satisfies the named assumptions of the modules.

| Module | Theorem | Property |
|---|---|---|
| `OutboxProofs` | TypeCorrect, DoneDelivered, DeadTried, OutboxSafe | `TypeInv`; `DoneWasDelivered`; `DeadWasTried`; `OutboxInv` |
| | LeaseExcludes, LettersAreDead, KeepsThePromise | `ExclusiveLease`; `LetterMeansDead`; `ImplementsLifecycle` (assume `Prompt` and `ReplaysApart`) |
| | DeadHaveLetters | `DeadHasLetter` (assumes no retention) |
| | BudgetAccounts, OneMessagePerKey | `SurrealInv`; `KeyOncePerBatch`, both over SurrealDB |
| | SurrealSettles | `DoneWasDelivered` and `DeadWasTried`, over SurrealDB |
| | SurrealLeaseExcludes, SurrealKeepsThePromise | `ExclusiveLease` and `LetterMeansDead`; `ImplementsLifecycle`, over SurrealDB (assume `Prompt` and `ReplaysApart`) |
| `SagaProofs` | InstancesAreWellFormed, AllOrNothing, ReverseOrder, OneOutcome | `TypeOK`; `SagaInv`; `UndoneInReverse`; `OutcomeIsFinal` (all but the first assume `OneDriver`) |
| `IdempotencyProofs` | TypesCorrect, SingleWriter | `TypeOK`; `OneWriter` with the store in memory (assumes `Prompt`) |
| | OneWriterUntilRobbed, OwnAnswers, WritesRest, IdempotencySafe | `SoundOneWriter`; `AnswerIsOurs`; `RestsForTTL`; `IdempotencyInv`, with SurrealDB up to a delete of a record that is not expired (assume `Prompt`) |
| `ToolProofs` | BooksAgree, WithdrawalStops, ReplaysAreBacked, OneSuccess | `ToolInv`; `WithdrawnStops`; `ReplayIsBacked`; `SucceedsOnce` |
| `ChainProofs` | ChainTypeCorrect, FreshAllowances, PaidAllowances, LimitHolds, ChainSafe, ReplaysAreAnswers, HandledOncePerWindow | `TypeOK`; `AllowIsFresh`; `RidersPaid`; `HandlersBounded`; `ChainInv`; `ReplayIsAnswer`; `OncePerWindow` |
| `PreflightProofs` | PlansConsented, OneView, EffectsCovered, AdministratorsStand | `PreflightInv`; `PlanIsOneView`; `EffectsAreCovered`; `AdminStands` |
| `ConfigProofs` | LoadIsDocumented, SnapshotsAreComplete, EventsTellAll | `ConfigInv`; `SnapshotIsComplete`; `EventTellsAll` |
| `StorageProofs` | VersionsTell, TransactionsAreOwned, TransactionsWhole, EdgesKnow | `StorageInv`; `OpenIsOwned`; `TransactionsAreWhole`; `EdgesWereWhole` |
| | ScansFindAll, PagesMean | `ScanComplete` (rests on `OrdersAssumption`), `PagesMatch` (assume `Ids` finite) |
| | FiltersBuilt, SolidFiltersBuild | a clear filter's clause, when it is built, selects what the filter means; it is built when nothing is empty and all operators are known |

**Outbox.** DoneDelivered needs `AckInv`: a worker that acknowledges holds a message that was
delivered. DeadTried needs the count of attempts in the row *and* in stale copies: a worker
whose lease ran out settles with the attempts it leased with. `CountInv` says that a row's
attempts, plus the number of workers that have failed a send and not recorded it, is at most
the number of failed sends, and that no copy is above them. The sum over workers is a
cardinality, hence the finite set of workers. Neither theorem assumes `Prompt`.

The exclusivity of leases does: `HeldInv` says that whatever a worker has in its batch or hand is
a row leased to it, with the attempts it read, and that the lease lasts at least as long as a
tick still may (lease + age is at least `Lease`); without `Prompt` a tick outlives that.
`BatchInv` says that an idle worker has nothing, and no message is in hand and in the batch at
once; `OpenInv`, that a row that is not dead has an attempt left; `DeadInv`, that a row a worker
is filing, or a replay call has read, is Dead and nobody else's; `LetterInv`, that a letter is
for a Dead row whose filing is over, or for one a replay call has revived and is about to remove.
`ReplaysApart` is the other condition: no two replay calls are under way for one letter. Of two
that overlap the first revives the message, a worker leases it, and the second revives it once
more under that worker: TLC finds both `ExclusiveLease` and `LetterMeansDead` broken by them. With
both conditions each step maps to a step of `OutboxLifecycle` or to a stutter: KeepsThePromise is
the refinement, one lemma per group of actions (`SettleMaps`, `QuietMaps`). DeadHaveLetters
excludes retention only because the purge deletes letters by design. It has no counterpart over
SurrealDB, where a first letter may not be filed.

Over SurrealDB, `GuardInv` compares the guard's count with the workers between dispatch and
result: each step moves one worker in or out of that set and the count with it (`CountMoves`,
`GuardCalls`), aborted ticks being the difference. `KeyInv` says that the keys of the batch are
those of candidates passed, so that a candidate `SeenKey` lets through has a new one.

The three Surreal theorems rest on the same invariants as the memory store's, so their types
(`TypesOK`) leave room for a worker among its candidates. `SurrealActs` splits a step: it is a
step of `Outbox`, a choice of candidates (`SelectIs`), one candidate done with (`ConsidersIs`), or a
refused send; the lemmas above settle the first, and each invariant then has only the other three
left. The candidate is where the two stores differ, and where exclusivity could be lost: the row
is tested again by the UPDATE, but against the tick's own clock, and the lease runs from the
tick's start. `HeldInv` still holds because what it bounds is lease plus age. In the refinement
a candidate is a claim of one message, unless it is one the worker already had, and a refused
send abandons the batch, as an aborted tick does (`ForgetsMaps`).

**Saga.** Nothing in the code keeps callers of tick apart, and two of them lose each other's
saves (section 6); hence `OneDriver`, the caller's duty. The invariant says how a saga, a cursor into its
steps, may differ from its participants. `Covers`: nothing that could be undone is in force above
the cursor, but for the step being taken; `Marked`: no step behind the cursor is marked as undone
or skipped, none ahead as done; `Ended`: the cursor of a completed saga is at the end, that of a
cancelled one at the start; `Forward`: in the first run, until something fails, the steps behind the
cursor are in force. `CopyInv` says the same of the copy a tick works on and how far it is ahead
of the stored one; `LetterInv`, that a letter is the failed saga as stored until its replay
begins; `ReplayInv`, that letters are filed only while replays are left.

**Idempotency.** The invariant says that a writer's record is in the store with its hash and
InFlight (`WriterHoldsRecord`), that digests are those of their hash (`DigestsMatch`), that a
record lasts at least as long as its write or rest (`RecordOutlastsWrite`), and that the
clocks of those who do not write are at zero. It holds until the SurrealDB store has swept a
live record (`robbed`), which is where the run idempotency_sweep begins. `Prompt` is needed:
a write that outlasts its record has a rival.

**Tools.** An invariant for each part of the books: `CountInv` counts the calls inside, `PhaseInv`
says where the sandbox is in each phase of an invocation, `EvidenceInv` that Begin and End
events of earlier operations are paired and that only the present one may be open, `StrayInv` that
at most the operation already admitted begins after its grant is withdrawn. `BackedInv` and `ResultInv` trace an
answer back to a call whose every operation ended well. `PatientInv` says that of a patient
caller's repetitions at most one is under way and starts only where no result is stored; so a
second success needs a first that was dropped before its put.

**Chain.** `AuthInv` follows a decision: in hand it is at most `Hold` old and an allowance is
charged before it is saved; the entry's decision is at most `Hold` older than the entry; so a
hit within the entry's time to live is at most `DecisionTTL + Hold` old and rides on somebody
who was charged. `ChainInv` counts permits with the requests that hold one. `ReplayInv`: what
the store and the answers name is `Backed`, that is, its response is being written or has been.
`WindowInv`: of a patient client's repetitions one is under way; a request within its window
has a live entry; so one that came past the idempotency stage had nothing to find.

**Preflight.** The invariant follows a call: a call under way has the registry's present view
among those it has seen; the spec in its hand is `Sound`, that is, valid, consented and seen;
a plan is `Planned`, derived from one sound spec. From there the argument is about pure
definitions: a planned operation comes from a declaration that has a capability
(`OperationHasCapability`), the profile narrows to that manifest's capabilities, `Admits` finds one
that covers the operation, and each executor stays within the profile's limits. `Normal`
may be any function of the names and `Extends` any relation on them.

**Configuration.** Safety of the snapshot rests on `WithDefaultKeeps`: a default that is put in
its place takes no value from another field, because what it replaces lay above it and stood
for every field below. LoadIsDocumented generalizes `Layered`, what the
map is with the defaults that overrule, to every stage of a load: `Layer(src,
V)` is the result when the defaults in V have been visited, and each step of the merge and each
visited default goes from one such layer to the next, whatever the order.
Away from overruled paths `Layered` is `Documented` (`LayeredIsDocumented`), because there a nested
default and a value above it cannot both be.

**Storage.** `Sane` tables keep their types and count updates; every statement takes sane tables
to sane tables, the committed ones and those in the open transaction alike. A client that holds a
row to write back holds one with a version, which is all an update needs. OpenIsOwned needs that
the ways out of a transaction all end it: commit, rollback, the CANCEL of a broken script, the
loss of the connection. Records, scripts, filters, casts and the number of clients are arbitrary.

TransactionsWhole rests on `WholeInv`, which compares the open transaction with what is committed.
`Statement`: a call outside transactions leaves versions, schema and marks as they are, wherever it
lands. `OpenFor`: a transaction has one owner, and as long as it is not doomed it differs from the
committed tables by its owner's marks and, between a script and its record, by one version
(`Tells`). `Told` and `MarksInv` say of the committed tables what the property does, and that
rolled back transactions, present ones and those to come have left no mark. So COMMIT, or a loss
of the connection by which a COMMIT was carried out, takes one such state to another (`EndWhole`).
That the version table names nothing twice comes from its unique index, from lists that repeat
nothing, and from deletion of the one entry there is (`Once`). It holds until a foreign
statement meets the loss of the connection.

EdgesKnow: in memory records go only by deletion (`Grows`), so ends once looked up stay ends that
were there, through the second lookup and the push (`LookedUp`).

ScansFindAll needs, of the records that stayed, those at or before the cursor to have been found
(`Scanning`), and of every step of others that what it leaves in `stay` is still there and still
meant (`Follows`). `PageGoesOn` is the argument about one page: the chosen records in
rising order, cut at the limit; whatever is not on it lies beyond its last record, is chosen
the next time by `OrdersAssumption`, and that
there is nothing beyond a page that is not full is a counting argument. That what is meant is
selected, and for PagesMean that what is selected is meant, is FiltersBuilt for the statement and
`PlainMeans` for the comparison in memory; PagesMean carries it from page to page (`Matching`).

FiltersBuilt is an induction over filters. Induction theorems that take a predicate are out of the
provers' reach, but the existence of least members of sets of naturals (`WFMin`) is not, and it
gives induction about *sets* (`SetInduction`). From it come the functions that recursive definitions
describe: on the prefixes of a sequence (`PrefixRecursion`) and on nodes by their depth
(`DepthRecursion`), which is what `ClausesAre`, `ClauseIs`, `MeansIs`, `SolidIs` and `ClearIs` say of
StorageFilter: each definition is a function that satisfies its equation. Two inductions over
nodes follow (`NodeInduction`). `ClauseAlike`: whether a clause can be built, and with which
parameters, does not depend on what they are bound to, so the clause the binding was made for is the
one that is evaluated. `ClauseRight`: a clause's parameters continue those before it, and wherever
its parameters are bound by their place, it says what its node means if the node is clear, and says
it with yes or no if the node is solid. In a group each member is built after the ones before it, so
its parameters begin the final ones (`Begins`) and keep their numbers; that is where one counter
for the whole filter is needed, and where a counter that starts afresh (`NumberAfresh`) fails.
`JoinedRight` is what AND, OR and NOT do with empty members. SolidFiltersBuild is a third induction:
no blank clause arises where nothing is empty, so nothing is refused but unknown operators and `$in`
without an array (let `Nodes` be the nodes of the filter in question). All that is
assumed of filters (`NodesAssumption`) is the shape of their nodes and a finite depth, which every
JSON value has.

**Only model-checked:** the liveness properties. They need ENABLED under fairness, which is out of
the provers' reach.

## 6. What the checks do not settle

Disagreements between code and documents that no run and no configuration is about:

- `OutboxStatus::is_terminal` (model.rs:17) names Done as terminal, but nack_backoff writes
  Pending over whatever is there (memory/outbox_store.rs:102): a tick that outlives its lease
  can turn a Done message back to Pending. Then two workers can hold unexpired leases on one
  message: the second takes the row that the nack of the first made Pending.
  `10-soulbase-tx/02…:60` promises one holder.
- "Same key serial" (`10-soulbase-tx/02…:59`) holds within a batch (`KeyOncePerBatch`); two
  workers may send two messages of one key at once (outbox.rs:241).
- A Serial tool's guard is a counter that excludes nobody (invoker.rs:346;
  `08-soulbase-tools/02…:268` has a mutex per tool and tenant).
- Between `dead_letter` and `push` an aborted tick leaves a message Dead without a letter
  (`10-soulbase-tx/01…:66`). `DeadHasLetter` excepts it.
- Two drivers of one saga lose each other's saves, since `save` checks no version. A failed
  step is compensated too (the documents undo succeeded steps only). A saga with nothing to
  compensate becomes Cancelled. timeout_at, timeout_ms, retry and attempts are never read.
- The budget's in-flight count keeps one per aborted tick for good (`InflightAccounts`).
- In the sandbox, usage over the limits leaves an open reservation and no End evidence
  (`manager.rs:161`; `06-soulbase-sandbox/02…:404` promises both events). The properties say so.
- The invoker's key is not scoped to tool or tenant (`invoker.rs:145`); the chain's is.
- A cached decision consumes no quota (`04-soulbase-auth/01…:68`: "success is charged").
- If the authorization stage precedes the idempotency stage, obligations are applied to a
  replayed body a second time, and a "redact" of a path that is gone fails the replay.
- The chain retries any route that reports a transient error; `05-soulbase-interceptors/02…:208`
  limits retries to idempotent and read-only routes.
- batch 0 is one message in the memory store and none in the SurrealDB store. `UPSERT_RECORD`
  (sb-tx surreal/store.rs:907) also saves sagas, which
  `start` has created. The test surreal.rs:273 expects a first dead letter, but runs only against
  a server.
- `enqueue` and `dead_letter` of the SurrealDB store call the guard's hooks after the row is
  stored (store.rs:709): a hook that fails reports an error for what was done. The default hooks
  do nothing. Record ids are `{tenant}_{suffix}`, which two pairs may share.

Tools and sandbox:

- A consent without an end passes `maxTTL`. preflight refuses a consent that ended *before* now,
  the sandbox one that ends *at* now. A relative file resource is refused by the guard.
- An empty fingerprint leaves the record's old one; services with different configurations
  overwrite each other's.
- `default_sandbox_with_executors` (invoker.rs:429) has no executor for writing or listing files,
  so a planned write is always refused there; the model adds one for writing.
- The executor opens the path as given, while the checks look at the normalized one. A failed
  write leaves the file emptied or partly written, and reports neither usage nor side effect
  (fs.rs:121). `08-soulbase-tools/02…:233` plans writes with overwrite false; the code takes the
  caller's word. The estimate for a read without a length is 0. NetExecutor simulates requests.

Configuration:

- A nested field is registered only if its parents are. Of environment variables that lie within
  each other, the later visited wins, in hash order (env.rs:26).
- A file that is broken or half written is skipped in silence (file.rs:38).
- `rollback` returns to the snapshot the process started with, never to a later good one
  (switch.rs:27; `03-soulbase-config/01…:62`). The reload class of a field is never enforced
  (`:61`). Swap is not a compare-and-set; two snapshots of one millisecond have one version.

Storage (nothing in the repository but its tests drives transactions, migrators or repositories;
the callers' assumptions are `MayOpen` and the roles):

- Anybody's statement takes part in the transaction open on the shared client, and is lost with
  it. A foreign statement that meets the loss of the connection in the middle of a transaction
  leaves the rest of it to run outside any. `TransactionsAreWhole` excepts that (`cut = "foreign"`).
- A statement that fails inside a query's response is no error for `execute` or a script, so
  apply_up can return Ok with nothing applied. A version that is applied again breaks the unique
  index and dooms its transaction. `applied_versions` is read before the transaction.
- The record statement's `?` in apply_up returns without CANCEL; with the statements as they are,
  its only cause is a lost connection. A dropped `SurrealTx`, or a dropped apply_up, leaves the
  transaction open for everybody: not modelled, see section 8.
- Versions restart with a record that is deleted and created again, so an update may hit another
  record's version. An upsert without an expected version makes a record without one, which
  cannot be decoded and fails every page it is on.
- A sorted scan with a cursor on ids skips rows; hence `ScanComplete` is about unsorted ones. In
  memory select ignores the cursor and names none, so what lies past the limit cannot be reached
  (`04-…开发总结.md:16` promises a cursor).
- In memory remove_vec removes every id with that prefix; a vector outlives its record, and knn,
  out and in fail on one that is gone. In-memory filters compare operators as literals. An
  empty object beside other fields makes broken SQL; an empty `$or` selects everything.

## 7. Plan

The order in which the system was modelled: what it promises its users first. Done are the
outbox, saga, idempotency, chain with authorization, sandbox with invoker, then the registry
with preflight, configuration, storage, and the SurrealDB outbox's remaining statements. Left:

1. Futures dropped inside a transaction of the shared client, once something in the repository
   holds one.
2. Two tools behind one invoker, for keys that are not scoped; attempts and backoff of hooks.
3. The chat stream and cost arithmetic of `sb-llm`.

## 8. Not modelled

- `sb-types`, `sb-errors`: data types and tables of codes.
- `sb-llm`: a provider registry, a local provider and pure helpers.
- `sb-gateway`: services are stubs; its interceptor uses two stages that keep nothing.
- Transports, adapters, metrics, row mappers and table definitions: I/O and conversion. The
  models let them answer in every way the calling code distinguishes. Executors for listing,
  processes and the browser: no plan of `sb-tools` reaches them.
- `sb-config`: watcher, secret resolver and validator, whose implementations do nothing; checksum,
  metadata, provenance.
- `sb-storage`: tenants other than one and the checks that keep them apart, the semaphore, the
  HTTP engine with its scope per request, dropped futures. The database is taken to do what the
  statements evidently ask for (ids that come back as the strings they were written as,
  `UPDATE … REMOVE vector`, `type::thing`), but for an UPDATE that finds no record in `sb-tx` and the
  comparison of a cursor with a record id, which are left open.
- Modules 11 to 19 of the architecture documents have no code.
