------------------------------ MODULE Storage ------------------------------
(***************************************************************************)
(* Repositories, graph and vector index over the datastores of             *)
(* StorageClient, for the records of one table and one tenant.  Under      *)
(* SurrealDB a call is one statement of the shared client, except a        *)
(* nearest-neighbour search that fetches from a repository; in memory the  *)
(* graph and the vector index take several locks one after another.        *)
(*                                                                         *)
(* The database is taken to do what the statements ask for: ids come back  *)
(* as the strings they were written as, and the vector index finds the     *)
(* record its id names.  How it compares a record id with a string, which  *)
(* paging relies on, is left open.                                         *)
(***************************************************************************)
EXTENDS StorageClient

CONSTANTS
    Filters,            \* filters a caller may pass
    Limits,             \* page sizes
    Orders,             \* what the database may make of "id > $cursor": pairs
                        \* <<j, i>> for which it holds of the record i, j the cursor
    Starts              \* <<i, j>>: the id of j starts with the id of i

Rows == [ver : Nat, val : Values, vec : BOOLEAN]

ASSUME StorageAssumption ==
    /\ None \notin Rows
    /\ \A rows \in Tables :
          /\ rows \in [Ids -> Rows \cup {None}]
          /\ \A i \in Ids : rows[i] # None => rows[i].ver <= 1
    /\ Filters \subseteq {n \in Nodes : n.key = "object"}
    /\ Limits \subseteq Nat
    /\ Orders \subseteq SUBSET (Ids \X Ids)
    /\ Starts \subseteq Ids \X Ids /\ \A i \in Ids : <<i, i>> \in Starts

\* A record behind the cursor is never left out.  It holds of a database that
\* compares the two by the id, and of one in which every record id, by its type, is
\* greater than any string.
ASSUME OrdersAssumption ==
    \A after \in Orders : \A i, j \in Ids : j < i => <<j, i>> \in after

Free(c, role) == cast[c] = role /\ at[c] = Idle /\ left[c] > 0

\* A record whose version is 0 has no version field, and cannot be decoded.
Row(ver, val) == [ver |-> ver, val |-> val, vec |-> FALSE]

Exists(i) == Seen.rows[i] # None

\* A statement that changes nothing.
Reads == UNCHANGED <<client, stay>>

-----------------------------------------------------------------------------
(* Repository: writes.                                                      *)

With(i, row) == [Seen EXCEPT !.rows = [@ EXCEPT ![i] = row]]

Created(i, row) == [With(i, row) EXCEPT !.acks = [@ EXCEPT ![i] = 0]]

\* create: a record that exists makes the statement fail;
SurrealCreate(c, i) ==
    /\ Surreal
    /\ Free(c, "writer")
    /\ \E v \in Values : IF Exists(i) THEN Fails ELSE Puts(Created(i, Row(1, v)))
    /\ Goes(c, Idle)

\* in memory it is a conflict.
MemoryCreate(c, i) ==
    /\ Memory
    /\ Free(c, "writer")
    /\ \E v \in Values : IF Exists(i) THEN Reads ELSE Puts(Created(i, Row(1, v)))
    /\ Goes(c, Idle)

\* get, whose answer the caller keeps to write it back.
Get(c, i) ==
    /\ Free(c, "writer")
    /\ Reads
    /\ Goes(c, IF ~Doomed /\ Exists(i) /\ Seen.rows[i].ver > 0
               THEN [pc |-> "held", id |-> i, row |-> Seen.rows[i]]
               ELSE Idle)

Updated(i, ver, v) ==
    [With(i, [Seen.rows[i] EXCEPT !.ver = ver, !.val = v])
        EXCEPT !.acks = [@ EXCEPT ![i] = Seen.acks[i] + 1]]

\* Slip: the version is not part of the condition.
UpdateAny(c) ==
    /\ at[c].pc = "held"
    /\ LET i == at[c].id IN
       \E v \in Values :
          IF Exists(i)
          THEN Puts(Updated(i, at[c].row.ver + 1, v))
          ELSE Reads
    /\ Goes(c, Idle)

\* upsert with an expected version: the patch carries the next one.  A record
\* that is gone or has another version is not_found or a conflict.
Update(c) ==
    /\ at[c].pc = "held"
    /\ LET i == at[c].id IN
       \E v \in Values :
          IF Exists(i) /\ Seen.rows[i].ver = at[c].row.ver
          THEN Puts(Updated(i, at[c].row.ver + 1, v))
          ELSE Reads
    /\ Goes(c, Idle)

Patched(i, v) == With(i, [Seen.rows[i] EXCEPT !.val = v])

\* upsert without an expected version, and upsert_returning_none: SurrealDB
\* makes a missing record of the patch alone,
SurrealUpsert(c, i) ==
    /\ Surreal
    /\ Free(c, "writer")
    /\ \E v \in Values : Puts(IF Exists(i) THEN Patched(i, v) ELSE Created(i, Row(0, v)))
    /\ Goes(c, Idle)

\* in memory it is not_found.
MemoryUpsert(c, i) ==
    /\ Memory
    /\ Free(c, "writer")
    /\ \E v \in Values : IF Exists(i) THEN Puts(Patched(i, v)) ELSE Reads
    /\ Goes(c, Idle)

\* delete.  A vector of SurrealDB goes with its record, one in memory stays.
Delete(c, i) ==
    /\ Free(c, "writer")
    /\ IF Exists(i) THEN Puts([With(i, None) EXCEPT !.gone = @ \cup {i}]) ELSE Reads
    /\ Goes(c, Idle)

Write(c) ==
    \/ \E i \in Ids : \/ SurrealCreate(c, i) \/ MemoryCreate(c, i)
                     \/ SurrealUpsert(c, i) \/ MemoryUpsert(c, i)
                     \/ Get(c, i) \/ Delete(c, i)
    \/ Update(c)

-----------------------------------------------------------------------------
(* Repository: reading page by page.                                        *)

\* The orders a caller may ask for; without one, SurrealDB's is that of the ids.
Sorts == {"none", "val"}

\* The sequences that may be returned, with nothing selected missing but for limit.
Orderings(chosen, sort, limit) ==
    LET rank(i) == CASE sort = "val" -> Seen.rows[i].val
                     [] sort = "none" /\ Surreal -> i
                     [] OTHER -> 0
        n == Cardinality(chosen)
    IN  {SubSeq(q, 1, IF limit < n THEN limit ELSE n) : q \in {q \in [1..n -> chosen] :
            /\ IsInjective(q)
            /\ \A a, b \in 1..n : a < b => rank(q[a]) <= rank(q[b])}}

\* The condition on the cursor, which is bound as a plain string and compared with
\* the record's id.  The first page has none.
After(after, i, cursor) == cursor = 0 \/ <<cursor, i>> \in after

\* Slip: a page that is just full is taken for the last one.
NextIfMore(page, limit) == IF limit > 0 /\ Len(page) > limit THEN Last(page) ELSE 0

\* The cursor a page ends with, 0 being none.
Next(page, limit) == IF limit > 0 /\ Len(page) >= limit THEN Last(page) ELSE 0

\* A record without a version on the page makes the call fail.
Undecodable(page) == \E k \in DOMAIN page : Seen.rows[page[k]].ver = 0

RowsOf(page) == {Seen.rows[page[k]] : k \in DOMAIN page}

ScanStart(c) ==
    /\ Free(c, "reader")
    /\ \E f \in Filters, sort \in Sorts, limit \in Limits :
          /\ Goes(c, [pc |-> "scan", filter |-> f, sort |-> sort, limit |-> limit,
                      cursor |-> 0, found |-> {}, again |-> FALSE, page |-> {}])
          /\ stay' = [stay EXCEPT ![c] = {i \in Ids : Exists(i) /\ Meaning(f, Seen.rows[i])}]
    /\ UNCHANGED client

\* What the caller has, and whether it was given some record once more.
Reading(c, page, next) ==
    Goes(c, IF Undecodable(page) THEN [at[c] EXCEPT !.pc = "failed"]
            ELSE [at[c] EXCEPT !.pc = IF next = 0 THEN "read" ELSE "scan",
                               !.cursor = next, !.found = @ \cup Range(page),
                               !.again = @ \/ at[c].found \cap Range(page) # {},
                               !.page = RowsOf(page)])

\* One call of select.  A filter without a statement and a doomed transaction
\* are errors.
SurrealSelect(c) ==
    /\ Surreal
    /\ at[c].pc = "scan"
    /\ Reads
    /\ LET s == at[c]
           chosen(after) == {i \in Ids : /\ Exists(i) /\ After(after, i, s.cursor)
                                         /\ BuiltSelects(s.filter, Seen.rows[i])}
       IN  IF ~Buildable(s.filter) \/ Doomed THEN Goes(c, [s EXCEPT !.pc = "failed"])
           ELSE \E after \in Orders :
                   \E page \in Orderings(chosen(after), s.sort, s.limit) :
                      Reading(c, page, Next(page, s.limit))

\* In memory there is one page, and no cursor.
MemorySelect(c) ==
    /\ Memory
    /\ at[c].pc = "scan"
    /\ Reads
    /\ LET s == at[c]
           chosen == {i \in Ids : Exists(i) /\ PlainSelects(s.filter, Seen.rows[i])}
       IN  \E page \in Orderings(chosen, s.sort, s.limit) : Reading(c, page, 0)

\* Full-text search: one page of what the text matches, best first and without
\* a cursor.  The text is a filter here, and an empty one finds nothing.
Search(c) ==
    /\ Free(c, "reader")
    /\ Reads
    /\ \E f \in Filters, limit \in Limits :
          LET found == IF f = NoFilter THEN {} ELSE {i \in Ids : Exists(i) /\ Meaning(f, Seen.rows[i])}
          IN  \E page \in Orderings(found, "score", limit) :
                 Goes(c, IF Doomed \/ Undecodable(page) THEN [pc |-> "failed"]
                         ELSE [pc |-> "read", filter |-> f, sort |-> "score", limit |-> limit,
                               found |-> Range(page), page |-> RowsOf(page)])

\* The caller takes what it found.
Return(c) ==
    /\ at[c].pc \in {"read", "failed", "got"}
    /\ stay' = [stay EXCEPT ![c] = {}]
    /\ UNCHANGED client
    /\ Goes(c, Idle)

-----------------------------------------------------------------------------
(* Graph.                                                                   *)

\* relate.  SurrealDB relates whatever ids it is given;
SurrealRelate(c, i, j) ==
    /\ Surreal
    /\ Free(c, "grapher")
    /\ Puts([Seen EXCEPT !.edges = @ \cup {<<i, j>>}])
    /\ Goes(c, Idle)

\* in memory the source is looked up first,
Source(c, i, j) ==
    /\ Memory
    /\ Free(c, "grapher")
    /\ Reads
    /\ Goes(c, IF Exists(i) THEN [pc |-> "target", edge |-> <<i, j>>] ELSE Idle)

\* Slip: the source is looked up twice.
SourceAgain(c) ==
    /\ at[c].pc = "target"
    /\ Reads
    /\ Goes(c, IF Exists(at[c].edge[1]) THEN [at[c] EXCEPT !.pc = "push"] ELSE Idle)

\* then the target, under a second read lock,
Target(c) ==
    /\ at[c].pc = "target"
    /\ Reads
    /\ Goes(c, IF Exists(at[c].edge[2]) THEN [at[c] EXCEPT !.pc = "push"] ELSE Idle)

Walking == \E c \in Clients : at[c].pc = "walk"

\* and the edge is pushed under the lock of the edges.
PushEdge(c) ==
    /\ at[c].pc = "push"
    /\ ~Walking
    /\ Puts([Seen EXCEPT !.edges = @ \cup {at[c].edge}])
    /\ Goes(c, Idle)

Neighbours(i, dir) ==
    IF dir = "out" THEN {e[2] : e \in {e \in Seen.edges : e[1] = i}}
    ELSE {e[1] : e \in {e \in Seen.edges : e[2] = i}}

\* out and in are one statement; what they return is not followed here.
SurrealWalk(c) ==
    /\ Surreal
    /\ Free(c, "grapher")
    /\ Reads
    /\ Goes(c, Idle)

\* In memory the neighbours are fetched one by one while the edges are locked,
MemoryWalk(c, i) ==
    /\ Memory
    /\ Free(c, "grapher")
    /\ Reads
    /\ \E dir \in {"out", "in"}, limit \in Limits :
          Goes(c, [pc |-> "walk", todo |-> Neighbours(i, dir), limit |-> limit])

\* up to the limit, and one that is gone ends the call with an error.
Fetch(c) ==
    /\ at[c].pc = "walk"
    /\ Reads
    /\ IF at[c].todo = {} THEN Goes(c, Idle)
       ELSE \E i \in at[c].todo :
               Goes(c, IF Exists(i) /\ at[c].limit > 1
                       THEN [at[c] EXCEPT !.todo = @ \ {i}, !.limit = @ - 1]
                       ELSE Idle)

Graph(c) ==
    \/ \E i, j \in Ids : SurrealRelate(c, i, j) \/ Source(c, i, j)
    \/ \E i \in Ids : MemoryWalk(c, i)
    \/ Target(c) \/ PushEdge(c) \/ SurrealWalk(c) \/ Fetch(c)

-----------------------------------------------------------------------------
(* Vector index: in memory a map of its own, keyed by id and tenant; under   *)
(* SurrealDB a field of the record.                                          *)

SetVec(i, b) == With(i, [Seen.rows[i] EXCEPT !.vec = b])

SurrealSetVec(c, i, b) ==
    /\ Surreal
    /\ Free(c, "indexer")
    /\ IF Exists(i) THEN Puts(SetVec(i, b)) ELSE Reads
    /\ Goes(c, Idle)

SurrealUpsertVec(c, i) == SurrealSetVec(c, i, TRUE)

SurrealRemoveVec(c, i) == SurrealSetVec(c, i, FALSE)

MemoryUpsertVec(c, i) ==
    /\ Memory
    /\ Free(c, "indexer")
    /\ Puts([Seen EXCEPT !.vectors = @ \cup {i}])
    /\ Goes(c, Idle)

\* In memory every key that starts with the id goes.
MemoryRemoveVec(c, i) ==
    /\ Memory
    /\ Free(c, "indexer")
    /\ Puts([Seen EXCEPT !.vectors = {j \in @ : <<i, j>> \notin Starts}])
    /\ Goes(c, Idle)

Indexed ==
    IF Memory THEN Seen.vectors ELSE {i \in Ids : Exists(i) /\ Seen.rows[i].vec}

\* knn: the k nearest, any k of them here, of what is indexed,
Nearest(c) ==
    /\ Free(c, "indexer")
    /\ Reads
    /\ \E k \in Limits : \E near \in SUBSET Indexed :
          /\ Cardinality(near) = IF Cardinality(Indexed) < k THEN Cardinality(Indexed) ELSE k
          /\ Goes(c, IF Doomed THEN Idle
                     ELSE [pc |-> "near", todo |-> near, near |-> near, found |-> {}])

\* fetched one by one from the repository.  One that is gone is left out under
\* SurrealDB
SurrealGetNear(c) ==
    /\ Surreal
    /\ at[c].pc = "near"
    /\ Reads
    /\ IF at[c].todo = {} THEN Goes(c, [at[c] EXCEPT !.pc = "got"])
       ELSE \E i \in at[c].todo :
               Goes(c, [at[c] EXCEPT !.todo = @ \ {i},
                                     !.found = IF Exists(i) THEN @ \cup {i} ELSE @])

\* and ends the search in memory.
MemoryGetNear(c) ==
    /\ Memory
    /\ at[c].pc = "near"
    /\ Reads
    /\ IF at[c].todo = {} THEN Goes(c, [at[c] EXCEPT !.pc = "got"])
       ELSE \E i \in at[c].todo :
               Goes(c, IF Exists(i) THEN [at[c] EXCEPT !.todo = @ \ {i}, !.found = @ \cup {i}]
                       ELSE Idle)

Index(c) ==
    \/ \E i \in Ids : \/ SurrealUpsertVec(c, i) \/ SurrealRemoveVec(c, i)
                     \/ MemoryUpsertVec(c, i) \/ MemoryRemoveVec(c, i)
    \/ Nearest(c) \/ SurrealGetNear(c) \/ MemoryGetNear(c)

-----------------------------------------------------------------------------
Step(c) ==
    \/ ClientStep(c)
    \/ /\ Write(c) \/ ScanStart(c) \/ Search(c)
          \/ SurrealSelect(c) \/ MemorySelect(c) \/ Return(c) \/ Graph(c) \/ Index(c)
       /\ UNCHANGED undone

Over == (\A c \in Clients : at[c] = Idle /\ left[c] = 0) /\ UNCHANGED vars

StorageNext == (\E c \in Clients : Step(c)) \/ Over

Spec == ClientInit /\ [][StorageNext]_vars

-----------------------------------------------------------------------------
(* Correctness, beside what StorageClient states.                           *)

Places == {"idle", "tx", "script", "record", "commit", "held", "scan", "read", "failed",
           "target", "push", "walk", "near", "got"}

\* The tables, wherever they are.
Typed(d) ==
    /\ d.rows \in [Ids -> Rows \cup {None}]
    /\ d.acks \in [Ids -> Nat]
    /\ d.edges \subseteq Ids \X Ids
    /\ d.vectors \subseteq Ids
    /\ d.gone \subseteq Ids

TypeOK ==
    /\ backend \in Backends
    /\ Typed(db)
    /\ work # NoTx => Typed(work.data)
    /\ cut \in {"no", "own", "foreign"}
    /\ \A c \in Clients : at[c].pc \in Places

\* No versioned update is lost: the version of a record, in the committed tables
\* and in an open transaction, is one more than the number of updates with an
\* expected version it has seen since it was created (upsert).
VersionsCount ==
    LET counted(d) == \A i \in Ids : d.rows[i] # None /\ d.rows[i].ver > 0 =>
                                        d.rows[i].ver = 1 + d.acks[i]
    IN  counted(db) /\ (work # NoTx => counted(work.data))

\* Tables keep their types and records count their updates (upsert).
StorageInv == TypeOK /\ VersionsCount

\* A scan that has come to its last page, in the order of the ids, has found every
\* record that was there and meant by the filter from its start to its end; in
\* memory, where paging stops after one page, when that page is large enough
\* (select).
ScanComplete ==
    \A c \in Clients : at[c].pc = "read" =>
        LET s == at[c] IN
        (IF Surreal THEN s.sort = "none" /\ s.limit > 0 /\ Clear[s.filter]
                    ELSE s.limit >= Cardinality(Ids)
                         /\ \A i \in Ids, v \in Values :
                               Meaning(s.filter, Row(1, v)) <=> PlainSelects(s.filter, Row(1, v)))
        => stay[c] \subseteq s.found

\* A scan in the order of the ids is given no record twice: the cursor of a page is
\* there to go on behind it, for reading in increments (09-soulbase-storage/04:16).
\* It is compared as the string it is (select, repo.rs:192-194), and so this is as
\* the database sees a record and a string.
ScanRepeatsNothing ==
    \A c \in Clients :
        at[c].pc \in {"scan", "read"} /\ Surreal /\ at[c].sort = "none" => ~at[c].again

\* What a page holds is what the filter means, whatever groups are nested in it
\* and however its operands are numbered (build_filter_recursive, select).
PagesMatch ==
    \A c \in Clients : at[c].pc \in {"scan", "read"} /\ Clear[at[c].filter] =>
        \A row \in at[c].page : Meaning(at[c].filter, row)

\* In memory no edge leads to a record that never was: an end that is missing was
\* deleted, whatever happened between the two lookups and the push (relate).
EdgesWereWhole ==
    Memory => \A e \in db.edges : \A i \in Range(e) : db.rows[i] # None \/ i \in db.gone
=============================================================================
