# A TLA+ model of the IceLog metadata server

IceLog is a metadata control plane for a data lake: a gRPC server in C++ that
keeps tables, schemas, snapshots and partitions in PostgreSQL, with per-table
locks, an LRU cache of partition lists and an in-memory MVCC manager. This
directory holds the TLA+ model of that server, the TLC runs that check it and
the proofs TLAPS checks. Paths below are relative to the repository; the code is
in `src/`.

## Inventory

| Component | State | Operations | Who calls it |
|---|---|---|---|
| `MetadataServer` (`server/`) | none of its own | one handler per RPC, on gRPC's threads | clients |
| `PartitionRegistry` (`catalog/`) | `cache_` | `get_partitions`, `get_partitions_paged`, `get_stats`, `commit_snapshot`, `invalidate_table_cache` | handlers |
| `CatalogManager` (`catalog/`) | none | `create_table`, `get_table`, `alter_table_schema`, `rename_table`, `drop_table`, `list_tables` | handlers |
| `SchemaStore` (`catalog/`) | none | `get_current_schema`, `validate_schema_change`, two history queries | `AlterTable` |
| `PgClient` (`db/`) | the database: `tables`, `snapshots`, `partitions`, `schema_history`, `transactions` and their sequences | one method per statement | all of the above |
| `LockManager` (`lock/`) | `table_locks_` | shared and exclusive scoped locks by table name | registry, catalog, schemas |
| `LRUCache` (`cache/`) | list, map, counters | `get`, `put`, `invalidate_if` | registry |
| `ConnectionPool` (`db/`) | queue of connections | `acquire`, `acquire_with_timeout`, `release` | everybody |
| `MVCCManager` (`transaction/`) | transaction ids, commit counter, active transactions, pins | `begin`, `commit`, `abort`, `cleanup`, `validate_parent_snapshot` | transaction handlers, registry |
| `Snapshot` (`transaction/snapshot.h`) | none | `build_snapshot_chain`, `is_ancestor_of` | nobody in the server |

A handler runs on one thread and calls one or two component operations. A
component operation takes the table's lock, then a connection, then runs its
statements; guards and handles release both when it returns, on error paths too.
All of them share the locks, the pool, the cache, the commit counter and the
database.

What is hard about it:

* **Concurrency.** Several handlers run at once. `commit_snapshot` checks the
  parent snapshot and writes later; a reader queries the database and fills the
  cache later; `GetTableMetadata` and `AlterTable` make two calls with separate
  locks; `AlterTable` and `DropTable` invalidate the cache after the locks are
  gone; `rename_table` takes two locks; a paged read is many calls, each with a
  lock of its own; `ListSnapshots` takes none.
* **Waiting.** A handler waits for the registry mutex, for a table lock, then for
  a connection behind a condition variable; each wait may time out, be woken for
  nothing or end in an exception.
* **Failure.** A statement of a transaction may fail, `COMMIT` may fail, a
  connection may be broken for good, the process may die between any two steps.
* **Numbers.** Snapshot, table and partition ids come from database sequences
  that do not go back; the MVCC manager counts commits and transactions on its
  own, from the beginning in every process.

What makes the components correct is the list of properties further down.
`PROJECT.json` lists every hazard with its line and the properties about it.

## Modules

```
CatalogBase --+-- PgClient ----------+
              +-- TableLocks --------+                  +- PartitionRegistry -+
              +-- PartitionCache ----+-- ServerThreads -+                     +- MetadataServer -- QueryService
              +-- PooledConnections -+                  +- CatalogManager ----+        |                |
                                                                             VersionedCatalog     SnapshotChain, Ordering
LockManager ----+
                +-- HandlerResources      Ordering -- LruCache      MvccManager -- TransactionService
ConnectionPool -+
```

`MCMetadataServer`, `MCQueryService`, `MCHandlerResources` and `MCLruCache` give
the constants their values. The theorems are in the chain
`MetadataServerProofs` - `CatalogProofs` - `HandlerProofs` - `QueryProofs`, and in
`LruProofs`, `TransactionProofs` and `ResourceProofs`; `OrderingProofs` has the
lemmas on `Ordering` that `QueryProofs` and `LruProofs` share.

What the parts promise and how they keep it are separate modules:

| Abstract | Detailed | Property | Shown by |
|---|---|---|---|
| `VersionedCatalog`: tables with atomic operations and immutable snapshots | `MetadataServer` | `CatalogImplemented` | TLC, and proved |
| `TableLocks`: a lock per name | `LockManager` | `LocksImplemented` | TLC, and proved |
| `PooledConnections`: a number of connections | `ConnectionPool` | `PoolImplemented` | TLC, and proved |
| `PartitionCache`: a bounded map | `LruCache` | `CacheImplemented` | TLC, and proved |

The server model uses the abstract lock, pool and cache, so the last three say
that it may.

* **CatalogBase**: table names and threads.
* **PgClient**: the database. A relation is a set of records, a sequence is a
  number of its own (`table_seq`, `snapshot_seq`, `partition_seq`), because
  PostgreSQL does not give a drawn number back on `ROLLBACK`. Each operator is a
  method of `pg_client.cpp`: a query is a set comprehension with the `WHERE`
  clause of the code, an update is the next value of the relation. A method that
  returns `std::optional` returns a set with at most one element. Partition
  files, formats, row counts and statistics are data no property looks at.
* **TableLocks**, **PartitionCache**, **PooledConnections**: see above. The cache
  may evict any entry for a new key; a name that is a prefix of another name's
  cache keys is the relation `ColonPrefix`.
* **ServerThreads**: the locals of a request in progress (`pc`, `req`, `snap`,
  `rows`, ...) and the commit counter.
* **PartitionRegistry**, **CatalogManager** (with SchemaStore): one action per
  step of an operation. A step touches shared state once: one lock, one
  statement or transaction, one cache call, one atomic. A multi-statement
  transaction is one step, its `COMMIT`, with the numbers it draws before that
  drawn separately where others can see them. Every early return is a disjunct
  or an action (`DrawNothing`, `RollbackSnapshot`, `AlterFails`, ...).
* **MetadataServer**: the handlers, what the environment does (`AcquireThrows`,
  `CommitTransaction`, `Restart`), the specification and its properties.
* **QueryService**: the handlers that only read, beside all of the above: paged
  `GetPartitions`, `GetPartitionStats`, `GetSnapshot`, `ListSnapshots`. A page is
  a call of its own; op `walk` is a client that asks for page after page until
  one is empty. `SnapshotChain` is what `snapshot.h` computes from a listing.
* **LockManager**: the registry mutex and `get_or_create`, the blocking and the
  polling acquire, the guards. **ConnectionPool**: mutex, queue, condition
  variable, `acquire`, `acquire_with_timeout`, `release`, connections that break.
  **HandlerResources** runs handlers over both: a handler is the sequence of the
  calls it makes to them, and its destructors run in reverse order at its end or
  when a call throws. Handlers are assumed not to lock one table shared twice
  (`SharesOnce`): no handler of the server does, and on a `std::shared_mutex`
  that would be undefined. Locking it exclusively twice is not excluded, since
  `rename_table` can (`LockThrows`).
* **Ordering**: the n-th smallest of a set of numbers (`ORDER BY`), and a sequence
  without the elements that fail a test (`invalidate_if`). Both are written
  without recursion, by counting, so that they can be reasoned about.
* **LruCache**: the list, the map of iterators and the counters, one action per
  call, since every call runs under the cache's mutex.
* **MvccManager**: `MVCCManager` at the granularity of its two atomics and its
  mutex. `commit_log` and `committed` are history variables.
* **TransactionService**: the transaction handlers around it, the `transactions`
  relation and restarts of the process, after which clients still hold the
  numbers the old process gave them. `begun`, `acks`, `in_step` and `ended` are
  history variables.

A definition whose comment starts with "Variant:" is a deliberately wrong form
of the definition after it. The specification does not use it; the mutation runs
put it in place of the right one and expect the named property to fail.

### State and code

| Model | Code |
|---|---|
| `pc[th]` | the line the handler on thread `th` has reached |
| `snap[th]` | `snapshot_id`, then `read_snap` in a read; `new_snap` in a commit |
| `reported[th]` | `read_snapshot` of `GetTableMetadata` |
| `version[th]` | `new_version` of `alter_table_schema` |
| `readers`, `writer` | the `std::shared_mutex` of each name |
| `cache` | `map_` and `lru_list_` of the registry's `LRUCache` |
| `conns`, `available` | live `ConnectionHandle`s, `available_connections_.size()` |
| `query[th]` | the locals of a reading handler, and what its client has received |
| `lpc[th]`, `ppc[th]` | where a call of the lock manager or of the pool stands |
| `guards[th]`, `handle[th]` | the scoped locks and the connection a thread holds |
| `call[th]`, `target[th]` | the transaction handler a thread runs, and its id |
| `latest` | `latest_committed_snapshot_` |

Two undefined or library-dependent points are settled as the build settles them.
Renaming a table to its own name locks a `std::shared_mutex` twice: glibc's
rwlock reports `EDEADLK`, libstdc++ throws, and gRPC's handler wrapper turns the
exception into an error (`LockSameName`). A shared lock is granted whenever no
writer holds it, as a default `pthread_rwlock_t` does.

## Runs

The bounds are in the configurations. Names, keys and schemas are two each, so
that a rename has a target and a commit can replace one key by another.
`MaxRequests`, `MaxTxns`, `MaxCalls` and `MaxFaults` bound the behaviour;
`PoolSize` and `CacheCapacity` are small so that both run out. Threads are
symmetric in the safety runs of the server.

| Run | Bounds | Distinct states | Checks |
|---|---|---|---|
| `read_write` | 3 threads, 4 requests, 2 connections, crashes and lost connections | 821k | `LinearHistory`, `AckedCommitIsCurrent`, `ReadsExact`, `MetadataIsOneSnapshot`, `WalkIsComplete`, `ListIsChain`, `CommittedIsListed`, `SnapshotImmutable` |
| `catalog` | 3 threads, 4 requests, cache of 1, A a prefix of B | 378k | `TypeOK`, `CacheCoherent`, `SchemaHistoryComplete`, `CatalogImplemented` |
| `faults` | 2 threads, 4 requests, 3 connections, all faults but `current_read` | 223k | `CacheCoherent`, `SchemaHistoryComplete`, `NothingLeaked`, `CatalogImplemented` |
| `liveness` | 3 threads, 3 requests, 1 connection | 27k | `RequestsTerminate` |
| `transactions` | 2 threads, 2 transactions, 1 tick, time-out 0, 1 fault of any kind | 55k | `TypeOK`, `CommitsNumbered`, `ActiveReadsPast`, `NoStrayPins`, `AcksAreCommits`, `RowsFollowCommits`, `EndedNeverCommits`, `HandlersReturn` |
| `resources` | 3 threads, 3 requests, 2 connections that may break | 174k | `UnlockLegal`, `NoLostWakeup`, `LocksImplemented`, `PoolImplemented`, `HandlersFinish` |
| `lru_cache` | 6 calls, capacity 3, 4 keys, 2 values | 129k | `IteratorsValid`, `ListIsRecentUse`, `CacheImplemented` |

Why that is enough. Four requests on one table give two commits from the same
parent with readers on both sides of each, or a walk of several pages with
commits between them; snapshot numbers 0 to 2 include old, current and future
ones. Four catalog requests are enough for fill, change, create anew and read
again. A fault may strike at every step of four requests, one of which may
be a `CommitTransaction`. Two transactions give
every race between begin, commit, abort, expiry and a repeated call, and one
crash gives clients with numbers from an older process. Three threads over two
connections leave one asleep on the condition variable while another one takes
what it was woken for. Six calls fill a cache of three entries, evict, invalidate
and put again at a reused address.

Deadlock is checked, except where the system may stop or the calls are simply
used up: in `read_write` and `faults` every connection may be lost, and then
`acquire` waits forever; in `lru_cache` the calls are bounded; the violation
runs look for something else.

The properties in words:

* `LinearHistory`: the snapshots of a table are one chain, each the child of the
  one before it, and the table points to the last.
* `AckedCommitIsCurrent`: when `commit_snapshot` reports success, its snapshot is
  in the history with the right parent and is the current one.
* `ReadsExact`: a read returns exactly the partitions of its snapshot, from the
  cache or from the database. `MetadataIsOneSnapshot`: so does
  `GetTableMetadata`, for the snapshot it reports.
* `WalkIsComplete`: a client that walks through the pages, while others commit,
  gets every partition that was there all the time and none that never was; at
  an explicit snapshot, exactly that snapshot. The same for `GetPartitionStats`.
* `ListIsChain`, `CommittedIsListed`: `ListSnapshots`, which takes no lock,
  returns the newest part of one chain, and what was committed before the call is
  in it; `build_snapshot_chain` and `is_ancestor_of` agree with that order. The
  first statement must have found the table the client meant, which may be
  dropped before the second one runs, but not purged.
* `CacheCoherent`: outside the moments when an invalidation is on its way, a
  cached entry is what the query would return now.
* `SnapshotImmutable`: no step changes what a committed snapshot of an existing
  table contains.
* `SchemaHistoryComplete`: one history row for every version after the first, the
  last one with the table's schema.
* `CatalogImplemented`: every request is one atomic operation of
  `VersionedCatalog` or none, wherever it fails. The mapping, `VisibleCatalog`,
  reads each table's name, schema versions, current snapshot and the contents of
  all its snapshots out of the relations.
* `NothingLeaked`: no connection is invented, and outside a component call a
  thread holds no lock and no connection.
* `CommitsNumbered`, `ActiveReadsPast`, `NoStrayPins`: one number per commit and
  one commit per number; an active transaction reads the past; a pin has a
  reader.
* `AcksAreCommits`: no process tells its clients of more commits than it made,
  across repeated calls and failures. `EndedNeverCommits`: a transaction that was
  aborted, timed out or was cleaned up never gets a commit number, although its
  commit may have been on its way.
* `RowsFollowCommits`: a row of `transactions` that has the number of its own
  transaction says "committed" only if that transaction has committed. It says
  nothing of a row that is out of step, which may well be wrong (see below), and
  nothing of rows marked aborted: `AbortTransaction` marks the row of a committed
  transaction too.
* `UnlockLegal`: a guard unlocks the mutex it locked. `NoLostWakeup`: nobody
  sleeps beside a free connection that no one is on the way to.
* `IteratorsValid`, `ListIsRecentUse`: the map points to live nodes of the right
  keys, no node is in the list twice or without an iterator, and the list is the
  order of use.
* `RequestsTerminate`, `HandlersReturn`, `HandlersFinish`: every request is
  answered, every transaction handler returns, and no handlers wait for each
  other's locks and connections in a circle.

### Fairness

`FairSpec` asks weak fairness of `HandlerStep(th)`, `ResourcesFairSpec` of
`ThreadStep(th)`: a thread that can run does. Waiting for a lock or a connection
is a disabled step, so weak fairness claims only that something that stays free
is taken. With finitely many requests that is enough; the code guarantees no more
(reader preference could starve a writer under an endless stream of readers,
which no bounded run shows). No client is forced to send anything; faults and
spurious wake-ups are never required. `HandlersFinish` is conditional on
`[](Open > 0)`, some connection being left. `TxnFairSpec` adds strong fairness of
a successful compare-exchange: `compare_exchange_weak` may fail spuriously, not
forever.

### Where the code departs from its documentation

| Run | What happens |
|---|---|
| `overwrite` | a commit that replaces a partition under its own key deletes the partition it has just inserted (`partition_registry.cpp:117-129`) |
| `zero_snapshot` | `snapshot_id` 0 reads at the count of committed transactions, not at the latest snapshot (`metadata_server.cpp:56-58`) |
| `stale_after_drop` | between a purge and its cache invalidation a new table of the same name reads the old partitions |
| `forked_history` | a failed `SELECT` reads as snapshot 0 and passes the conflict check |
| `cross_rename` | renames in opposite directions deadlock |

Each run checks one property that states the documented behaviour;
`PROJECT.json` quotes the documentation. `LinearHistory` and
`AckedCommitIsCurrent` are claimed without the faults that refute them:
`current_read` for the first and a failing `COMMIT`, whose result the code
ignores, for the second. `ReadsExact` is claimed for tables that are not dropped
while they are read; `stale_after_drop` shows what happens when they are.

Other things the model shows, that have no run of their own. The first two are
hard to reconcile with `src/README.md:417` ("Readers always see a consistent view
of the world at a specific snapshot ID"), the third with the name of the test at
`src/tests/mvcc_test.cpp:68`, `ActiveTransactionPinsSnapshot`; of the others no
document speaks. The passing properties leave these cases out, or say what is
left in them:

* `GetTableMetadata` of a table without snapshots reports snapshot 0 and resolves
  it again for the partitions: a first commit in between shows through, and the
  answer names snapshot 0 with the partitions of snapshot 1.
  `MetadataIsOneSnapshot` excludes it.
* A walk at snapshot 0 resolves it for every page and may mix two snapshots.
  `WalkIsComplete` says what such a walk still guarantees.
* The first transaction to end unpins its read snapshot for all others that read
  it, because the pins are a set; nothing asks for them. `NoStrayPins` says only
  that no pin stays too long.
* A row of `transactions` has an id from the database, the client has one from
  memory. After a restart, a failed `INSERT`, or two `BeginTransaction` whose
  `INSERT`s come in the other order than their ids, the handlers update another
  transaction's row, or none: a row may say "committed" of a transaction that
  never was. Nothing reads the relation.
* `AbortTransaction` answers success, and marks the row aborted, whether or not
  there was anything left to abort.
* `CommitTransaction` may fail after it has committed, and the repeated call is
  told that the transaction is not found.

## Proofs

All for any number of threads, names, requests, connections, transactions and
pages, any page size and any capacity of the cache; for any set of faults too,
unless a theorem excludes one.

| Property | Theorem | Holds provided |
|---|---|---|
| `TypeOK` (server), `SnapshotImmutable` | `TypeCorrect`, `SnapshotsImmutable`, `QueriesImmutable` | |
| `LinearHistory` | `HistoryAlwaysLinear` | no `current_read` fault |
| `CatalogImplemented` | `ServerImplementsCatalog` | no `current_read` fault |
| `SchemaHistoryComplete` | `SchemaHistoryAlways` | |
| `CacheCoherent` | `CacheAlwaysCoherent` | |
| `AckedCommitIsCurrent` | `AcknowledgedIsCurrent` | no `commit` fault |
| `ReadsExact` | `ReadsAlwaysExact` | no table is dropped or renamed |
| `MetadataIsOneSnapshot` | `MetadataAlwaysOneSnapshot` | the same, and no `statement` fault |
| `WalkIsComplete` | `WalkAlwaysComplete` | no table is renamed, no `current_read` fault |
| `ListIsChain`, `CommittedIsListed` | `ListAlwaysChain`, `CommittedAlwaysListed` | no `current_read` fault |
| `NothingLeaked` | `NothingEverLeaked` | |
| `CommitsNumbered`, `ActiveReadsPast`, `NoStrayPins` | `MvccInvariant`, and for the service `ServiceCommitsNumbered`, `ServiceReadsPast`, `ServiceNoStrayPins` | |
| `TypeOK` (manager), `RowsFollowCommits`, `EndedNeverCommits`, `AcksAreCommits` | `ServiceTypesAlways`, `RowsFollowCommitsAlways`, `EndedNeverCommitsAlways`, `AcksAreCommitsAlways` | |
| `UnlockLegal`, `LocksImplemented` | `UnlockAlwaysLegal`, `LocksAlwaysImplemented` | |
| `NoLostWakeup`, `PoolImplemented` | `NoWakeupEverLost`, `PoolAlwaysImplemented` | |
| `IteratorsValid`, `ListIsRecentUse` | `IteratorsAlwaysValid`, `ListAlwaysRecentUse` | |
| `CacheImplemented` | `CacheAlwaysImplemented` | |

Each proviso is a case in which the code does not have the property. A
`current_read` fault is a failed `SELECT` that reads as snapshot 0, and
`forked_history` shows the fork. The result of `COMMIT` is not looked at, so a
`commit` fault loses a commit that was acknowledged. Drops and renames
invalidate the cache after unlocking (`stale_after_drop`). A `statement` fault
makes `GetTableMetadata` answer with no partitions, as if the table had none.
While a client walks, renames may give the name to another table for the time of
a page and then back; and a failed `SELECT` of the current snapshot gives a page
of snapshot 0, which is empty and ends the walk. The runs that check these
properties have the same provisos, except that the proofs allow more faults, and
a walk beside drops: `read_write` has crashes and lost connections only, and
drops nothing.

### The server

**MetadataServerProofs** starts with the lemmas on the database. A name finds one row; an
update by name replaces one row; a commit changes only what reads of its own
table from its own snapshot on return (`CommitViews`); a purge only reads of its
table (`PurgeViews`).

It then proves `Safety`, that `SafetyInv` is an invariant. It is more than the
types because the steps need more. `WriteSnapshot` keeps older snapshots intact
only if the number it drew is above the table's current one; that survives the
gap between drawing and writing only because the thread holds the name
exclusively; and that needs the lock discipline and the label of every thread.
So the invariant is `TypeOK`, `OpInv` (a thread is where the handler of its
request takes it), `LockInv` (locks exclude, a thread has the lock its label
needs, also while it replies to a read or a commit), `DbInv` (unique names and
ids, ids below their sequences), `WriteInv` and `AlterInv` (a drawn snapshot
number or schema version is still the next one). Each lemma has one case per
action; `TablesStep` says that a step changes the row of a name only if its
thread holds that name, which carries the facts about the other threads over.

**CatalogProofs** first shows that the reading handlers disturb none of it: a
query changes at most its own lock and its own connection (`QueryEffect`), and
its thread serves nothing else (`OneRequest`). The rest of it is about the
relations. `Writers` and `Effects` name the few steps that write one and say
what each does to all of them, so that the later lemmas have five cases and not
forty. `SchemaHistoryComplete` is inductive with `HistoryInv`, `LinearHistory`
with `ParentInv` (the parent a commit has validated is still the current
snapshot when it is written) and `RowsInv` (no row of a table is numbered above
its current snapshot, no snapshot twice). The refinement follows from the same
facts: each of those steps is one operation of `VersionedCatalog` under the
mapping `VisibleCatalog` (`CreateImplements`, `RowStepImplements`,
`CommitImplements`, `PurgeImplements`), every other step leaves the visible
catalog as it is, a restart included. The commit is the long case: old views
keep their contents by `CommitViews`, and the new view is the old one with the
commit's files (`CommitShows`).

**HandlerProofs** is about what handlers see. `CacheCoherent` needs `FillInv`:
what a reader has queried is still what the query returns when it puts it into
the cache, because it still holds the name. `AckedCommitIsCurrent` needs
`AckInv`, which says it from the write on, while the cache entries are still to
go. `ReadsExact` and `MetadataIsOneSnapshot` rest on four facts: no drop or
rename is under way (`RewriteInv`); an entry of the cache is exact unless a
commit on that name is about to invalidate it (`CacheExact`), stronger than
`CacheCoherent` in that the one thread excused holds the lock; so a hit under
the shared lock is exact and the answer stays so (`ReplyInv`); and
`GetTableMetadata` asks for the snapshot it reports (`ReportInv`).
`NothingLeaked` needs `HoldInv`, which says at every label whether a thread may
have a connection, and counts them.

### Listings and walks

**QueryProofs** proves the properties of `QueryService`.

For the listings, `ListInv` adds to the two properties the types of a query
(`QueryTypeOK`), that every snapshot belongs to a table, because purging a table
deletes its snapshots (`OwnedInv`), and that what the client had seen of its
table when it asked is still there as long as the table is (`SeenInv`). The
answer is then settled in one state, that of the second statement.
`LinearHistory` makes a table's rows a chain (`TableHistory`); sorted by number
and cut at the limit they are its newest part (`ListingChain`).
`build_snapshot_chain` follows parents through the rows; in the model it is a
recursive function. `ChainBuilt` shows that it satisfies its defining equation
and `ChainGivenBack`, by least counterexample, that its value on such a listing
is the listing, and no more is needed of the recursion.

For the walks, `WalkInv` says of every query whose name still stands for the
table it asked about that this table has only moved forward (`Stands`) and that
the rows received so far have no gaps (`Gapless`): all come from some snapshot
the client may be shown (`Views`), and with a row the client has every partition
of a lower number that is in all of those snapshots. A commit only adds a
snapshot to the views (`ViewsGrow`, from the lemma behind `SnapshotImmutable`),
which makes "in some" weaker and "in all" stronger. A drop ends the obligation
for good: without renames the name never stands for that table again
(`NameStood`). A page is the beginning of what follows the last row received
(`PageBegins`), so it leaves no gap (`GaplessPage`), and when it is empty
nothing follows. That uses that the page limit counts a finite set, which is
`NumberedInv`: partition ids are distinct and bounded by their sequence.

### The LRU cache

**LruProofs**: `LruInvariant` says that `LruInv`, the types, `IteratorsValid` and
`RecencyInv`, is inductive for any capacity, keys and values. `RecencyInv` relates
the list to the history of calls: its keys are distinct and stand in the order in
which they were last used. Moving a node to the front, evicting the last and
filtering keep that order; the lemmas on positions and on filtered sequences are
in **OrderingProofs**, where counting and a least counterexample take the place of
induction. The refinement of `PartitionCache` maps the list and the map to the
function from keys to values, and each call to a hit, a miss, a fill with or
without an eviction, or an invalidation.

### Transactions

**TransactionProofs**: `MvccInvariant` adds to the manager's three properties that the thread
that keeps the mutex is the one inside `commit_transaction`, that its transaction
stays registered and the counter does not move under it (`MutexInv`), and that
the id of a transaction being begun is new to everyone else (`BeginInv`).

Every step of `TransactionService` is a step of
`MvccManager`, a stutter, or the start of a new process (`ServiceStep`), so the
manager's invariant holds under the handlers and across restarts.
`RowsFollowCommits` needs `MarkInv`, that a handler about to mark a row committed
has the commit of its own request behind it, and `RowInv`, that a new row is new.
`EndedNeverCommits` needs `EndInv`: a transaction that ended is out of the table
and not on its way into it. A commit number goes only to one that is in the table
(`MutexInv`); and what leaves the table under the mutex has no number yet, because
the thread that gave it one would still have the mutex (`ActiveUnnumbered`). `AcksAreCommits` compares two counts; it needs `CallInv`, that
a thread is inside the manager only for the handler that called it, so that a
commit made and not yet answered is counted once.

### Locks and connections

**ResourceProofs**: `ResourcesInv` says that the registry gives each name one
mutex for good and that a call in progress has the mutex of its name
(`RegistryInv`), that mutexes and guards agree on who holds what (`GuardInv`),
that a thread is in the lock manager or in the pool and only while its handler
runs (`StageInv`), and that what it has yet to lock shared it does not hold
(`OnceInv`). From it, a destructor finds its mutex as its guard left it, and
every step is an acquire, a release or a stutter of `TableLocks`, where the
holders of a name are read off its mutex. The pool needs less:
`PoolAlwaysImplemented` follows from its types, since a connection is in the queue
or in one handle, and `NoLostWakeup`, which counts the woken threads
against the free connections, is inductive beside them.

### Assumptions, and what is only model-checked

The assumptions are those of the modules: `NoThread` is no thread, `Preloaded` is
a sequence of distinct names, requests and queries are well-typed, pool and cache
are not empty, handlers share a lock once. The runs evaluate them. The inductive
invariants were checked with TLC on the runs above before they were proved.

Only model-checked are `RequestsTerminate`, `HandlersReturn` and `HandlersFinish`:
they are liveness properties, which need fairness and `ENABLED`, and those are out
of the installed prover's reach. Every invariant, action property and refinement
of the passing runs is proved.

## Not modelled

* `ListTables` and `list_tables`: one statement that changes nothing. It pages
  with `OFFSET`, so a table dropped between two pages moves the ones after it;
  nothing claims otherwise.
* `SchemaStore`'s history queries, the cache statistics and the accessors, which
  no handler calls or which only report.
* A cache of capacity 0, for which `put` reads the back of an empty list.
* Moves of connection handles and guards: each hands over inside one expression.
* Configuration, signal handling, the gRPC builder, the seed script.
  `cleanup_loop` is defined in `main.cpp` and never started; the models let the
  cleanup it would do happen or not.
* A `BEGIN` that fails on a connection that stays usable. Its result is ignored
  (`partition_registry.cpp:105`, `catalog_manager.cpp:51` and `:93`), as that of
  `COMMIT` is; every statement after it would commit by itself, and
  `CatalogImplemented` would not hold. The faults include a failing statement
  and a failing `COMMIT`, not this.
* Two servers on one database: the locks are inside one process and nothing in
  the code coordinates two.

## What is left open

* Liveness for every value of the constants.
* `AlterTable` validates a change under one lock and writes it under another.
  Against which schema it is validated is not part of any property: no document
  says what a change that was valid when it was checked has to be when it is
  written.
* `ListTables` and `cleanup_loop`, see above.
