--------------------------- MODULE MetadataServer ---------------------------
(***************************************************************************)
(* The metadata server: gRPC handlers on several threads over one          *)
(* CatalogManager, one PartitionRegistry, one LockManager, one connection  *)
(* pool and one database.                                                  *)
(***************************************************************************)
EXTENDS PartitionRegistry, CatalogManager

CONSTANTS
    MaxRequests,  \* bound: requests accepted in one behaviour
    MaxTxns       \* bound: transactions committed in one behaviour

ASSUME BoundAssumption == MaxRequests \in Nat /\ MaxTxns \in Nat

VARIABLE issued   \* requests accepted so far

vars == <<serverVars, issued>>

TypeOK ==
    /\ DbTypeOK
    /\ LockTypeOK
    /\ CacheTypeOK
    /\ \A k \in DOMAIN cache : cache[k] \subseteq PartitionRow
    /\ ThreadTypeOK
    /\ issued \in Nat

Init ==
    /\ DbInit
    /\ LockInit
    /\ CacheInit
    /\ ThreadInit
    /\ issued = 0

-----------------------------------------------------------------------------
(* Handlers *)

\* The component call each handler starts with; an alteration that is not
\* implemented has none and goes straight to the invalidation.
Entry == [create |-> "createTable", alter |-> "getCurrentSchema",
          rename |-> "renameTable", spec |-> "trailing", drop |-> "dropTable",
          get |-> "getPartitions", meta |-> "getTable",
          commit |-> "commitSnapshot"]

\* GetPartitions passes the client's snapshot_id on.
Start(th) ==
    /\ At(th, "idle")
    /\ issued < MaxRequests
    /\ \E r \in Requests :
          /\ req' = [req EXCEPT ![th] = r]
          /\ Goto(th, Entry[r.op])
          /\ snap' = [snap EXCEPT ![th] = IF r.op = "get" THEN r.snap ELSE 0]
    /\ issued' = issued + 1
    /\ UNCHANGED <<dbVars, lockVars, cache, poolVars, latest,
                   reported, rows, version, status>>

\* Variant: the partitions are asked for with the client's snapshot.
PickForReportOnly(th) ==
    /\ At(th, "pick")
    /\ reported' = [reported EXCEPT ![th] =
                      IF req[th].snap # 0 THEN req[th].snap
                      ELSE IF latest # 0 THEN latest ELSE @]
    /\ snap' = [snap EXCEPT ![th] = req[th].snap]
    /\ Goto(th, "getPartitions")
    /\ UNCHANGED <<dbVars, lockVars, cache, poolVars, latest,
                   req, rows, version, status, issued>>

\* GetTableMetadata between get_table and get_partitions: the client's
\* snapshot, else the commit counter, else the snapshot of the row it read.
PickSnapshot(th) ==
    LET wanted == IF req[th].snap = 0 THEN latest ELSE req[th].snap
        picked == IF wanted = 0 THEN reported[th] ELSE wanted
    IN  /\ At(th, "pick")
        /\ reported' = [reported EXCEPT ![th] = picked]
        /\ snap' = [snap EXCEPT ![th] = picked]
        /\ Goto(th, "getPartitions")
        /\ UNCHANGED <<dbVars, lockVars, cache, poolVars, latest,
                       req, rows, version, status, issued>>

\* Variant: the rename branch of AlterTable returns early.
InvalidatesUnlessRenamed(th) ==
    \/ req[th].op \in {"alter", "spec"}
    \/ req[th].op = "drop" /\ status[th] = "ok"

\* AlterTable invalidates whatever came of it, DropTable only after success.
InvalidatesAfterUnlock(th) ==
    \/ req[th].op \in {"alter", "rename", "spec"}
    \/ req[th].op = "drop" /\ status[th] = "ok"

\* The component call returns: its connection and its locks are released.
Release(th) ==
    /\ At(th, "reply")
    /\ release(th)
    /\ release_all(th)
    /\ \/ /\ InvalidatesAfterUnlock(th)
          /\ Goto(th, "trailing")
          /\ UNCHANGED localVars
       \/ /\ ~InvalidatesAfterUnlock(th)
          /\ Return(th)
    /\ UNCHANGED <<dbVars, cache, latest, issued>>

InvalidateAfterUnlock(th) ==
    /\ At(th, "trailing")
    /\ invalidate_table_cache(Name(th))
    /\ Return(th)
    /\ UNCHANGED <<dbVars, lockVars, poolVars, latest, issued>>

-----------------------------------------------------------------------------
(* The environment *)

\* th is about to call acquire().
NeedsConnection(th) ==
    \/ pc[th] \in {"query", "validate", "create", "readTable", "checkSchema",
                   "readVersion", "rename", "drop"}
    \/ At(th, "resolve") /\ ReadSnapshot(th) = 0

\* Variant: locks are released by hand, and not when an exception passes.
AcquireThrowsLocked(th) ==
    /\ "connect" \in Faults
    /\ NeedsConnection(th)
    /\ acquire_fails
    /\ Return(th)
    /\ UNCHANGED <<dbVars, lockVars, cache, latest, issued>>

\* The connection is broken, cannot be reset and cannot be replaced: acquire
\* throws, the pool has one connection less, the exception ends the handler.
AcquireThrows(th) ==
    /\ "connect" \in Faults
    /\ NeedsConnection(th)
    /\ acquire_fails
    /\ release_all(th)
    /\ Return(th)
    /\ UNCHANGED <<dbVars, cache, latest, issued>>

\* A request to CommitTransaction moves the commit counter, whatever the tables
\* hold; TransactionService models its steps.
CommitTransaction ==
    /\ latest < MaxTxns /\ issued < MaxRequests
    /\ latest' = latest + 1
    /\ issued' = issued + 1
    /\ UNCHANGED <<dbVars, lockVars, cache, pc, localVars, poolVars>>

\* The process dies.  The database rolls open transactions back and is all that
\* is left; requests in progress are never answered.
Restart ==
    /\ "crash" \in Faults
    /\ \E th \in Threads : pc[th] # "idle"
    /\ readers' = [n \in Names |-> {}]
    /\ writer' = [n \in Names |-> NoThread]
    /\ cache' = Without(DOMAIN cache)
    /\ ThreadReset
    /\ UNCHANGED <<dbVars, issued>>

\* Every request of the behaviour has been answered.
Quiet ==
    /\ issued = MaxRequests
    /\ \A th \in Threads : At(th, "idle")
    /\ UNCHANGED vars

-----------------------------------------------------------------------------
RegistryStep(th) ==
    \/ LockForRead(th)    \/ ResolveInMemory(th) \/ ResolveFromDb(th)
    \/ CacheHit(th)       \/ CacheMiss(th)       \/ QueryRows(th)
    \/ QueryNothing(th)   \/ FillCache(th)       \/ LockForCommit(th)
    \/ ValidateParent(th) \/ DrawSnapshot(th)    \/ DrawNothing(th)
    \/ WriteSnapshot(th)  \/ RollbackSnapshot(th) \/ LoseSnapshot(th)
    \/ InvalidateAfterCommit(th)

CatalogStep(th) ==
    \/ LockForCreate(th) \/ CreateTable(th)  \/ CreateFails(th)
    \/ LockForGet(th)    \/ ReadTable(th)
    \/ LockForSchema(th) \/ CheckSchema(th)
    \/ LockForAlter(th)  \/ ReadVersion(th)  \/ AlterSchema(th) \/ AlterFails(th)
    \/ LockForRename(th) \/ LockNewName(th)  \/ LockSameName(th)
    \/ RenameTable(th)   \/ RenameFails(th)
    \/ LockForDrop(th)   \/ DropTable(th)    \/ DropFails(th)

\* A step of a request in progress.
HandlerStep(th) ==
    \/ (RegistryStep(th) \/ CatalogStep(th)) /\ UNCHANGED issued
    \/ PickSnapshot(th) \/ Release(th) \/ InvalidateAfterUnlock(th)
    \/ AcquireThrows(th)

Next ==
    \/ \E th \in Threads : Start(th) \/ HandlerStep(th)
    \/ CommitTransaction
    \/ Restart
    \/ Quiet

Spec == Init /\ [][Next]_vars

\* Every thread that can run does; nothing forces a client to send a request.
\* A lock or a connection is granted some time after it stays free: with
\* finitely many requests that is all a waiting thread needs.
FairSpec == Spec /\ \A th \in Threads : WF_vars(HandlerStep(th))

-----------------------------------------------------------------------------
(* Safety *)

\* The cached partitions of n are about to be invalidated: by the commit that
\* changed them, or after the locks are gone by AlterTable or DropTable.
InvalidationPending(n) ==
    \E th \in Threads :
       /\ pc[th] # "idle" /\ Name(th) = n
       /\ \/ At(th, "invalidate")
          \/ pc[th] \in {"reply", "trailing"} /\ InvalidatesAfterUnlock(th)

\* The partition cache agrees with the database.  Outside the moments when an
\* invalidation of the table is on its way, a cached entry holds what the query
\* behind it would return now, and its table exists.  get_partitions relies on
\* it: it never asks the database about a key it finds.
CacheCoherent ==
    \A k \in DOMAIN cache :
       ~InvalidationPending(k[1]) =>
          /\ get_table(k[1]) # {}
          /\ cache[k] = query_partitions(k[1], k[2])

\* The snapshots of a table are one chain: every snapshot's parent is the
\* snapshot committed just before it, and the table points to the last one.
\* This is what validating the parent under the exclusive lock is for: two
\* commits from the same parent, or a commit based on an old snapshot, would
\* fork or reorder the chain.
LinearHistory ==
    /\ \A a \in snapshots :
          /\ a.parent_snapshot_id < a.snapshot_id
          /\ \A b \in snapshots :
                b.table_id = a.table_id =>
                   ~(a.parent_snapshot_id < b.snapshot_id /\ b.snapshot_id < a.snapshot_id)
    /\ \A t \in tables : \A a \in snapshots :
          a.table_id = t.table_id =>
             /\ a.snapshot_id <= t.current_snapshot_id
             /\ a.parent_snapshot_id = 0 \/
                \E b \in snapshots : b.table_id = t.table_id /\ b.snapshot_id = a.parent_snapshot_id
    /\ \A t \in tables : t.current_snapshot_id = 0 \/
          \E a \in snapshots : a.table_id = t.table_id /\ a.snapshot_id = t.current_snapshot_id

\* A commit that is acknowledged has happened: when commit_snapshot reports
\* success, still under its lock, the snapshot it names is in the table's
\* history with the parent the client gave and is the table's current one.
AckedCommitIsCurrent ==
    \A th \in Threads :
       At(th, "reply") /\ req[th].op = "commit" /\ status[th] = "ok" =>
          /\ get_current_snapshot(Name(th)) = snap[th]
          /\ insert_snapshot(get_table_id(Name(th)), snap[th], Parent(th)) = snapshots

\* A successful GetPartitions returns exactly the partitions of the table at
\* the snapshot it settled on, whether they came from the cache or from the
\* database, and whatever commits ran meanwhile.
ReadsExact ==
    \A th \in Threads :
       At(th, "reply") /\ req[th].op = "get" /\ status[th] = "ok" =>
          rows[th] = query_partitions(Name(th), snap[th])

\* GetTableMetadata describes one snapshot, although it reads the table and the
\* partitions under two locks: its partitions are those of the snapshot it
\* reports, whatever was committed in between.  (Unless it reports snapshot 0,
\* which get_partitions then resolves a second time.)
MetadataIsOneSnapshot ==
    \A th \in Threads :
       /\ At(th, "reply") /\ req[th].op = "meta" /\ status[th] = "ok"
       /\ reported[th] # 0 /\ get_table(Name(th)) # {}
       => rows[th] = query_partitions(Name(th), reported[th])

\* The schema history of a table has one row for every version after the
\* first, up to the version in the tables row, and the last row holds the
\* table's schema.  alter_table_schema reads the version, adds one and writes
\* both relations in one transaction.
SchemaHistoryComplete ==
    \A t \in tables :
       LET H == {h \in schema_history : h.table_id = t.table_id} IN
       /\ {h.schema_version : h \in H} = 2 .. t.schema_version
       /\ \A g, h \in H : g.schema_version = h.schema_version => g = h
       /\ \A h \in H : h.schema_version = t.schema_version => h.schema = t.schema

\* Nothing is leaked: the pool never holds more connections than it opened, and
\* a thread that is not inside a component call holds no connection and no
\* lock, on the error paths too.
NothingLeaked ==
    /\ available + Cardinality(conns) <= PoolSize
    /\ \A th \in Threads :
          pc[th] \in {"idle", "trailing", "pick", "alterTable"} =>
             /\ th \notin conns
             /\ \A n \in Names : th \notin readers[n] /\ writer[n] # th

\* A snapshot is immutable: as long as a table exists, no step changes what a
\* read at its current snapshot, or at an earlier one, returns.
SnapshotImmutable ==
    [][\A t \in tables : \A s \in 0 .. t.current_snapshot_id :
          (\E u \in tables' : u.table_id = t.table_id) =>
             View(t.table_id, s)' = View(t.table_id, s)]_vars

\* The catalog a client sees behind the relations.
VisibleCatalog ==
    [id \in {t.table_id : t \in tables} |->
       LET t == CHOOSE r \in tables : r.table_id = id
           S == {a \in snapshots : a.table_id = id}
       IN  [name |-> t.table_name, dropped |-> t.is_deleted, schema |-> t.schema,
            version |-> t.schema_version, current |-> t.current_snapshot_id,
            schemas |-> {<<h.schema_version, h.schema>> :
                            h \in {g \in schema_history : g.table_id = id}},
            log |-> [s \in {a.snapshot_id : a \in S} |->
                       [parent |-> (CHOOSE a \in S : a.snapshot_id = s).parent_snapshot_id,
                        rows |-> View(id, s)]]]]

Promised == INSTANCE VersionedCatalog WITH catalog <- VisibleCatalog

\* The server implements the versioned catalog: every request, however its steps
\* interleave with others and wherever it fails, is one atomic operation on the
\* relations or none.
CatalogImplemented == Promised!CatalogSpec

-----------------------------------------------------------------------------
(* Liveness *)

\* Every request is answered: no handler waits forever for a lock or for a
\* connection that another handler keeps.
RequestsTerminate ==
    \A th \in Threads : pc[th] # "idle" ~> pc[th] = "idle"

-----------------------------------------------------------------------------
(* What the documentation says and the code does not do *)

\* A commit that adds a partition makes it visible: the partitions a successful
\* commit adds are among those of the snapshot it creates, also when it
\* replaces an old partition of the same key.
AddedPartitionsVisible ==
    \A th \in Threads :
       At(th, "reply") /\ req[th].op = "commit" /\ status[th] = "ok" =>
          \A i \in DOMAIN req[th].adds :
             \E p \in query_partitions(Name(th), snap[th]) :
                p.partition_key = req[th].adds[i]

\* GetTableMetadata with snapshot_id 0 returns the partitions of the table's
\* latest snapshot.
ZeroReadsLatest ==
    \A th \in Threads :
       At(th, "reply") /\ req[th].op = "meta" /\ req[th].snap = 0 /\ status[th] = "ok" =>
          rows[th] = query_partitions(Name(th), get_current_snapshot(Name(th)))

\* A read of an existing table returns partitions of that table, not of an
\* earlier one of the same name.
ReadsOwnTable ==
    \A th \in Threads :
       At(th, "reply") /\ req[th].op = "get" /\ get_table(Name(th)) # {} =>
          \A p \in rows[th] : p.table_id = get_table_id(Name(th))

-----------------------------------------------------------------------------
(* The inductive invariant *)

ReadLabels      == {"resolve", "lookup", "query", "put"}
CommitLabels    == {"validate", "insertSnapshot", "write", "invalidate"}
SharedLabels    == ReadLabels \cup {"readTable", "checkSchema"}
ExclusiveLabels == CommitLabels \cup
                   {"create", "readVersion", "alter", "lockNew", "rename", "drop"}

\* A thread is only where the handler of its request takes it.
OpInv ==
    \A th \in Threads :
       /\ pc[th] \in ReadLabels \cup {"getPartitions"} => req[th].op \in {"get", "meta"}
       /\ pc[th] \in {"getTable", "readTable", "pick"} => req[th].op = "meta"
       /\ pc[th] \in CommitLabels \cup {"commitSnapshot"} => req[th].op = "commit"
       /\ pc[th] \in {"createTable", "create"} => req[th].op = "create"
       /\ pc[th] \in {"getCurrentSchema", "checkSchema", "alterTable",
                      "readVersion", "alter"} => req[th].op = "alter"
       /\ pc[th] \in {"renameTable", "lockNew", "rename"} => req[th].op = "rename"
       /\ pc[th] \in {"dropTable", "drop"} => req[th].op = "drop"
       /\ pc[th] = "trailing" => InvalidatesAfterUnlock(th)

\* Locks exclude, and a thread inside a component call has the lock it took.
LockInv ==
    /\ \A n \in Names : writer[n] # NoThread => readers[n] = {}
    /\ \A th \in Threads :
          /\ pc[th] \in SharedLabels => th \in readers[Name(th)]
          /\ pc[th] \in ExclusiveLabels => writer[Name(th)] = th
          /\ At(th, "rename") => writer[req[th].to] = th /\ req[th].to # Name(th)
          /\ At(th, "reply") /\ req[th].op = "commit" => writer[Name(th)] = th
          /\ At(th, "reply") /\ req[th].op \in {"get", "meta"} => th \in readers[Name(th)]

\* The number a commit has drawn is newer than the table's snapshot, and stays
\* so until it is written: nobody else moves the pointer meanwhile.
WriteInv ==
    \A th \in Threads : At(th, "write") =>
       /\ get_table(Name(th)) # {}
       /\ get_current_snapshot(Name(th)) < snap[th]
       /\ snap[th] <= snapshot_seq

\* The version alter_table_schema is about to write follows the table's version.
AlterInv ==
    \A th \in Threads : At(th, "alter") =>
       \E t \in get_table(Name(th)) : version[th] = t.schema_version + 1

\* The parent a commit has validated is still current when it is written.
ParentInv ==
    \A th \in Threads : pc[th] \in {"insertSnapshot", "write"} =>
       Parent(th) = get_current_snapshot(Name(th))

\* What a reader has queried is still what the query returns when it is cached.
FillInv ==
    \A th \in Threads : At(th, "put") =>
       /\ get_table(Name(th)) # {}
       /\ rows[th] = query_partitions(Name(th), snap[th])

\* An acknowledged commit, also while its cache entries go: its row is in the
\* history and the table points to it.
AckInv ==
    \A th \in Threads :
       \/ At(th, "invalidate")
       \/ At(th, "reply") /\ req[th].op = "commit" /\ status[th] = "ok"
       =>
          /\ get_table(Name(th)) # {}
          /\ get_current_snapshot(Name(th)) = snap[th]
          /\ [snapshot_id |-> snap[th], table_id |-> get_table_id(Name(th)),
              parent_snapshot_id |-> Parent(th)] \in snapshots

\* Schema versions start at 1, and a table id is never given twice: the rows of
\* a purged table cannot turn up in a new one.
HistoryInv ==
    /\ \A t \in tables : t.schema_version >= 1
    /\ \A h \in schema_history : h.table_id <= table_seq

\* A table's snapshots, and the snapshots at which its partitions were added
\* and deleted, are no newer than the one it points to, and a snapshot has one
\* row.
RowsInv ==
    /\ \A p \in partitions : p.table_id <= table_seq
    /\ \A t \in tables : \A p \in partitions : p.table_id = t.table_id =>
          /\ 0 < p.snapshot_id /\ p.snapshot_id <= t.current_snapshot_id
          /\ p.is_deleted => p.deleted_snapshot_id <= t.current_snapshot_id
    /\ \A t \in tables : \A a \in snapshots :
          a.table_id = t.table_id => a.snapshot_id <= t.current_snapshot_id
    /\ \A a, b \in snapshots :
          a.table_id = b.table_id /\ a.snapshot_id = b.snapshot_id => a = b

\* Where no table is dropped or renamed, only a commit makes a cached entry
\* wrong, until it has invalidated the table under its lock.
NoRewrites == \A r \in Requests : r.op \notin {"drop", "rename"}

RewriteInv ==
    \A th \in Threads : pc[th] # "idle" => req[th].op \notin {"drop", "rename"}

CacheExact ==
    \A k \in DOMAIN cache :
       (\A th \in Threads : ~(At(th, "invalidate") /\ Name(th) = k[1])) =>
          /\ get_table(k[1]) # {}
          /\ cache[k] = query_partitions(k[1], k[2])

\* What a read is about to return.  GetTableMetadata answers with nothing for a
\* table that is gone, or when the query fails.
ReplyInv ==
    \A th \in Threads : At(th, "reply") /\ status[th] = "ok" =>
       /\ req[th].op = "get" => /\ get_table(Name(th)) # {}
                                /\ rows[th] = query_partitions(Name(th), snap[th])
       /\ /\ req[th].op = "meta" /\ get_table(Name(th)) # {}
          /\ "statement" \notin Faults
          => rows[th] = query_partitions(Name(th), snap[th])

\* GetTableMetadata asks for the partitions of the snapshot it reports.
ReportInv ==
    \A th \in Threads :
       /\ pc[th] \in ReadLabels \cup {"getPartitions", "reply"}
       /\ req[th].op = "meta" /\ reported[th] # 0
       => snap[th] = reported[th]

\* Outside a component call a thread holds nothing, and before its call to
\* acquire it has no connection.
EntryLabels     == {"idle", "trailing", "pick", "alterTable", "getPartitions",
                    "commitSnapshot", "createTable", "getTable",
                    "getCurrentSchema", "renameTable", "dropTable"}
NoConnection    == EntryLabels \cup
                   {"resolve", "lookup", "query", "validate", "create", "readTable",
                    "checkSchema", "readVersion", "lockNew", "rename", "drop"}

HoldInv ==
    /\ IsFiniteSet(conns)
    /\ available + Cardinality(conns) <= PoolSize
    /\ \A th \in Threads :
          /\ pc[th] \in NoConnection => th \notin conns
          /\ pc[th] \in EntryLabels =>
                \A n \in Names : th \notin readers[n] /\ writer[n] # th

SafetyInv == TypeOK /\ OpInv /\ LockInv /\ DbInv /\ WriteInv /\ AlterInv

=============================================================================
