------------------------- MODULE PartitionRegistry --------------------------
(***************************************************************************)
(* PartitionRegistry: cached reads of a table's partitions at a snapshot,  *)
(* and commit_snapshot, the optimistic commit of a new one.                *)
(***************************************************************************)
EXTENDS ServerThreads

\* What get_current_snapshot returns: a failed SELECT reads as snapshot 0.
CurrentSnapshotRead(n) ==
    {get_current_snapshot(n)} \cup {s \in {0} : "current_read" \in Faults}

Parent(th) == req[th].snap

Key(th) == make_cache_key(Name(th), snap[th])

-----------------------------------------------------------------------------
(* get_partitions *)

\* Variant: reads take no lock.
ReadUnlocked(th) ==
    /\ At(th, "getPartitions")
    /\ Goto(th, "resolve")
    /\ UNCHANGED <<dbVars, lockVars, cache, localVars, poolVars, latest>>

LockForRead(th) ==
    /\ At(th, "getPartitions")
    /\ acquire_shared(th, Name(th))
    /\ Goto(th, "resolve")
    /\ UNCHANGED <<dbVars, cache, localVars, poolVars, latest>>

\* snapshot_id, or the commit counter when the client sent 0.
ReadSnapshot(th) == IF snap[th] = 0 THEN latest ELSE snap[th]

ResolveInMemory(th) ==
    /\ At(th, "resolve")
    /\ ReadSnapshot(th) # 0
    /\ snap' = [snap EXCEPT ![th] = ReadSnapshot(th)]
    /\ Goto(th, "lookup")
    /\ UNCHANGED <<dbVars, lockVars, cache, poolVars, latest,
                   req, reported, rows, version, status>>

ResolveFromDb(th) ==
    /\ At(th, "resolve")
    /\ ReadSnapshot(th) = 0
    /\ acquire_briefly
    /\ \E s \in CurrentSnapshotRead(Name(th)) : snap' = [snap EXCEPT ![th] = s]
    /\ Goto(th, "lookup")
    /\ UNCHANGED <<dbVars, lockVars, cache, latest,
                   req, reported, rows, version, status>>

CacheHit(th) ==
    /\ At(th, "lookup")
    /\ Cached(Key(th))
    /\ rows' = [rows EXCEPT ![th] = cache[Key(th)]]
    /\ Outcome(th, "ok")
    /\ UNCHANGED <<dbVars, lockVars, cache, poolVars, latest,
                   req, snap, reported, version>>

CacheMiss(th) ==
    /\ At(th, "lookup")
    /\ ~Cached(Key(th))
    /\ Goto(th, "query")
    /\ UNCHANGED <<dbVars, lockVars, cache, localVars, poolVars, latest>>

QueryRows(th) ==
    /\ At(th, "query")
    /\ get_table(Name(th)) # {}
    /\ acquire(th)
    /\ rows' = [rows EXCEPT ![th] = query_partitions(Name(th), snap[th])]
    /\ Goto(th, "put")
    /\ UNCHANGED <<dbVars, lockVars, cache, latest,
                   req, snap, reported, version, status>>

\* GetPartitions answers NOT_FOUND to std::nullopt, GetTableMetadata answers
\* with no partitions.
QueryNothing(th) ==
    /\ At(th, "query")
    /\ get_table(Name(th)) = {} \/ "statement" \in Faults
    /\ acquire(th)
    /\ Outcome(th, IF req[th].op = "meta" THEN "ok" ELSE "notfound")
    /\ UNCHANGED <<dbVars, lockVars, cache, latest,
                   req, snap, reported, rows, version>>

FillCache(th) ==
    /\ At(th, "put")
    /\ put(Key(th), rows[th])
    /\ Outcome(th, "ok")
    /\ UNCHANGED <<dbVars, lockVars, poolVars, latest,
                   req, snap, reported, rows, version>>

-----------------------------------------------------------------------------
(* commit_snapshot *)

\* Variant: commits take the lock shared.
LockSharedForCommit(th) ==
    /\ At(th, "commitSnapshot")
    /\ acquire_shared(th, Name(th))
    /\ Goto(th, "validate")
    /\ UNCHANGED <<dbVars, cache, localVars, poolVars, latest>>

LockForCommit(th) ==
    /\ At(th, "commitSnapshot")
    /\ acquire_exclusive(th, Name(th))
    /\ Goto(th, "validate")
    /\ UNCHANGED <<dbVars, cache, localVars, poolVars, latest>>

validate_parent_snapshot(parent, current) == parent = current

\* Variant: a conflict is retried with the same parent.
RetryParent(th) ==
    /\ At(th, "validate")
    /\ \E current \in CurrentSnapshotRead(Name(th)) :
          \/ /\ validate_parent_snapshot(Parent(th), current)
             /\ acquire(th)
             /\ Goto(th, "insertSnapshot")
          \/ /\ ~validate_parent_snapshot(Parent(th), current)
             /\ acquire_briefly
             /\ UNCHANGED pc
    /\ UNCHANGED <<dbVars, lockVars, cache, localVars, latest>>

ValidateParent(th) ==
    /\ At(th, "validate")
    /\ acquire(th)
    /\ \E current \in CurrentSnapshotRead(Name(th)) :
          \/ /\ validate_parent_snapshot(Parent(th), current)
             /\ Goto(th, "insertSnapshot")
             /\ UNCHANGED status
          \/ /\ ~validate_parent_snapshot(Parent(th), current)
             /\ Outcome(th, "failed")
    /\ UNCHANGED <<dbVars, lockVars, cache, latest,
                   req, snap, reported, rows, version>>

\* Variant: insert_snapshot does not look whether the table exists.
DrawUnchecked(th) ==
    /\ At(th, "insertSnapshot")
    /\ snapshot_seq' = snapshot_seq + 1
    /\ snap' = [snap EXCEPT ![th] = snapshot_seq + 1]
    /\ Goto(th, "write")
    /\ UNCHANGED <<tables, snapshots, partitions, schema_history, table_seq,
                   partition_seq, lockVars, cache, poolVars, latest,
                   req, reported, rows, version, status>>

\* BEGIN and insert_snapshot.  The row is not visible to others before COMMIT,
\* the number is drawn for good.
DrawSnapshot(th) ==
    /\ At(th, "insertSnapshot")
    /\ get_table(Name(th)) # {}
    /\ snapshot_seq' = snapshot_seq + 1
    /\ snap' = [snap EXCEPT ![th] = snapshot_seq + 1]
    /\ Goto(th, "write")
    /\ UNCHANGED <<tables, snapshots, partitions, schema_history, table_seq,
                   partition_seq, lockVars, cache, poolVars, latest,
                   req, reported, rows, version, status>>

DrawNothing(th) ==
    /\ At(th, "insertSnapshot")
    /\ \/ get_table(Name(th)) = {} /\ UNCHANGED snapshot_seq
       \/ "statement" \in Faults /\ snapshot_seq' \in snapshot_seq .. snapshot_seq + 1
    /\ Outcome(th, "failed")
    /\ UNCHANGED <<tables, snapshots, partitions, schema_history, table_seq,
                   partition_seq, lockVars, cache, poolVars, latest,
                   req, snap, reported, rows, version>>

\* The inserts, the deletions, the pointer and COMMIT.  The deletions see the
\* rows the same transaction inserted.
WriteSnapshot(th) ==
    LET n  == Name(th)
        id == get_table_id(n)
    IN  /\ At(th, "write")
        /\ snapshots' = insert_snapshot(id, snap[th], Parent(th))
        /\ partitions' = mark_partitions_deleted(
                            insert_partitions(id, snap[th], req[th].adds, partition_seq),
                            id, req[th].dels, snap[th])
        /\ tables' = update_table_snapshot(n, snap[th])
        /\ partition_seq' = partition_seq + Len(req[th].adds)
        /\ Goto(th, "invalidate")
        /\ UNCHANGED <<schema_history, table_seq, snapshot_seq, lockVars, cache,
                       localVars, poolVars, latest>>

\* Variant: the snapshot row was committed on its own and stays.
RollbackPartly(th) ==
    /\ At(th, "write")
    /\ "statement" \in Faults
    /\ snapshots' = insert_snapshot(get_table_id(Name(th)), snap[th], Parent(th))
    /\ Outcome(th, "failed")
    /\ UNCHANGED <<tables, partitions, schema_history, seqVars, lockVars, cache,
                   poolVars, latest, req, snap, reported, rows, version>>

\* A statement fails and the transaction is rolled back.
RollbackSnapshot(th) ==
    /\ At(th, "write")
    /\ "statement" \in Faults
    /\ partition_seq' \in partition_seq .. partition_seq + Len(req[th].adds)
    /\ Outcome(th, "failed")
    /\ UNCHANGED <<tables, snapshots, partitions, schema_history, table_seq,
                   snapshot_seq, lockVars, cache, poolVars, latest,
                   req, snap, reported, rows, version>>

\* COMMIT fails; its result is not looked at.
LoseSnapshot(th) ==
    /\ At(th, "write")
    /\ "commit" \in Faults
    /\ partition_seq' = partition_seq + Len(req[th].adds)
    /\ Goto(th, "invalidate")
    /\ UNCHANGED <<tables, snapshots, partitions, schema_history, table_seq,
                   snapshot_seq, lockVars, cache, localVars, poolVars, latest>>

\* Variant: the cache is left alone after a commit.
InvalidateNothing(th) ==
    /\ At(th, "invalidate")
    /\ Outcome(th, "ok")
    /\ UNCHANGED <<dbVars, lockVars, cache, poolVars, latest,
                   req, snap, reported, rows, version>>

InvalidateAfterCommit(th) ==
    /\ At(th, "invalidate")
    /\ invalidate_table_cache(Name(th))
    /\ Outcome(th, "ok")
    /\ UNCHANGED <<dbVars, lockVars, poolVars, latest,
                   req, snap, reported, rows, version>>

=============================================================================
