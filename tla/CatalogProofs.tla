--------------------------- MODULE CatalogProofs ----------------------------
(***************************************************************************)
(* The queries do not disturb the server: its invariant, and with it the   *)
(* immutability of snapshots, holds beside them.  And what the relations   *)
(* hold: the schema history is complete, the snapshots of a table are one  *)
(* chain, and every step of the server is one atomic operation of          *)
(* VersionedCatalog or none.                                               *)
(***************************************************************************)
EXTENDS QueryService, MetadataServerProofs

\* What a step of a query may change: its own lock, its own connection, and
\* nothing the other handlers work on.
QueryEffect(th) ==
    /\ UNCHANGED <<dbVars, cache, pc, localVars, latest>>
    /\ \/ UNCHANGED lockVars
       \/ \E n : acquire_shared(th, n)
       \/ release_all(th)
    /\ conns' \in SUBSET Threads /\ available' \in Nat
    /\ issued' \in Nat

\* Every step of a reading handler has that effect, on a thread that serves
\* nothing else.
LEMMA QueryTouches ==
    ASSUME TypeOK, OneRequest, NEW th \in Threads, StartQuery(th) \/ QueryStep(th)
    PROVE  QueryEffect(th) /\ OneRequest' /\ At(th, "idle")
<1> USE DEF OneRequest, Asking, At, Advance, NoQuery
<1>a. conns \in SUBSET Threads /\ available \in Nat /\ issued \in Nat
  BY DEF TypeOK, ThreadTypeOK
<1>1. CASE StartQuery(th)
  BY <1>1, <1>a DEF StartQuery, QueryEffect, serverVars, poolVars
<1>2. CASE LockForPage(th)
  BY <1>2, <1>a DEF LockForPage, QueryEffect, poolVars
<1>3. CASE ResolvePage(th)
  BY <1>3, <1>a DEF ResolvePage, QueryEffect, poolVars
<1>4. CASE SelectPage(th)
  BY <1>4, <1>a DEF SelectPage, QueryEffect, acquire_briefly, poolVars
<1>5. CASE ResolveStats(th)
  BY <1>5, <1>a DEF ResolveStats, QueryEffect, poolVars
<1>6. CASE SelectStats(th)
  BY <1>6, <1>a DEF SelectStats, QueryEffect, acquire_briefly, poolVars
<1>7. CASE SelectNothing(th)
  BY <1>7, <1>a DEF SelectNothing, QueryEffect, acquire_briefly, poolVars
<1>8. CASE Identify(th)
  BY <1>8, <1>a DEF Identify, QueryEffect, acquire
<1>9. CASE SelectHistory(th)
  BY <1>9, <1>a DEF SelectHistory, QueryEffect, release
<1>10. CASE QueryThrows(th)
  BY <1>10, <1>a DEF QueryThrows, QueryEffect, acquire_fails
<1>11. CASE Answer(th)
  BY <1>11, <1>a DEF Answer, QueryEffect, vars, serverVars, poolVars
<1> QED
  BY <1>1, <1>2, <1>3, <1>4, <1>5, <1>6, <1>7, <1>8, <1>9, <1>11, <1>10 DEF QueryStep

\* A lock is taken shared where nobody writes, and a query releases its own.
LEMMA QuerySafe ==
    ASSUME SafetyInv, NEW th \in Threads, QueryEffect(th), At(th, "idle")
    PROVE  SafetyInv'
<1> USE DEF QueryEffect, dbVars, seqVars, localVars
<1>1. LockTypeOK' /\ LockInv'
  <2>a. LockTypeOK /\ LockInv
    BY DEF SafetyInv, TypeOK
  <2>b. /\ \A t \in Threads : pc'[t] = pc[t] /\ req'[t] = req[t]
        /\ \A t \in Threads : Name(t)' = Name(t)
    BY DEF Name
  <2>1. CASE UNCHANGED lockVars
    BY <2>a, <2>1 DEF LockTypeOK, LockInv, lockVars, At, Name
  <2>2. ASSUME NEW n, acquire_shared(th, n) PROVE LockTypeOK' /\ LockInv'
    <3>1. LockTypeOK'
      BY <2>a, <2>2 DEF LockTypeOK, acquire_shared
    <3>2. \A m \in Names : writer'[m] # NoThread => readers'[m] = {}
      BY <2>a, <2>2 DEF LockTypeOK, LockInv, acquire_shared
    <3>3. \A t \in Threads, m \in Names :
             (t \in readers[m] => t \in readers'[m]) /\ (writer[m] = t => writer'[m] = t)
      BY <2>a, <2>2 DEF LockTypeOK, acquire_shared
    <3>4. \A t \in Threads : pc[t] # "idle" => Name(t) \in Names /\ req[t].to \in Names
      BY DEF SafetyInv, TypeOK, ThreadTypeOK, Request, Name
    <3> QED
      BY <2>a, <2>b, <3>1, <3>2, <3>3, <3>4
         DEF LockInv, At, SharedLabels, ReadLabels, ExclusiveLabels, CommitLabels
  <2>3. CASE release_all(th)
    <3>1. LockTypeOK'
      BY <2>a, <2>3 DEF LockTypeOK, release_all
    <3>2. \A n \in Names : writer'[n] # NoThread => readers'[n] = {}
      BY <2>a, <2>3 DEF LockTypeOK, LockInv, release_all
    <3>3. \A t \in Threads \ {th} : \A n \in Names :
             (t \in readers[n] => t \in readers'[n]) /\ (writer[n] = t => writer'[n] = t)
      BY <2>a, <2>3 DEF LockTypeOK, release_all
    <3>4. \A t \in Threads \ {th} : pc[t] # "idle" => Name(t) \in Names /\ req[t].to \in Names
      BY DEF SafetyInv, TypeOK, ThreadTypeOK, Request, Name
    <3> QED
      BY <2>a, <2>b, <3>1, <3>2, <3>3, <3>4
         DEF LockInv, At, SharedLabels, ReadLabels, ExclusiveLabels, CommitLabels
  <2> QED
    BY <2>1, <2>2, <2>3
<1>2. TypeOK'
  BY <1>1 DEF SafetyInv, TypeOK, DbTypeOK, CacheTypeOK, ThreadTypeOK
<1>3. OpInv'
  BY DEF SafetyInv, OpInv, InvalidatesAfterUnlock
<1>4. DbInv' /\ WriteInv' /\ AlterInv'
  BY DEF SafetyInv, DbInv, WriteInv, AlterInv, At, Name, get_table, get_current_snapshot
<1> QED
  BY <1>1, <1>2, <1>3, <1>4 DEF SafetyInv

\* A thread that takes a step of a handler is not idle.
LEMMA HandlerBusy == ASSUME NEW th \in Threads, HandlerStep(th) PROVE pc[th] # "idle"
<1> USE DEF At
<1>1. CASE RegistryStep(th)
  BY <1>1 DEF RegistryStep, LockForRead, ResolveInMemory, ResolveFromDb, CacheHit,
     CacheMiss, QueryRows, QueryNothing, FillCache, LockForCommit, ValidateParent,
     DrawSnapshot, DrawNothing, WriteSnapshot, RollbackSnapshot, LoseSnapshot,
     InvalidateAfterCommit
<1>2. CASE CatalogStep(th)
  BY <1>2 DEF CatalogStep, LockForCreate, CreateTable, CreateFails, LockForGet,
     ReadTable, LockForSchema, CheckSchema, LockForAlter, ReadVersion, AlterSchema,
     AlterFails, LockForRename, LockNewName, LockSameName, RenameTable, RenameFails,
     LockForDrop, DropTable, DropFails, LockForMutation, LockForQuery, StatementFails,
     CommitLost
<1>3. CASE PickSnapshot(th) \/ Release(th) \/ InvalidateAfterUnlock(th) \/ AcquireThrows(th)
  BY <1>3 DEF PickSnapshot, Release, InvalidateAfterUnlock, AcquireThrows, NeedsConnection
<1> QED
  BY <1>1, <1>2, <1>3 DEF HandlerStep

\* SafetyInv and OneRequest are inductive for the server with its queries.
LEMMA QueryNextSafe ==
    SafetyInv /\ OneRequest /\ [QueryNext]_allVars => SafetyInv' /\ OneRequest'
<1> SUFFICES ASSUME SafetyInv, OneRequest, [QueryNext]_allVars
             PROVE  SafetyInv' /\ OneRequest'
  OBVIOUS
<1>0. TypeOK
  BY DEF SafetyInv
<1>1. ASSUME NEW th \in Threads, StartQuery(th) \/ QueryStep(th)
      PROVE  SafetyInv' /\ OneRequest'
  BY <1>0, <1>1, QueryTouches, QuerySafe
<1>2. ASSUME NEW th \in Threads, UNCHANGED query,
             (Start(th) /\ Asking(th, "idle")) \/ HandlerStep(th)
      PROVE  SafetyInv' /\ OneRequest'
  <2>1. ThreadStep(th)
    BY <1>2 DEF ThreadStep
  <2>2. Asking(th, "idle")
    BY <1>2, HandlerBusy DEF OneRequest, At
  <2>3. \A t \in Threads \ {th} : pc'[t] = pc[t]
    BY <1>0, <2>1, LocalsFrame
  <2> QED
    BY <1>2, <2>1, <2>2, <2>3, ThreadStepSafe DEF OneRequest, Asking, At
<1>3. CASE CommitTransaction /\ UNCHANGED query
  BY <1>3, NextSafe DEF Next, CommitTransaction, OneRequest, Asking, At
<1>4. CASE Restart /\ query' = Each(NoQuery)
  BY <1>4, RestartSafe DEF OneRequest, Asking, Each, NoQuery
<1>5. CASE UNCHANGED allVars
  BY <1>5, NextSafe DEF allVars, vars, serverVars, OneRequest, Asking, At
<1> QED
  BY <1>1, <1>2, <1>3, <1>4, <1>5 DEF QueryNext, Quiet, allVars

\* The invariant of the server holds beside any number of queries.
THEOREM QueriesSafe == QuerySpec => []SafetyInv
<1>1. QueryInit => SafetyInv /\ OneRequest
  BY InitSafe DEF QueryInit, OneRequest, Asking, Each, NoQuery
<1> QED
  BY <1>1, QueryNextSafe, PTL DEF QuerySpec

\* Snapshots stay immutable beside the queries.
THEOREM QueriesImmutable == QuerySpec => SnapshotImmutable
<1>1. QueryInit => SafetyInv /\ OneRequest
  BY InitSafe DEF QueryInit, OneRequest, Asking, Each, NoQuery
<1>2. SafetyInv /\ OneRequest /\ [QueryNext]_allVars =>
         [\A t \in tables : \A s \in 0 .. t.current_snapshot_id :
             (\E u \in tables' : u.table_id = t.table_id) =>
                View(t.table_id, s)' = View(t.table_id, s)]_vars
  <2> SUFFICES ASSUME SafetyInv, OneRequest, [QueryNext]_allVars,
                      NEW t \in tables, NEW s \in 0 .. t.current_snapshot_id,
                      NEW u \in tables', u.table_id = t.table_id
               PROVE  View(t.table_id, s)' = View(t.table_id, s)
    OBVIOUS
  <2>1. ASSUME NEW th \in Threads, Start(th) \/ HandlerStep(th)
        PROVE  View(t.table_id, s)' = View(t.table_id, s)
    BY <2>1, ImmutableStep DEF ThreadStep
  <2>2. ASSUME NEW th \in Threads, StartQuery(th) \/ QueryStep(th)
        PROVE  View(t.table_id, s)' = View(t.table_id, s)
    BY <2>2, QueryTouches DEF SafetyInv, QueryEffect, dbVars, View, Visible, Select
  <2>3. CASE CommitTransaction \/ Restart \/ Quiet \/ UNCHANGED allVars
    BY <2>3 DEF CommitTransaction, Restart, Quiet, allVars, vars, serverVars, dbVars,
                View, Visible, Select
  <2> QED
    BY <2>1, <2>2, <2>3 DEF QueryNext
<1> QED
  BY <1>1, <1>2, QueryNextSafe, PTL DEF QuerySpec, SnapshotImmutable

-----------------------------------------------------------------------------
(* The relations: the five steps that write them *)

\* No row changes; a number may have been drawn in vain.
RowsKept ==
    /\ UNCHANGED <<tables, snapshots, partitions, schema_history>>
    /\ table_seq' >= table_seq

\* Five steps change rows: every other step of a thread, its error paths
\* included, leaves the relations alone.
LEMMA Writers ==
    ASSUME SafetyInv, NEW th \in Threads, ThreadStep(th)
    PROVE  \/ RowsKept
           \/ WriteSnapshot(th) \/ CreateTable(th) \/ AlterSchema(th)
           \/ RenameTable(th) \/ DropTable(th)
<1>a. table_seq \in Nat
  BY DEF SafetyInv, TypeOK, DbTypeOK
<1> USE <1>a DEF ThreadStep, RowsKept, dbVars, seqVars
<1>1. CASE LockForRead(th)
  BY <1>1 DEF LockForRead
<1>2. CASE ResolveInMemory(th)
  BY <1>2 DEF ResolveInMemory
<1>3. CASE ResolveFromDb(th)
  BY <1>3 DEF ResolveFromDb
<1>4. CASE CacheHit(th)
  BY <1>4 DEF CacheHit
<1>5. CASE CacheMiss(th)
  BY <1>5 DEF CacheMiss
<1>6. CASE QueryRows(th)
  BY <1>6 DEF QueryRows
<1>7. CASE QueryNothing(th)
  BY <1>7 DEF QueryNothing
<1>8. CASE FillCache(th)
  BY <1>8 DEF FillCache
<1>9. CASE LockForCommit(th)
  BY <1>9 DEF LockForCommit
<1>10. CASE ValidateParent(th)
  BY <1>10 DEF ValidateParent
<1>11. CASE DrawSnapshot(th)
  BY <1>11 DEF DrawSnapshot
<1>12. CASE DrawNothing(th)
  BY <1>12 DEF DrawNothing
<1>13. CASE WriteSnapshot(th)
  BY <1>13 DEF WriteSnapshot
<1>14. CASE RollbackSnapshot(th)
  BY <1>14 DEF RollbackSnapshot
<1>15. CASE LoseSnapshot(th)
  BY <1>15 DEF LoseSnapshot
<1>16. CASE InvalidateAfterCommit(th)
  BY <1>16 DEF InvalidateAfterCommit
<1>17. CASE LockForCreate(th)
  BY <1>17 DEF LockForCreate, LockForMutation
<1>18. CASE CreateTable(th)
  BY <1>18 DEF CreateTable
<1>19. CASE CreateFails(th)
  BY <1>19 DEF CreateFails, StatementFails
<1>20. CASE LockForGet(th)
  BY <1>20 DEF LockForGet, LockForQuery
<1>21. CASE ReadTable(th)
  BY <1>21 DEF ReadTable
<1>22. CASE LockForSchema(th)
  BY <1>22 DEF LockForSchema, LockForQuery
<1>23. CASE CheckSchema(th)
  BY <1>23 DEF CheckSchema
<1>24. CASE LockForAlter(th)
  BY <1>24 DEF LockForAlter, LockForMutation
<1>25. CASE ReadVersion(th)
  BY <1>25 DEF ReadVersion
<1>26. CASE AlterSchema(th)
  BY <1>26 DEF AlterSchema
<1>27. CASE AlterFails(th)
  BY <1>27 DEF AlterFails, StatementFails, CommitLost
<1>28. CASE LockForRename(th)
  BY <1>28 DEF LockForRename, LockForMutation
<1>29. CASE LockNewName(th)
  BY <1>29 DEF LockNewName
<1>30. CASE LockSameName(th)
  BY <1>30 DEF LockSameName
<1>31. CASE RenameTable(th)
  BY <1>31 DEF RenameTable
<1>32. CASE RenameFails(th)
  BY <1>32 DEF RenameFails, StatementFails
<1>33. CASE LockForDrop(th)
  BY <1>33 DEF LockForDrop, LockForMutation
<1>34. CASE DropTable(th)
  BY <1>34 DEF DropTable
<1>35. CASE DropFails(th)
  BY <1>35 DEF DropFails, StatementFails, CommitLost
<1>36. CASE Start(th)
  BY <1>36 DEF Start
<1>37. CASE PickSnapshot(th)
  BY <1>37 DEF PickSnapshot
<1>38. CASE Release(th)
  BY <1>38 DEF Release
<1>39. CASE InvalidateAfterUnlock(th)
  BY <1>39 DEF InvalidateAfterUnlock
<1>40. CASE AcquireThrows(th)
  BY <1>40 DEF AcquireThrows
<1> QED
  BY <1>1, <1>2, <1>3, <1>4, <1>5, <1>6, <1>7, <1>8, <1>9, <1>10, <1>11,
     <1>12, <1>13, <1>14, <1>15, <1>16, <1>17, <1>18, <1>19, <1>20,
     <1>21, <1>22, <1>23, <1>24, <1>25, <1>26, <1>27, <1>28, <1>29,
     <1>30, <1>31, <1>32, <1>33, <1>34, <1>35, <1>36, <1>37, <1>38,
     <1>39, <1>40
     DEF HandlerStep, RegistryStep, CatalogStep

-----------------------------------------------------------------------------
(* What they write, in terms of the one row they change *)

\* Row r of the tables relation becomes u.
RowBecomes(r, u) == tables' = (tables \ {r}) \cup {u}

CommitsTo(th, r) ==
    /\ At(th, "write") /\ r.current_snapshot_id < snap[th]
    /\ RowBecomes(r, [r EXCEPT !.current_snapshot_id = snap[th]])
    /\ snapshots' = snapshots \cup {[snapshot_id |-> snap[th], table_id |-> r.table_id,
                                     parent_snapshot_id |-> Parent(th)]}
    /\ partitions' = mark_partitions_deleted(
                        insert_partitions(r.table_id, snap[th], req[th].adds, partition_seq),
                        r.table_id, req[th].dels, snap[th])
    /\ UNCHANGED <<schema_history, table_seq>>

Creates(th) ==
    /\ ~NameTaken(Name(th))
    /\ tables' = tables \cup {NewTable(table_seq + 1, Name(th), req[th].schema)}
    /\ table_seq' = table_seq + 1
    /\ UNCHANGED <<snapshots, partitions, schema_history>>

Alters(th, r) ==
    /\ RowBecomes(r, [r EXCEPT !.schema = req[th].schema,
                               !.schema_version = r.schema_version + 1])
    /\ schema_history' = schema_history \cup
          {[table_id |-> r.table_id, schema_version |-> r.schema_version + 1,
            schema |-> req[th].schema]}
    /\ UNCHANGED <<snapshots, partitions, table_seq>>

Renames(th, r) ==
    /\ ~NameTaken(req[th].to)
    /\ RowBecomes(r, [r EXCEPT !.table_name = req[th].to])
    /\ UNCHANGED <<snapshots, partitions, schema_history, table_seq>>

SoftDrops(r) ==
    /\ RowBecomes(r, [r EXCEPT !.is_deleted = TRUE])
    /\ UNCHANGED <<snapshots, partitions, schema_history, table_seq>>

Purges(r) ==
    /\ tables' = tables \ {r}
    /\ snapshots' = DeleteFrom(snapshots, r.table_id)
    /\ partitions' = DeleteFrom(partitions, r.table_id)
    /\ schema_history' = DeleteFrom(schema_history, r.table_id)
    /\ UNCHANGED table_seq

\* A step of a thread changes no row, creates a table, or does one thing to the
\* table of its name.
LEMMA Effects ==
    ASSUME SafetyInv, NEW th \in Threads, ThreadStep(th)
    PROVE  \/ RowsKept \/ Creates(th)
           \/ \E r \in get_table(Name(th)) :
                 \/ CommitsTo(th, r) \/ Alters(th, r) \/ Renames(th, r)
                 \/ SoftDrops(r) \/ Purges(r)
<1>a. /\ DbInv /\ DbTypeOK /\ table_seq \in Nat /\ snap[th] \in Nat
      /\ WriteInv /\ AlterInv /\ LockInv
  BY DEF SafetyInv, TypeOK, DbTypeOK, ThreadTypeOK
<1>b. ASSUME NEW r \in get_table(Name(th))
      PROVE  /\ r \in TableRow /\ r.table_name = Name(th)
             /\ get_table(Name(th)) = {r}
             /\ get_table_id(Name(th)) = r.table_id
             /\ get_current_snapshot(Name(th)) = r.current_snapshot_id
             /\ \A t \in tables : t \in get_table(Name(th)) <=> t = r
  BY <1>a, Lookup, OneRow DEF DbTypeOK
<1>1. CASE WriteSnapshot(th)
  <2>1. PICK r \in get_table(Name(th)) : r.current_snapshot_id < snap[th]
    BY <1>1, <1>a, <1>b DEF WriteSnapshot, WriteInv
  <2>2. RowBecomes(r, [r EXCEPT !.current_snapshot_id = snap[th]])
    BY <1>1, <1>b, <2>1 DEF WriteSnapshot, update_table_snapshot, RowBecomes, get_table
  <2>3. get_table_id(Name(th)) = r.table_id
    BY <1>b
  <2>4. CommitsTo(th, r)
    BY <1>1, <1>a, <2>1, <2>2, <2>3 DEF WriteSnapshot, CommitsTo, insert_snapshot
  <2> QED
    BY <2>4
<1>2. CASE CreateTable(th)
  BY <1>2, <1>a DEF CreateTable, Creates, RowsKept, create_table
<1>3. CASE AlterSchema(th)
  <2>1. PICK r \in get_table(Name(th)) : version[th] = r.schema_version + 1
    BY <1>3, <1>a DEF AlterSchema, AlterInv
  <2>2. get_table_id(Name(th)) = r.table_id
    BY <1>b
  <2>3. r \in tables /\ \A t \in tables : t \in get_table(Name(th)) <=> t = r
    BY <1>a, OneRow
  <2>4. update_table_schema(Name(th), req[th].schema, version[th]) =
           (tables \ {r}) \cup
              {[r EXCEPT !.schema = req[th].schema, !.schema_version = version[th]]}
    BY <2>3 DEF update_table_schema
  <2>5. RowBecomes(r, [r EXCEPT !.schema = req[th].schema,
                                !.schema_version = r.schema_version + 1])
    BY <1>3, <2>1, <2>4 DEF AlterSchema, RowBecomes
  <2>6. Alters(th, r)
    BY <1>3, <2>1, <2>2, <2>5 DEF AlterSchema, Alters, insert_schema_history, seqVars
  <2> QED
    BY <2>6
<1>4. CASE RenameTable(th)
  <2>1. CASE get_table(Name(th)) = {} \/ RenameConflict(Name(th), req[th].to)
    BY <1>4, <1>a, <2>1, UpdateNoRow DEF RenameTable, RowsKept, seqVars
  <2>2. CASE get_table(Name(th)) # {} /\ ~RenameConflict(Name(th), req[th].to)
    <3>1. PICK r \in get_table(Name(th)) : TRUE
      BY <2>2
    <3>2. ~NameTaken(req[th].to)
      BY <1>4, <1>a, <2>2 DEF RenameTable, RenameConflict, LockInv
    <3>3. RowBecomes(r, [r EXCEPT !.table_name = req[th].to])
      BY <1>4, <1>a, <2>2, <3>1, RenameRow DEF RenameTable, RowBecomes
    <3> QED
      BY <1>4, <3>1, <3>2, <3>3 DEF RenameTable, Renames, seqVars
  <2> QED
    BY <2>1, <2>2
<1>5. CASE DropTable(th)
  <2>1. CASE get_table(Name(th)) = {}
    BY <1>5, <1>a, <2>1 DEF DropTable, RowsKept, seqVars
  <2>2. ASSUME NEW r \in get_table(Name(th)), req[th].purge
        PROVE  Purges(r)
    <3>1. {x \in tables : x.table_name # Name(th)} = tables \ {r}
      BY <1>a, <1>b, <2>2, Lookup DEF DbInv
    <3> QED
      BY <1>5, <1>b, <2>2, <3>1 DEF DropTable, Purges, seqVars
  <2>3. ASSUME NEW r \in get_table(Name(th)), ~req[th].purge
        PROVE  SoftDrops(r)
    BY <1>5, <1>a, <2>3, SoftDeleteRow DEF DropTable, SoftDrops, RowBecomes, seqVars
  <2> QED
    BY <2>1, <2>2, <2>3
<1> QED
  BY <1>1, <1>2, <1>3, <1>4, <1>5, Writers

-----------------------------------------------------------------------------
(* The schema history *)

\* What SchemaHistoryComplete says of one table, with the history rows S.
CompleteFor(t, S) ==
    LET H == {h \in S : h.table_id = t.table_id} IN
    /\ {h.schema_version : h \in H} = 2 .. t.schema_version
    /\ \A g, h \in H : g.schema_version = h.schema_version => g = h
    /\ \A h \in H : h.schema_version = t.schema_version => h.schema = t.schema

\* It depends on the table's version and schema and on its own history rows.
LEMMA CompleteFrame ==
    ASSUME NEW t, NEW u, NEW S, NEW T, CompleteFor(t, S),
           u.table_id = t.table_id, u.schema_version = t.schema_version,
           u.schema = t.schema,
           \A h : h.table_id = t.table_id => (h \in S <=> h \in T)
    PROVE  CompleteFor(u, T)
<1>1. {h \in T : h.table_id = u.table_id} = {h \in S : h.table_id = t.table_id}
  OBVIOUS
<1> QED
  BY <1>1 DEF CompleteFor

\* The next version, written with its schema, completes the history again.
LEMMA CompleteNext ==
    ASSUME NEW t \in TableRow, t.schema_version >= 1,
           NEW S \in SUBSET HistoryRow, CompleteFor(t, S), NEW d, NEW u,
           u.table_id = t.table_id, u.schema = d,
           u.schema_version = t.schema_version + 1
    PROVE  CompleteFor(u, S \cup {[table_id |-> t.table_id,
                                   schema_version |-> t.schema_version + 1,
                                   schema |-> d]})
<1> DEFINE k == t.schema_version
           new == [table_id |-> t.table_id, schema_version |-> k + 1, schema |-> d]
           H == {h \in S : h.table_id = t.table_id}
           V == {h.schema_version : h \in H}
           I == {h \in S \cup {new} : h.table_id = u.table_id}
<1>1. k \in Nat /\ k >= 1 /\ \A h \in H : h.schema_version \in Nat
  BY DEF TableRow, HistoryRow
<1>2. /\ new.table_id = t.table_id /\ new.schema_version = k + 1 /\ new.schema = d
      /\ u.schema_version = k + 1
  OBVIOUS
<1>3. /\ V = 2 .. k
      /\ \A g, h \in H : g.schema_version = h.schema_version => g = h
  BY DEF CompleteFor
<1> HIDE DEF new, k
<1>4. I = H \cup {new}
  BY <1>2
<1>5. \A h \in H : h.schema_version \in 2 .. k
  BY <1>3
<1>6. \A h \in H : h.schema_version # k + 1
  BY <1>1, <1>5
<1>7. {h.schema_version : h \in I} = V \cup {k + 1}
  BY <1>2, <1>4
<1>8. {h.schema_version : h \in I} = 2 .. (k + 1)
  <2> HIDE DEF V, I
  <2> QED
    BY <1>1, <1>3, <1>7
<1>9. \A g, h \in I : g.schema_version = h.schema_version => g = h
  <2> HIDE DEF H, I, V
  <2> QED
    BY <1>2, <1>3, <1>4, <1>6
<1>10. \A h \in I : h.schema_version = k + 1 => h.schema = u.schema
  <2> HIDE DEF H, I, V
  <2> QED
    BY <1>2, <1>4, <1>6
<1> QED
  BY <1>2, <1>8, <1>9, <1>10 DEF CompleteFor, new, k

\* The rows of the tables other than r, whose row becomes u.
LEMMA OtherRows ==
    ASSUME DbInv, NEW r \in tables, NEW u, RowBecomes(r, u)
    PROVE  \A t \in tables' : t = u \/ (t \in tables /\ t.table_id # r.table_id)
  BY DEF DbInv, RowBecomes

\* HistoryInv and SchemaHistoryComplete: alter_table_schema writes the next
\* version to both relations, a new table starts with an id nobody had, and a
\* purge takes the rows of its own table.
LEMMA HistoryStep ==
    ASSUME SafetyInv, HistoryInv, SchemaHistoryComplete,
           NEW th \in Threads, ThreadStep(th)
    PROVE  HistoryInv' /\ SchemaHistoryComplete'
<1>a. /\ DbInv /\ tables \subseteq TableRow /\ schema_history \subseteq HistoryRow
      /\ table_seq \in Nat
  BY DEF SafetyInv, TypeOK, DbTypeOK
<1>b. \A t \in tables : CompleteFor(t, schema_history)
  BY DEF SchemaHistoryComplete, CompleteFor
<1>c. /\ \A t \in tables : t.schema_version \in Nat /\ t.schema_version >= 1
      /\ \A h \in schema_history : h.table_id \in Nat /\ h.table_id <= table_seq
  BY <1>a DEF HistoryInv, TableRow, HistoryRow
<1> SUFFICES HistoryInv' /\ \A t \in tables' : CompleteFor(t, schema_history')
  BY DEF SchemaHistoryComplete, CompleteFor
<1>d. ASSUME NEW r \in tables, NEW u, RowBecomes(r, u),
             u.table_id = r.table_id, u.schema_version = r.schema_version,
             u.schema = r.schema, UNCHANGED <<schema_history, table_seq>>
      PROVE  HistoryInv' /\ \A t \in tables' : CompleteFor(t, schema_history')
  <2>1. \A t \in tables' : t = u \/ t \in tables
    BY <1>a, <1>d, OtherRows
  <2>2. CompleteFor(u, schema_history')
    BY <1>b, <1>d, CompleteFrame
  <2> QED
    BY <1>b, <1>c, <1>d, <2>1, <2>2 DEF HistoryInv
<1>1. CASE RowsKept
  <2>1. table_seq' >= table_seq /\ table_seq' \in Nat
    BY <1>1, DbTypes DEF RowsKept, DbTypeOK
  <2> QED
    BY <1>1, <1>a, <1>b, <1>c, <2>1 DEF RowsKept, HistoryInv
<1>2. CASE Creates(th)
  <2> DEFINE new == NewTable(table_seq + 1, Name(th), req[th].schema)
  <2>1. new.table_id = table_seq + 1 /\ new.schema_version = 1
    BY DEF NewTable
  <2>2. tables' = tables \cup {new} /\ schema_history' = schema_history
        /\ table_seq' = table_seq + 1
    BY <1>2 DEF Creates
  <2> HIDE DEF new
  <2>3. {h \in schema_history : h.table_id = new.table_id} = {}
    BY <1>a, <1>c, <2>1
  <2>4. CompleteFor(new, schema_history)
    BY <2>1, <2>3 DEF CompleteFor
  <2>5. HistoryInv'
    BY <1>a, <1>c, <2>1, <2>2 DEF HistoryInv
  <2> QED
    BY <1>b, <2>2, <2>4, <2>5
<1>3. ASSUME NEW r \in get_table(Name(th)), CommitsTo(th, r)
      PROVE  HistoryInv' /\ \A t \in tables' : CompleteFor(t, schema_history')
  <2> DEFINE u == [r EXCEPT !.current_snapshot_id = snap[th]]
  <2>1. r \in tables /\ r \in TableRow
    BY <1>a DEF get_table
  <2>2. /\ u.table_id = r.table_id /\ u.schema_version = r.schema_version
        /\ u.schema = r.schema
    BY <2>1 DEF TableRow
  <2>3. RowBecomes(r, u) /\ UNCHANGED <<schema_history, table_seq>>
    BY <1>3 DEF CommitsTo
  <2> HIDE DEF u
  <2> QED
    BY <1>d, <2>1, <2>2, <2>3
<1>4. ASSUME NEW r \in get_table(Name(th)), Alters(th, r)
      PROVE  HistoryInv' /\ \A t \in tables' : CompleteFor(t, schema_history')
  <2> DEFINE d == req[th].schema
             u == [r EXCEPT !.schema = d, !.schema_version = r.schema_version + 1]
             row == [table_id |-> r.table_id, schema_version |-> r.schema_version + 1,
                     schema |-> d]
  <2>1. r \in tables /\ r \in TableRow
    BY <1>a DEF get_table
  <2>2. /\ u.table_id = r.table_id /\ u.schema_version = r.schema_version + 1
        /\ u.schema = d
    BY <2>1 DEF TableRow
  <2>3. RowBecomes(r, u) /\ schema_history' = schema_history \cup {row}
        /\ table_seq' = table_seq
    BY <1>4 DEF Alters
  <2>4. row.table_id = r.table_id
    OBVIOUS
  <2>5. r.table_id \in Nat /\ r.table_id <= table_seq
    BY <1>a, <2>1 DEF DbInv, TableRow
  <2> HIDE DEF u
  <2>6. CompleteFor(u, schema_history')
    BY <1>a, <1>b, <1>c, <2>1, <2>2, <2>3, CompleteNext
  <2> HIDE DEF row
  <2>7. \A t \in tables' : t = u \/ (t \in tables /\ t.table_id # r.table_id)
    BY <1>a, <2>1, <2>3, OtherRows
  <2>8. ASSUME NEW t \in tables, t.table_id # r.table_id
        PROVE  CompleteFor(t, schema_history')
    BY <1>b, <2>3, <2>4, <2>8, CompleteFrame
  <2>9. HistoryInv'
    BY <1>c, <2>1, <2>2, <2>3, <2>4, <2>5, <2>7 DEF HistoryInv
  <2> QED
    BY <2>6, <2>7, <2>8, <2>9
<1>5. ASSUME NEW r \in get_table(Name(th)), Renames(th, r)
      PROVE  HistoryInv' /\ \A t \in tables' : CompleteFor(t, schema_history')
  <2> DEFINE u == [r EXCEPT !.table_name = req[th].to]
  <2>1. r \in tables /\ r \in TableRow
    BY <1>a DEF get_table
  <2>2. /\ u.table_id = r.table_id /\ u.schema_version = r.schema_version
        /\ u.schema = r.schema
    BY <2>1 DEF TableRow
  <2>3. RowBecomes(r, u) /\ UNCHANGED <<schema_history, table_seq>>
    BY <1>5 DEF Renames
  <2> HIDE DEF u
  <2> QED
    BY <1>d, <2>1, <2>2, <2>3
<1>6. ASSUME NEW r \in get_table(Name(th)), SoftDrops(r)
      PROVE  HistoryInv' /\ \A t \in tables' : CompleteFor(t, schema_history')
  <2> DEFINE u == [r EXCEPT !.is_deleted = TRUE]
  <2>1. r \in tables /\ r \in TableRow
    BY <1>a DEF get_table
  <2>2. /\ u.table_id = r.table_id /\ u.schema_version = r.schema_version
        /\ u.schema = r.schema
    BY <2>1 DEF TableRow
  <2>3. RowBecomes(r, u) /\ UNCHANGED <<schema_history, table_seq>>
    BY <1>6 DEF SoftDrops
  <2> HIDE DEF u
  <2> QED
    BY <1>d, <2>1, <2>2, <2>3
<1>7. ASSUME NEW r \in get_table(Name(th)), Purges(r)
      PROVE  HistoryInv' /\ \A t \in tables' : CompleteFor(t, schema_history')
  <2>1. r \in tables /\ tables' = tables \ {r} /\ table_seq' = table_seq
        /\ schema_history' = DeleteFrom(schema_history, r.table_id)
    BY <1>7 DEF Purges, get_table
  <2>2. \A t \in tables' : t \in tables /\ t.table_id # r.table_id
    BY <1>a, <2>1 DEF DbInv
  <2>3. ASSUME NEW t \in tables, t.table_id # r.table_id
        PROVE  CompleteFor(t, schema_history')
    BY <1>b, <2>1, <2>3, CompleteFrame DEF DeleteFrom
  <2>4. HistoryInv'
    BY <1>c, <2>1, <2>2 DEF HistoryInv, DeleteFrom
  <2> QED
    BY <2>2, <2>3, <2>4
<1> QED
  BY <1>1, <1>2, <1>3, <1>4, <1>5, <1>6, <1>7, Effects

-----------------------------------------------------------------------------
(* The chain of snapshots *)

\* What a step of th leaves alone: the table of a name th has not locked.
LEMMA NameFrame ==
    ASSUME SafetyInv, NEW th \in Threads, ThreadStep(th),
           NEW t \in Threads, t # th, pc[t] # "idle", writer[Name(t)] # th
    PROVE  /\ Name(t)' = Name(t) /\ Parent(t)' = Parent(t)
           /\ get_table(Name(t))' = get_table(Name(t))
           /\ get_table_id(Name(t))' = get_table_id(Name(t))
           /\ get_current_snapshot(Name(t))' = get_current_snapshot(Name(t))
<1>1. TypeOK /\ Name(t) \in Names
  BY DEF SafetyInv, TypeOK, ThreadTypeOK, Request, Name
<1>2. Name(t)' = Name(t) /\ Parent(t)' = Parent(t)
  BY <1>1, LocalsFrame DEF Name, Parent
<1>3. get_table(Name(t))' = get_table(Name(t))
  BY <1>1, <1>2, TablesStep
<1> QED
  BY <1>2, <1>3 DEF get_table_id, get_current_snapshot

\* The parent validated under the exclusive lock stays the current snapshot
\* until it is written, if the SELECT that read it did not fail.
LEMMA ParentStep ==
    ASSUME SafetyInv, ParentInv, "current_read" \notin Faults,
           NEW th \in Threads, ThreadStep(th)
    PROVE  ParentInv'
<1> SUFFICES ASSUME NEW t \in Threads, pc'[t] \in {"insertSnapshot", "write"}
             PROVE  Parent(t)' = get_current_snapshot(Name(t))'
  BY DEF ParentInv
<1>a. TypeOK
  BY DEF SafetyInv
<1>1. CASE t # th
  <2>1. pc[t] \in {"insertSnapshot", "write"}
    BY <1>a, <1>1, LocalsFrame
  <2>2. writer[Name(t)] # th
    BY <1>1, <2>1 DEF SafetyInv, LockInv, ExclusiveLabels, CommitLabels
  <2> QED
    BY <1>1, <2>1, <2>2, NameFrame DEF ParentInv
<1>2. CASE t = th /\ pc'[t] = "insertSnapshot"
  <2>1. ValidateParent(th) /\ pc'[th] = "insertSnapshot"
    BY <1>2, Entered
  <2>2. Parent(th) = get_current_snapshot(Name(th))
    BY <1>a, <2>1 DEF ValidateParent, validate_parent_snapshot, CurrentSnapshotRead,
       Outcome, Goto, TypeOK, ThreadTypeOK
  <2>3. UNCHANGED <<tables, req>>
    BY <2>1 DEF ValidateParent, dbVars
  <2> QED
    BY <1>2, <2>2, <2>3 DEF Parent, Name, get_current_snapshot, get_table
<1>3. CASE t = th /\ pc'[t] = "write"
  <2>1. DrawSnapshot(th)
    BY <1>3, Entered
  <2>2. Parent(th) = get_current_snapshot(Name(th))
    BY <2>1 DEF DrawSnapshot, ParentInv, At
  <2>3. UNCHANGED <<tables, req>>
    BY <2>1 DEF DrawSnapshot
  <2> QED
    BY <1>3, <2>2, <2>3 DEF Parent, Name, get_current_snapshot, get_table
<1> QED
  BY <1>1, <1>2, <1>3

\* The rows after a commit of snapshot s to table id: those of other tables, its
\* own, some of them marked deleted at s, and new ones of snapshot s.
LEMMA CommittedRows ==
    ASSUME DbTypeOK, NEW id \in Nat, NEW s \in Nat, NEW adds \in Seq(Keys),
           NEW base \in Nat, NEW dels \in SUBSET Keys,
           NEW p \in mark_partitions_deleted(insert_partitions(id, s, adds, base),
                                             id, dels, s)
    PROVE  \/ p \in partitions
           \/ /\ p.table_id = id /\ p.is_deleted /\ p.deleted_snapshot_id = s
              /\ \E q \in partitions : /\ q.table_id = id /\ ~q.is_deleted
                                       /\ q.snapshot_id = p.snapshot_id
                                       /\ Select(q) = Select(p)
           \/ /\ p.table_id = id /\ p.snapshot_id = s
              /\ p.is_deleted => p.deleted_snapshot_id = s
<1> DEFINE Mark(q) ==
       IF q.table_id = id /\ q.partition_key \in dels /\ ~q.is_deleted
         THEN [q EXCEPT !.is_deleted = TRUE, !.deleted_snapshot_id = s] ELSE q
<1>1. PICK q \in insert_partitions(id, s, adds, base) : p = Mark(q)
  BY DEF mark_partitions_deleted
<1>2. \A i \in DOMAIN adds : i \in Nat /\ adds[i] \in Keys
  OBVIOUS
<1>3. \A i \in DOMAIN adds :
         [partition_id |-> base + i, table_id |-> id, snapshot_id |-> s,
          partition_key |-> adds[i], is_deleted |-> FALSE,
          deleted_snapshot_id |-> 0] \in StoredRow
  BY <1>2 DEF StoredRow
<1>4. q \in StoredRow
  BY <1>3 DEF DbTypeOK, insert_partitions
<1>5. q \in partitions \/ (q.table_id = id /\ q.snapshot_id = s /\ ~q.is_deleted)
  BY DEF insert_partitions
<1>6. CASE q.table_id = id /\ q.partition_key \in dels /\ ~q.is_deleted
  <2>1. p = [q EXCEPT !.is_deleted = TRUE, !.deleted_snapshot_id = s]
    BY <1>1, <1>6
  <2>2. /\ p.table_id = q.table_id /\ p.snapshot_id = q.snapshot_id
        /\ p.is_deleted /\ p.deleted_snapshot_id = s
        /\ Select(q) = Select(p)
    BY <1>4, <2>1 DEF StoredRow, Select
  <2> QED
    BY <1>5, <1>6, <2>2
<1>7. CASE ~(q.table_id = id /\ q.partition_key \in dels /\ ~q.is_deleted)
  BY <1>1, <1>5, <1>7
<1> QED
  BY <1>6, <1>7

\* A row that becomes another with the same id and the same snapshot, where no
\* snapshot and no partition changes, disturbs neither RowsInv nor the chain.
LEMMA ChainFrame ==
    ASSUME DbInv, NEW r \in tables, NEW u, RowBecomes(r, u),
           u.table_id = r.table_id, u.current_snapshot_id = r.current_snapshot_id,
           UNCHANGED <<snapshots, partitions, table_seq>>
    PROVE  (RowsInv => RowsInv') /\ (LinearHistory => LinearHistory')
<1>1. \A t \in tables' : \E w \in tables :
         w.table_id = t.table_id /\ w.current_snapshot_id = t.current_snapshot_id
  BY OtherRows
<1>2. RowsInv => RowsInv'
  BY <1>1 DEF RowsInv
<1>3. LinearHistory => LinearHistory'
  BY <1>1 DEF LinearHistory
<1> QED
  BY <1>2, <1>3

\* What an UPDATE leaves alone in a row.
LEMMA Columns ==
    ASSUME NEW r \in TableRow, NEW s, NEW m, NEW d, NEW k
    PROVE  /\ \A u \in {[r EXCEPT !.schema = d, !.schema_version = k],
                        [r EXCEPT !.table_name = m], [r EXCEPT !.is_deleted = TRUE]} :
                 /\ u.table_id = r.table_id
                 /\ u.current_snapshot_id = r.current_snapshot_id
           /\ LET u == [r EXCEPT !.current_snapshot_id = s]
              IN  u.table_id = r.table_id /\ u.current_snapshot_id = s
  BY DEF TableRow

\* The facts about a commit that the chain rests on.
LEMMA CommitFacts ==
    ASSUME SafetyInv, NEW th \in Threads,
           NEW r \in get_table(Name(th)), CommitsTo(th, r)
    PROVE  /\ r \in tables /\ r \in TableRow /\ ~r.is_deleted
           /\ r.table_id \in Nat /\ r.table_id <= table_seq
           /\ r.current_snapshot_id \in Nat /\ snap[th] \in Nat
           /\ r.current_snapshot_id < snap[th] /\ 0 < snap[th]
           /\ req[th].adds \in Seq(Keys) /\ req[th].dels \in SUBSET Keys
           /\ partition_seq \in Nat
           /\ get_current_snapshot(Name(th)) = r.current_snapshot_id
<1>1. /\ r \in tables /\ r \in TableRow /\ ~r.is_deleted
      /\ DbInv /\ partition_seq \in Nat
  BY DEF get_table, SafetyInv, TypeOK, DbTypeOK
<1>2. /\ r.table_id \in Nat /\ r.table_id <= table_seq
      /\ r.current_snapshot_id \in Nat /\ snap[th] \in Nat
      /\ r.current_snapshot_id < snap[th]
  BY <1>1 DEF TableRow, DbInv, CommitsTo, SafetyInv, TypeOK, ThreadTypeOK
<1>3. req[th] \in Request
  BY DEF CommitsTo, At, SafetyInv, TypeOK, ThreadTypeOK
<1>4. req[th].adds \in Seq(Keys) /\ req[th].dels \in SUBSET Keys
  BY <1>3 DEF Request
<1>5. 0 < snap[th]
  BY <1>2
<1> QED
  BY <1>1, <1>2, <1>4, <1>5, Lookup

\* The row of a new table: its id is fresh and it points nowhere.
LEMMA NewRow ==
    ASSUME SafetyInv, NEW th \in Threads, Creates(th)
    PROVE  \E u : /\ tables' = tables \cup {u}
                  /\ u.table_id = table_seq + 1 /\ u.current_snapshot_id = 0
<1> DEFINE u == NewTable(table_seq + 1, Name(th), req[th].schema)
<1>1. u.table_id = table_seq + 1 /\ u.current_snapshot_id = 0
  BY DEF NewTable
<1>2. tables' = tables \cup {u}
  BY DEF Creates
<1> QED
  BY <1>1, <1>2

\* A schema change, a rename and a soft delete keep the table's id and pointer.
LEMMA PointerKept ==
    ASSUME SafetyInv, NEW th \in Threads, NEW r \in get_table(Name(th)),
           Alters(th, r) \/ Renames(th, r) \/ SoftDrops(r)
    PROVE  \E u : /\ RowBecomes(r, u) /\ u.table_id = r.table_id
                  /\ u.current_snapshot_id = r.current_snapshot_id
                  /\ UNCHANGED <<snapshots, partitions, table_seq>>
<1>a. r \in TableRow
  BY DEF get_table, SafetyInv, TypeOK, DbTypeOK
<1>1. CASE Alters(th, r)
  <2> DEFINE u == [r EXCEPT !.schema = req[th].schema,
                            !.schema_version = r.schema_version + 1]
  <2>1. u.table_id = r.table_id /\ u.current_snapshot_id = r.current_snapshot_id
    BY <1>a, Columns
  <2>2. RowBecomes(r, u) /\ UNCHANGED <<snapshots, partitions, table_seq>>
    BY <1>1 DEF Alters
  <2> QED
    BY <2>1, <2>2
<1>2. CASE Renames(th, r)
  <2> DEFINE u == [r EXCEPT !.table_name = req[th].to]
  <2>1. u.table_id = r.table_id /\ u.current_snapshot_id = r.current_snapshot_id
    BY <1>a, Columns
  <2>2. RowBecomes(r, u) /\ UNCHANGED <<snapshots, partitions, table_seq>>
    BY <1>2 DEF Renames
  <2> QED
    BY <2>1, <2>2
<1>3. CASE SoftDrops(r)
  <2> DEFINE u == [r EXCEPT !.is_deleted = TRUE]
  <2>1. u.table_id = r.table_id /\ u.current_snapshot_id = r.current_snapshot_id
    BY <1>a, Columns
  <2>2. RowBecomes(r, u) /\ UNCHANGED <<snapshots, partitions, table_seq>>
    BY <1>3 DEF SoftDrops
  <2> QED
    BY <2>1, <2>2
<1> QED
  BY <1>1, <1>2, <1>3

\* RowsInv: a commit's rows carry its own number, which becomes the current one.
LEMMA RowsStep ==
    ASSUME SafetyInv, RowsInv, NEW th \in Threads, ThreadStep(th)
    PROVE  RowsInv'
<1>a. /\ DbInv /\ DbTypeOK /\ tables \subseteq TableRow /\ snapshots \subseteq SnapshotRow
      /\ partitions \subseteq StoredRow /\ table_seq \in Nat
  BY DEF SafetyInv, TypeOK, DbTypeOK
<1>b. /\ \A t \in tables : t.table_id \in Nat /\ t.current_snapshot_id \in Nat
      /\ \A a \in snapshots : a.table_id \in Nat /\ a.snapshot_id \in Nat
      /\ \A p \in partitions : /\ p.table_id \in Nat /\ p.snapshot_id \in Nat
                               /\ p.deleted_snapshot_id \in Nat
  BY <1>a DEF TableRow, SnapshotRow, StoredRow
<1>1. CASE RowsKept
  <2>1. table_seq' >= table_seq /\ table_seq' \in Nat
    BY <1>1, DbTypes DEF RowsKept, DbTypeOK
  <2> QED
    BY <1>1, <1>a, <1>b, <2>1 DEF RowsKept, RowsInv
<1>2. CASE Creates(th)
  <2>1. PICK u : /\ tables' = tables \cup {u}
                 /\ u.table_id = table_seq + 1 /\ u.current_snapshot_id = 0
    BY <1>2, NewRow
  <2>2. UNCHANGED <<snapshots, partitions>> /\ table_seq' = table_seq + 1
    BY <1>2 DEF Creates
  <2>3. /\ \A p \in partitions : p.table_id <= table_seq
        /\ \A a \in snapshots : a.table_id <= table_seq
    BY <1>a DEF RowsInv, DbInv
  <2> QED
    BY <1>a, <1>b, <2>1, <2>2, <2>3 DEF RowsInv
<1>3. ASSUME NEW r \in get_table(Name(th)), CommitsTo(th, r) PROVE RowsInv'
  <2> DEFINE s == snap[th]
             id == r.table_id
             a == [snapshot_id |-> s, table_id |-> id, parent_snapshot_id |-> Parent(th)]
             u == [r EXCEPT !.current_snapshot_id = s]
  <2>1. /\ r \in tables /\ r \in TableRow /\ id \in Nat /\ s \in Nat
        /\ r.current_snapshot_id \in Nat /\ r.current_snapshot_id < s /\ 0 < s
        /\ id <= table_seq
        /\ req[th].adds \in Seq(Keys) /\ req[th].dels \in SUBSET Keys
        /\ partition_seq \in Nat
    BY <1>3, CommitFacts
  <2>2. /\ RowBecomes(r, u) /\ snapshots' = snapshots \cup {a} /\ table_seq' = table_seq
        /\ partitions' = mark_partitions_deleted(
              insert_partitions(id, s, req[th].adds, partition_seq), id, req[th].dels, s)
    BY <1>3 DEF CommitsTo
  <2>3. u.table_id = id /\ u.current_snapshot_id = s
    BY <2>1, Columns
  <2>4. a.table_id = id /\ a.snapshot_id = s
    OBVIOUS
  <2> HIDE DEF s, id, a, u
  <2>5. \A t \in tables' : t = u \/ (t \in tables /\ t.table_id # id)
    BY <1>a, <2>1, <2>2, OtherRows DEF id
  <2>6. ASSUME NEW p \in partitions'
        PROVE  \/ p \in partitions /\ p.table_id # id
               \/ /\ p.table_id = id /\ 0 < p.snapshot_id /\ p.snapshot_id <= s
                  /\ p.is_deleted => p.deleted_snapshot_id <= s
    <3>1. CASE p \in partitions
      <4>1. p.table_id = id =>
               /\ 0 < p.snapshot_id /\ p.snapshot_id <= r.current_snapshot_id
               /\ p.is_deleted => p.deleted_snapshot_id <= r.current_snapshot_id
        BY <2>1, <3>1 DEF RowsInv, id
      <4> QED
        BY <1>b, <2>1, <3>1, <4>1
    <3>2. ASSUME NEW q \in partitions, p.table_id = id, p.is_deleted,
                 p.deleted_snapshot_id = s, q.table_id = id,
                 q.snapshot_id = p.snapshot_id
          PROVE  0 < p.snapshot_id /\ p.snapshot_id <= s /\ p.deleted_snapshot_id <= s
      <4>1. 0 < q.snapshot_id /\ q.snapshot_id <= r.current_snapshot_id
        BY <2>1, <3>2 DEF RowsInv, id
      <4> QED
        BY <1>b, <2>1, <3>2, <4>1
    <3>3. CASE /\ p.table_id = id /\ p.snapshot_id = s
               /\ p.is_deleted => p.deleted_snapshot_id = s
      BY <2>1, <3>3
    <3> QED
      BY <1>a, <2>1, <2>2, <3>1, <3>2, <3>3, CommittedRows
  <2>7. \A p \in partitions' : p.table_id <= table_seq'
    BY <2>1, <2>2, <2>6 DEF RowsInv
  <2>8. \A t \in tables' : \A p \in partitions' : p.table_id = t.table_id =>
          /\ 0 < p.snapshot_id /\ p.snapshot_id <= t.current_snapshot_id
          /\ p.is_deleted => p.deleted_snapshot_id <= t.current_snapshot_id
    BY <2>3, <2>5, <2>6 DEF RowsInv
  <2>9. \A b \in snapshots : b.table_id = id => b.snapshot_id < s
    BY <1>b, <2>1 DEF RowsInv, id
  <2>10. \A t \in tables' : \A b \in snapshots' :
            b.table_id = t.table_id => b.snapshot_id <= t.current_snapshot_id
    BY <1>b, <2>1, <2>2, <2>3, <2>4, <2>5, <2>9 DEF RowsInv
  <2>11. \A b, c \in snapshots' :
            b.table_id = c.table_id /\ b.snapshot_id = c.snapshot_id => b = c
    BY <1>b, <2>1, <2>2, <2>4, <2>9 DEF RowsInv
  <2> QED
    BY <2>7, <2>8, <2>10, <2>11 DEF RowsInv
<1>4. ASSUME NEW r \in get_table(Name(th)),
             Alters(th, r) \/ Renames(th, r) \/ SoftDrops(r)
      PROVE  RowsInv'
  <2>1. PICK u : /\ RowBecomes(r, u) /\ u.table_id = r.table_id
                 /\ u.current_snapshot_id = r.current_snapshot_id
                 /\ UNCHANGED <<snapshots, partitions, table_seq>>
    BY <1>4, PointerKept
  <2>2. r \in tables
    BY DEF get_table
  <2> QED
    BY <1>a, <2>1, <2>2, ChainFrame
<1>5. ASSUME NEW r \in get_table(Name(th)), Purges(r) PROVE RowsInv'
  BY <1>5 DEF Purges, RowsInv, DeleteFrom
<1> QED
  BY <1>1, <1>2, <1>3, <1>4, <1>5, Effects

\* LinearHistory: the new snapshot's parent is the snapshot the table pointed to,
\* and nothing of the table is newer than that.
LEMMA LinearStep ==
    ASSUME SafetyInv, RowsInv, ParentInv, LinearHistory,
           NEW th \in Threads, ThreadStep(th)
    PROVE  LinearHistory'
<1>a. /\ DbInv /\ tables \subseteq TableRow /\ snapshots \subseteq SnapshotRow
      /\ table_seq \in Nat
  BY DEF SafetyInv, TypeOK, DbTypeOK
<1>b. /\ \A t \in tables : t.table_id \in Nat /\ t.current_snapshot_id \in Nat
      /\ \A a \in snapshots : /\ a.table_id \in Nat /\ a.snapshot_id \in Nat
                              /\ a.parent_snapshot_id \in Nat
  BY <1>a DEF TableRow, SnapshotRow
<1>1. CASE RowsKept
  BY <1>1 DEF RowsKept, LinearHistory
<1>2. CASE Creates(th)
  <2>1. PICK u : /\ tables' = tables \cup {u}
                 /\ u.table_id = table_seq + 1 /\ u.current_snapshot_id = 0
    BY <1>2, NewRow
  <2>2. UNCHANGED snapshots
    BY <1>2 DEF Creates
  <2>3. \A a \in snapshots : a.table_id # u.table_id
    BY <1>a, <1>b, <2>1 DEF DbInv
  <2> QED
    BY <2>1, <2>2, <2>3 DEF LinearHistory
<1>3. ASSUME NEW r \in get_table(Name(th)), CommitsTo(th, r) PROVE LinearHistory'
  <2> DEFINE s == snap[th]
             id == r.table_id
             a == [snapshot_id |-> s, table_id |-> id, parent_snapshot_id |-> Parent(th)]
             u == [r EXCEPT !.current_snapshot_id = s]
  <2>1. /\ r \in tables /\ r \in TableRow /\ id \in Nat /\ s \in Nat
        /\ r.current_snapshot_id \in Nat /\ r.current_snapshot_id < s /\ 0 < s
        /\ get_current_snapshot(Name(th)) = r.current_snapshot_id
    BY <1>3, CommitFacts
  <2>2. RowBecomes(r, u) /\ snapshots' = snapshots \cup {a}
    BY <1>3 DEF CommitsTo
  <2>3. u.table_id = id /\ u.current_snapshot_id = s
    BY <2>1, Columns
  <2>4. Parent(th) = r.current_snapshot_id
    BY <1>3, <2>1 DEF ParentInv, CommitsTo, At
  <2>5. /\ a.table_id = id /\ a.snapshot_id = s
        /\ a.parent_snapshot_id = r.current_snapshot_id
    BY <2>4
  <2> HIDE DEF s, id, a, u
  <2>6. \A t \in tables' : t = u \/ (t \in tables /\ t.table_id # id)
    BY <1>a, <2>1, <2>2, OtherRows DEF id
  <2>7. \A b \in snapshots : b.table_id = id => b.snapshot_id <= r.current_snapshot_id
    BY <2>1 DEF RowsInv, id
  <2>8. ASSUME NEW b \in snapshots', NEW c \in snapshots', c.table_id = b.table_id
        PROVE  /\ b.parent_snapshot_id < b.snapshot_id
               /\ ~(b.parent_snapshot_id < c.snapshot_id /\ c.snapshot_id < b.snapshot_id)
    <3>1. CASE b = a /\ c = a
      BY <2>1, <2>5, <3>1
    <3>2. CASE b = a /\ c \in snapshots
      BY <1>b, <2>1, <2>5, <2>7, <2>8, <3>2
    <3>3. CASE b \in snapshots /\ c = a
      <4>1. b.parent_snapshot_id < b.snapshot_id
        BY <3>3 DEF LinearHistory
      <4> QED
        BY <1>b, <2>1, <2>5, <2>7, <2>8, <3>3, <4>1
    <3>4. CASE b \in snapshots /\ c \in snapshots
      BY <2>8, <3>4 DEF LinearHistory
    <3> QED
      BY <2>2, <3>1, <3>2, <3>3, <3>4
  <2>9. r.current_snapshot_id = 0 \/
           \E b \in snapshots : b.table_id = id /\ b.snapshot_id = r.current_snapshot_id
    BY <2>1 DEF LinearHistory, id
  <2>10. ASSUME NEW b \in snapshots', b.table_id = id
         PROVE  /\ b.snapshot_id <= s
                /\ b.parent_snapshot_id = 0 \/
                   \E c \in snapshots' : c.table_id = id /\ c.snapshot_id = b.parent_snapshot_id
    <3>1. CASE b = a
      BY <2>1, <2>2, <2>5, <2>9, <3>1
    <3>2. CASE b \in snapshots
      <4>1. b.parent_snapshot_id = 0 \/
            \E c \in snapshots : c.table_id = id /\ c.snapshot_id = b.parent_snapshot_id
        BY <2>1, <2>10, <3>2 DEF LinearHistory, id
      <4> QED
        BY <1>b, <2>1, <2>2, <2>7, <2>10, <3>2, <4>1
    <3> QED
      BY <2>2, <3>1, <3>2
  <2>11. ASSUME NEW t \in tables, t.table_id # id, NEW b \in snapshots',
                b.table_id = t.table_id
         PROVE  /\ b.snapshot_id <= t.current_snapshot_id
                /\ b.parent_snapshot_id = 0 \/
                   \E c \in snapshots' :
                      c.table_id = t.table_id /\ c.snapshot_id = b.parent_snapshot_id
    BY <2>2, <2>5, <2>11 DEF LinearHistory
  <2>12. \A t \in tables' : t.current_snapshot_id = 0 \/
            \E b \in snapshots' :
               b.table_id = t.table_id /\ b.snapshot_id = t.current_snapshot_id
    BY <2>2, <2>3, <2>5, <2>6 DEF LinearHistory
  <2>13. \A t \in tables' : \A b \in snapshots' : b.table_id = t.table_id =>
            /\ b.snapshot_id <= t.current_snapshot_id
            /\ b.parent_snapshot_id = 0 \/
               \E c \in snapshots' :
                  c.table_id = t.table_id /\ c.snapshot_id = b.parent_snapshot_id
    BY <2>3, <2>6, <2>10, <2>11
  <2> QED
    BY <2>8, <2>12, <2>13 DEF LinearHistory
<1>4. ASSUME NEW r \in get_table(Name(th)),
             Alters(th, r) \/ Renames(th, r) \/ SoftDrops(r)
      PROVE  LinearHistory'
  <2>1. PICK u : /\ RowBecomes(r, u) /\ u.table_id = r.table_id
                 /\ u.current_snapshot_id = r.current_snapshot_id
                 /\ UNCHANGED <<snapshots, partitions, table_seq>>
    BY <1>4, PointerKept
  <2>2. r \in tables
    BY DEF get_table
  <2> QED
    BY <1>a, <2>1, <2>2, ChainFrame
<1>5. ASSUME NEW r \in get_table(Name(th)), Purges(r) PROVE LinearHistory'
  <2>1. /\ r \in tables /\ tables' = tables \ {r}
        /\ snapshots' = {a \in snapshots : a.table_id # r.table_id}
    BY <1>5 DEF Purges, DeleteFrom, get_table
  <2>2. \A t \in tables' : t \in tables /\ t.table_id # r.table_id
    BY <1>a, <2>1 DEF DbInv
  <2> QED
    BY <2>1, <2>2 DEF LinearHistory
<1> QED
  BY <1>1, <1>2, <1>3, <1>4, <1>5, Effects

-----------------------------------------------------------------------------
(* The invariants of the relations *)

RelationsInv == HistoryInv /\ SchemaHistoryComplete /\ RowsInv

ChainInv == ParentInv /\ LinearHistory

\* The preloaded tables have no history, no snapshot and no partition.
LEMMA RelationsInit == Init => RelationsInv /\ ChainInv
<1> SUFFICES ASSUME Init PROVE RelationsInv /\ ChainInv
  OBVIOUS
<1>1. /\ snapshots = {} /\ partitions = {} /\ schema_history = {}
      /\ \A th \in Threads : pc[th] = "idle"
      /\ \A t \in tables : t.schema_version = 1 /\ t.current_snapshot_id = 0
  <2>1. PICK d \in Schemas :
           tables = {NewTable(i, Preloaded[i], d) : i \in DOMAIN Preloaded}
    BY DEF Init, DbInit
  <2>2. \A i : /\ NewTable(i, Preloaded[i], d).schema_version = 1
               /\ NewTable(i, Preloaded[i], d).current_snapshot_id = 0
    BY DEF NewTable
  <2> QED
    BY <2>1, <2>2 DEF Init, DbInit, ThreadInit, Each
<1>2. HistoryInv /\ RowsInv
  BY <1>1 DEF HistoryInv, RowsInv
<1>3. \A t \in tables : CompleteFor(t, schema_history)
  BY <1>1 DEF CompleteFor
<1>4. SchemaHistoryComplete
  BY <1>3 DEF SchemaHistoryComplete, CompleteFor
<1>5. ParentInv /\ LinearHistory
  BY <1>1 DEF ParentInv, LinearHistory
<1> QED
  BY <1>2, <1>4, <1>5 DEF RelationsInv, ChainInv

\* A step that touches no relation and no thread keeps them, and so does a
\* restart, which leaves no commit in progress.
LEMMA RelationsFrame ==
    ASSUME UNCHANGED dbVars, UNCHANGED <<pc, req>> \/ Restart
    PROVE  (RelationsInv => RelationsInv') /\ (ChainInv => ChainInv')
<1> USE DEF dbVars, seqVars
<1>1. RelationsInv => RelationsInv'
  BY DEF RelationsInv, HistoryInv, SchemaHistoryComplete, RowsInv
<1>2. LinearHistory => LinearHistory'
  BY DEF LinearHistory
<1>3. CASE UNCHANGED <<pc, req>>
  BY <1>1, <1>2, <1>3 DEF ChainInv, ParentInv, Parent, Name, get_current_snapshot, get_table
<1>4. CASE Restart
  <2>1. \A th \in Threads : pc'[th] = "idle"
    BY <1>4 DEF Restart, ThreadReset, Each
  <2> QED
    BY <1>1, <1>2, <2>1 DEF ChainInv, ParentInv
<1> QED
  BY <1>3, <1>4

\* The invariants are inductive, for the server beside any queries; the chain
\* needs every SELECT of a current snapshot to succeed.
LEMMA RelationsNext ==
    ASSUME SafetyInv, RelationsInv, [Next]_vars \/ (OneRequest /\ [QueryNext]_allVars)
    PROVE  /\ RelationsInv'
           /\ "current_read" \notin Faults /\ ChainInv => ChainInv'
<1>1. ASSUME NEW th \in Threads, Start(th) \/ HandlerStep(th)
      PROVE  /\ RelationsInv'
             /\ "current_read" \notin Faults /\ ChainInv => ChainInv'
  BY <1>1, HistoryStep, RowsStep, ParentStep, LinearStep
     DEF ThreadStep, RelationsInv, ChainInv
<1>2. ASSUME OneRequest, NEW th \in Threads, StartQuery(th) \/ QueryStep(th)
      PROVE  UNCHANGED dbVars /\ UNCHANGED <<pc, req>>
  BY <1>2, QueryTouches DEF SafetyInv, QueryEffect, localVars
<1>3. CASE CommitTransaction \/ Restart \/ Quiet \/ UNCHANGED vars
  BY <1>3, RelationsFrame
     DEF CommitTransaction, Restart, Quiet, vars, serverVars, localVars
<1> QED
  BY <1>1, <1>2, <1>3, RelationsFrame DEF Next, QueryNext, allVars

\* The schema history of every table is complete at all times, under every
\* fault: alter_table_schema's read and write stay one unit although another
\* thread may drop, rename or re-create the table around them.
THEOREM SchemaHistoryAlways == Spec => []SchemaHistoryComplete
<1>1. RelationsInv => SchemaHistoryComplete
  BY DEF RelationsInv
<1> QED
  BY <1>1, InitSafe, NextSafe, RelationsInit, RelationsNext, PTL DEF Spec

\* The snapshots of every table are one chain, for any number of committing
\* clients and under every fault but one: the SELECT of the current snapshot that
\* fails and reads as 0.
THEOREM HistoryAlwaysLinear ==
    ASSUME "current_read" \notin Faults
    PROVE  QuerySpec => []LinearHistory
<1>1. QueryInit => SafetyInv /\ OneRequest /\ RelationsInv /\ ChainInv
  BY InitSafe, RelationsInit DEF QueryInit, OneRequest, Asking, Each, NoQuery
<1>2. SafetyInv /\ OneRequest /\ RelationsInv /\ ChainInv /\ [QueryNext]_allVars =>
         SafetyInv' /\ OneRequest' /\ RelationsInv' /\ ChainInv'
  BY QueryNextSafe, RelationsNext
<1>3. ChainInv => LinearHistory
  BY DEF ChainInv
<1> QED
  BY <1>1, <1>2, <1>3, PTL DEF QuerySpec

-----------------------------------------------------------------------------
(* The versioned catalog *)

\* A table of the versioned catalog.
Table(n, b, d, v, c, h, l) ==
    [name |-> n, dropped |-> b, schema |-> d, version |-> v, current |-> c,
     schemas |-> h, log |-> l]

\* The entry of VisibleCatalog, part by part.
SchemasOf(id) ==
    {<<h.schema_version, h.schema>> : h \in {g \in schema_history : g.table_id = id}}

LogOf(id) ==
    LET S == {a \in snapshots : a.table_id = id} IN
    [s \in {a.snapshot_id : a \in S} |->
       [parent |-> (CHOOSE a \in S : a.snapshot_id = s).parent_snapshot_id,
        rows |-> View(id, s)]]

Seen(t) ==
    Table(t.table_name, t.is_deleted, t.schema, t.schema_version,
          t.current_snapshot_id, SchemasOf(t.table_id), LogOf(t.table_id))

\* The table of a row with some of its fields replaced.
LEMMA SeenRenamed ==
    ASSUME NEW t, NEW e
    PROVE  [Seen(t) EXCEPT !.name = e]
           = Table(e, t.is_deleted, t.schema, t.schema_version,
                   t.current_snapshot_id, SchemasOf(t.table_id), LogOf(t.table_id))
<1> DEFINE n == t.table_name   b == t.is_deleted  d == t.schema
           v == t.schema_version   c == t.current_snapshot_id
           h == SchemasOf(t.table_id)   l == LogOf(t.table_id)
<1>0. Seen(t) = Table(n, b, d, v, c, h, l)
  BY DEF Seen
<1> HIDE DEF n, b, d, v, c, h, l
<1>1. [Seen(t) EXCEPT !.name = e] = Table(e, b, d, v, c, h, l)
  BY <1>0 DEF Table
<1> QED
  BY <1>1 DEF n, b, d, v, c, h, l

LEMMA SeenDropped ==
    ASSUME NEW t, NEW e
    PROVE  [Seen(t) EXCEPT !.dropped = e]
           = Table(t.table_name, e, t.schema, t.schema_version,
                   t.current_snapshot_id, SchemasOf(t.table_id), LogOf(t.table_id))
<1> DEFINE n == t.table_name   b == t.is_deleted  d == t.schema
           v == t.schema_version   c == t.current_snapshot_id
           h == SchemasOf(t.table_id)   l == LogOf(t.table_id)
<1>0. Seen(t) = Table(n, b, d, v, c, h, l)
  BY DEF Seen
<1> HIDE DEF n, b, d, v, c, h, l
<1>1. [Seen(t) EXCEPT !.dropped = e] = Table(n, e, d, v, c, h, l)
  BY <1>0 DEF Table
<1> QED
  BY <1>1 DEF n, b, d, v, c, h, l

LEMMA SeenMoved ==
    ASSUME NEW t, NEW e, NEW w
    PROVE  [Seen(t) EXCEPT !.current = e, !.log = w]
           = Table(t.table_name, t.is_deleted, t.schema, t.schema_version,
                   e, SchemasOf(t.table_id), w)
<1> DEFINE n == t.table_name   b == t.is_deleted  d == t.schema
           v == t.schema_version   c == t.current_snapshot_id
           h == SchemasOf(t.table_id)   l == LogOf(t.table_id)
<1>0. Seen(t) = Table(n, b, d, v, c, h, l)
  BY DEF Seen
<1> HIDE DEF n, b, d, v, c, h, l
<1>1. [Seen(t) EXCEPT !.current = e] = Table(n, b, d, v, e, h, l)
  BY <1>0 DEF Table
<1>2. [Table(n, b, d, v, e, h, l) EXCEPT !.log = w] = Table(n, b, d, v, e, h, w)
  BY DEF Table
<1> QED
  BY <1>1, <1>2 DEF n, b, d, v, c, h, l

LEMMA SeenAltered ==
    ASSUME NEW t, NEW e, NEW w, NEW g
    PROVE  [Seen(t) EXCEPT !.schema = e, !.version = w, !.schemas = g]
           = Table(t.table_name, t.is_deleted, e, w,
                   t.current_snapshot_id, g, LogOf(t.table_id))
<1> DEFINE n == t.table_name   b == t.is_deleted  d == t.schema
           v == t.schema_version   c == t.current_snapshot_id
           h == SchemasOf(t.table_id)   l == LogOf(t.table_id)
<1>0. Seen(t) = Table(n, b, d, v, c, h, l)
  BY DEF Seen
<1> HIDE DEF n, b, d, v, c, h, l
<1>1. [Seen(t) EXCEPT !.schema = e] = Table(n, b, e, v, c, h, l)
  BY <1>0 DEF Table
<1>2. [Table(n, b, e, v, c, h, l) EXCEPT !.version = w] = Table(n, b, e, w, c, h, l)
  BY DEF Table
<1>3. [Table(n, b, e, w, c, h, l) EXCEPT !.schemas = g] = Table(n, b, e, w, c, g, l)
  BY DEF Table
<1> QED
  BY <1>1, <1>2, <1>3 DEF n, b, d, v, c, h, l

\* The fields of a table.
LEMMA TableFields ==
    ASSUME NEW n, NEW b, NEW d, NEW v, NEW c, NEW h, NEW l
    PROVE  LET t == Table(n, b, d, v, c, h, l) IN
           /\ t.name = n /\ t.dropped = b /\ t.schema = d /\ t.version = v
           /\ t.current = c /\ t.schemas = h /\ t.log = l
  BY DEF Table

\* The table of a row in the next state.
LEMMA SeenNext ==
    ASSUME NEW t
    PROVE  Seen(t)' = Table(t.table_name, t.is_deleted, t.schema, t.schema_version,
                            t.current_snapshot_id, SchemasOf(t.table_id)', LogOf(t.table_id)')
  BY DEF Seen, Table

\* A row of the tables relation is the table of its id, in this state and in
\* the next.
LEMMA SeenRow ==
    /\ DbInv => /\ VisibleCatalog = [id \in DOMAIN VisibleCatalog |-> VisibleCatalog[id]]
                /\ DOMAIN VisibleCatalog = {t.table_id : t \in tables}
                /\ \A t \in tables : VisibleCatalog[t.table_id] = Seen(t)
    /\ DbInv' => /\ VisibleCatalog' = [id \in DOMAIN VisibleCatalog' |-> VisibleCatalog'[id]]
                 /\ DOMAIN VisibleCatalog' = {t.table_id : t \in tables'}
                 /\ \A t \in tables' : VisibleCatalog'[t.table_id] = Seen(t)'
<1>1. ASSUME DbInv, NEW t \in tables
      PROVE  (CHOOSE r \in tables : r.table_id = t.table_id) = t
  BY <1>1 DEF DbInv
<1>2. ASSUME DbInv', NEW t \in tables'
      PROVE  (CHOOSE r \in tables' : r.table_id = t.table_id) = t
  BY <1>2 DEF DbInv
<1>3. ASSUME DbInv, NEW t \in tables PROVE VisibleCatalog[t.table_id] = Seen(t)
  BY <1>1, <1>3 DEF VisibleCatalog, Seen, Table, SchemasOf, LogOf, View, Visible, Select
<1>4. ASSUME DbInv', NEW t \in tables' PROVE VisibleCatalog'[t.table_id] = Seen(t)'
  BY <1>2, <1>4 DEF VisibleCatalog, Seen, Table, SchemasOf, LogOf, View, Visible, Select
<1>5. VisibleCatalog = [id \in DOMAIN VisibleCatalog |-> VisibleCatalog[id]]
      /\ DOMAIN VisibleCatalog = {t.table_id : t \in tables}
  BY DEF VisibleCatalog, View, Visible, Select
<1>6. VisibleCatalog' = [id \in DOMAIN VisibleCatalog' |-> VisibleCatalog'[id]]
      /\ DOMAIN VisibleCatalog' = {t.table_id : t \in tables'}
  BY DEF VisibleCatalog, View, Visible, Select
<1> QED
  BY <1>3, <1>4, <1>5, <1>6

\* A table's schemas and its log change only with the rows of its own id.
LEMMA SeenFrame ==
    ASSUME NEW id
    PROVE  /\ {g \in schema_history' : g.table_id = id} =
              {g \in schema_history : g.table_id = id}
              => SchemasOf(id)' = SchemasOf(id)
           /\ /\ {a \in snapshots' : a.table_id = id} = {a \in snapshots : a.table_id = id}
              /\ \A a \in snapshots : a.table_id = id =>
                    View(id, a.snapshot_id)' = View(id, a.snapshot_id)
              => LogOf(id)' = LogOf(id)
<1>1. ASSUME {g \in schema_history' : g.table_id = id} =
             {g \in schema_history : g.table_id = id}
      PROVE  SchemasOf(id)' = SchemasOf(id)
  BY <1>1 DEF SchemasOf
<1>2. ASSUME {a \in snapshots' : a.table_id = id} = {a \in snapshots : a.table_id = id},
             \A a \in snapshots : a.table_id = id =>
                    View(id, a.snapshot_id)' = View(id, a.snapshot_id)
      PROVE  LogOf(id)' = LogOf(id)
  <2> DEFINE S == {a \in snapshots : a.table_id = id}
             D == {a.snapshot_id : a \in S}
             P(s) == (CHOOSE a \in S : a.snapshot_id = s).parent_snapshot_id
  <2>1. \A s \in D : View(id, s)' = View(id, s)
    BY <1>2
  <2>2. LogOf(id) = [s \in D |-> [parent |-> P(s), rows |-> View(id, s)]]
    BY DEF LogOf
  <2>3. LogOf(id)' = [s \in D |-> [parent |-> P(s), rows |-> View(id, s)']]
    BY <1>2 DEF LogOf
  <2> HIDE DEF D, P
  <2> QED
    BY <2>1, <2>2, <2>3
<1> QED
  BY <1>1, <1>2

\* The log entry of a snapshot holds its row's parent and its view.
LEMMA LogEntry ==
    ASSUME NEW id
    PROVE  /\ RowsInv => \A a \in snapshots : a.table_id = id =>
                 /\ a.snapshot_id \in DOMAIN LogOf(id)
                 /\ LogOf(id)[a.snapshot_id] =
                       [parent |-> a.parent_snapshot_id, rows |-> View(id, a.snapshot_id)]
           /\ RowsInv' => \A a \in snapshots' : a.table_id = id =>
                 /\ a.snapshot_id \in DOMAIN LogOf(id)'
                 /\ LogOf(id)'[a.snapshot_id] =
                       [parent |-> a.parent_snapshot_id, rows |-> View(id, a.snapshot_id)']
<1>1. ASSUME RowsInv, NEW a \in snapshots, a.table_id = id
      PROVE  /\ a.snapshot_id \in DOMAIN LogOf(id)
             /\ LogOf(id)[a.snapshot_id] =
                   [parent |-> a.parent_snapshot_id, rows |-> View(id, a.snapshot_id)]
  <2> DEFINE S == {b \in snapshots : b.table_id = id}
  <2>1. (CHOOSE b \in S : b.snapshot_id = a.snapshot_id) = a
    BY <1>1 DEF RowsInv
  <2>2. a.snapshot_id \in {b.snapshot_id : b \in S}
    BY <1>1
  <2> QED
    BY <2>1, <2>2 DEF LogOf
<1>2. ASSUME RowsInv', NEW a \in snapshots', a.table_id = id
      PROVE  /\ a.snapshot_id \in DOMAIN LogOf(id)'
             /\ LogOf(id)'[a.snapshot_id] =
                   [parent |-> a.parent_snapshot_id, rows |-> View(id, a.snapshot_id)']
  <2> DEFINE S == {b \in snapshots' : b.table_id = id}
  <2>1. (CHOOSE b \in S : b.snapshot_id = a.snapshot_id) = a
    BY <1>2 DEF RowsInv
  <2>2. a.snapshot_id \in {b.snapshot_id : b \in S}
    BY <1>2
  <2> QED
    BY <2>1, <2>2 DEF LogOf
<1> QED
  BY <1>1, <1>2

\* When one row becomes another of the same id, and the other tables' own rows
\* stay, the catalog changes at that id only.
LEMMA CatalogChange ==
    ASSUME DbInv, DbInv', NEW r \in tables, NEW u, RowBecomes(r, u),
           u.table_id = r.table_id,
           \A t \in tables : t.table_id # r.table_id =>
              /\ SchemasOf(t.table_id)' = SchemasOf(t.table_id)
              /\ LogOf(t.table_id)' = LogOf(t.table_id)
    PROVE  /\ r.table_id \in DOMAIN VisibleCatalog
           /\ r.table_id \in DOMAIN VisibleCatalog'
           /\ VisibleCatalog[r.table_id] = Seen(r)
           /\ VisibleCatalog'[r.table_id] = Seen(u)'
           /\ VisibleCatalog' = [VisibleCatalog EXCEPT ![r.table_id] = Seen(u)']
<1> DEFINE C == VisibleCatalog
           D == VisibleCatalog'
<1>1. /\ C = [id \in DOMAIN C |-> C[id]] /\ DOMAIN C = {t.table_id : t \in tables}
      /\ \A t \in tables : C[t.table_id] = Seen(t)
      /\ D = [id \in DOMAIN D |-> D[id]] /\ DOMAIN D = {t.table_id : t \in tables'}
      /\ \A t \in tables' : D[t.table_id] = Seen(t)'
  BY SeenRow
<1>2. u \in tables' /\ \A t \in tables' : t = u \/ (t \in tables /\ t.table_id # r.table_id)
  BY OtherRows DEF RowBecomes
<1>3. \A t \in tables : t.table_id # r.table_id => t \in tables'
  BY DEF RowBecomes
<1>4. \A t \in tables : t.table_id # r.table_id => Seen(t)' = Seen(t)
  BY SeenNext DEF Seen
<1> HIDE DEF C, D
<1>5. DOMAIN D = DOMAIN C
  BY <1>1, <1>2, <1>3
<1>6. \A id \in DOMAIN C : id # r.table_id => D[id] = C[id]
  BY <1>1, <1>3, <1>4
<1>7. D[r.table_id] = Seen(u)' /\ r.table_id \in DOMAIN C /\ C[r.table_id] = Seen(r)
  BY <1>1, <1>2
<1>8. D = [C EXCEPT ![r.table_id] = Seen(u)']
  BY <1>1, <1>5, <1>6, <1>7
<1> QED
  BY <1>5, <1>7, <1>8 DEF C, D

\* A schema change is Alter, a rename Rename, a soft delete SoftDrop.
LEMMA RowStepImplements ==
    ASSUME SafetyInv, SafetyInv', NEW th \in Threads, NEW r \in get_table(Name(th)),
           Alters(th, r) \/ Renames(th, r) \/ SoftDrops(r)
    PROVE  Promised!CatalogNext
<1> DEFINE id == r.table_id
<1>a. /\ DbInv /\ DbInv' /\ r \in tables /\ r \in TableRow /\ ~r.is_deleted
  BY DEF SafetyInv, TypeOK, DbTypeOK, get_table
<1>b. UNCHANGED <<snapshots, partitions>>
  BY DEF Alters, Renames, SoftDrops
<1>c. \A t : LogOf(t)' = LogOf(t)
  BY <1>b, SeenFrame DEF View, Visible, Select
<1>1. CASE Alters(th, r)
  <2>0. PICK d : d = req[th].schema
    OBVIOUS
  <2>u. PICK u : u = [r EXCEPT !.schema = d, !.schema_version = r.schema_version + 1]
    OBVIOUS
  <2>r. PICK row : row = [table_id |-> id, schema_version |-> r.schema_version + 1, schema |-> d]
    OBVIOUS
  <2>1. RowBecomes(r, u) /\ schema_history' = schema_history \cup {row}
    BY <1>1, <2>0, <2>u, <2>r DEF Alters
  <2>2. /\ u.table_id = id /\ u.table_name = r.table_name /\ u.is_deleted = r.is_deleted
        /\ u.current_snapshot_id = r.current_snapshot_id
        /\ u.schema = d /\ u.schema_version = r.schema_version + 1
    BY <1>a, <2>u DEF TableRow
  <2>3. /\ row.table_id = id /\ row.schema_version = r.schema_version + 1
        /\ row.schema = d
    BY <2>r
  <2>4. \A t : t # id => SchemasOf(t)' = SchemasOf(t)
    BY <2>1, <2>3, SeenFrame
  <2>5. SchemasOf(id)' = SchemasOf(id) \cup {<<r.schema_version + 1, d>>}
    BY <2>1, <2>3 DEF SchemasOf
  <2>6. /\ id \in DOMAIN VisibleCatalog /\ id \in DOMAIN VisibleCatalog'
        /\ VisibleCatalog[id] = Seen(r) /\ VisibleCatalog'[id] = Seen(u)'
        /\ VisibleCatalog' = [VisibleCatalog EXCEPT ![id] = Seen(u)']
    BY <1>a, <1>c, <2>1, <2>2, <2>4, CatalogChange
  <2>7. Seen(u)' = [Seen(r) EXCEPT !.schema = d, !.version = r.schema_version + 1,
                       !.schemas = SchemasOf(id) \cup {<<r.schema_version + 1, d>>}]
    <3>1. PICK v : v = r.schema_version + 1
      OBVIOUS
    <3>2. PICK S : S = SchemasOf(id) \cup {<<v, d>>}
      OBVIOUS
    <3>3. [Seen(r) EXCEPT !.schema = d, !.version = v, !.schemas = S]
          = Table(r.table_name, r.is_deleted, d, v, r.current_snapshot_id, S, LogOf(id))
      BY SeenAltered, Zenon
    <3>4. Seen(u)'
          = Table(r.table_name, r.is_deleted, d, v, r.current_snapshot_id, S, LogOf(id))
      BY <1>c, <2>2, <2>5, <3>1, <3>2, SeenNext
    <3> QED
      BY <3>1, <3>2, <3>3, <3>4
  <2>8. /\ Seen(u)'.schema = d /\ Seen(r).version = r.schema_version
        /\ Seen(r).schemas = SchemasOf(id) /\ ~Seen(r).dropped
    BY <1>a, <2>2, SeenNext, TableFields DEF Seen
  <2>9. Promised!Alter(id)
    BY <2>6, <2>7, <2>8 DEF Promised!Alter, Promised!Change
  <2> QED
    BY <2>6, <2>9 DEF Promised!CatalogNext, Promised!Ids
<1> HIDE DEF id
<1>2. CASE Renames(th, r)
  <2>0. PICK n : n = req[th].to
    OBVIOUS
  <2>u. PICK u : u = [r EXCEPT !.table_name = n]
    OBVIOUS
  <2>1. RowBecomes(r, u) /\ UNCHANGED schema_history /\ ~NameTaken(n)
    BY <1>2, <2>0, <2>u DEF Renames
  <2>2. /\ u.table_id = r.table_id /\ u.table_name = n
        /\ u.is_deleted = r.is_deleted
        /\ u.current_snapshot_id = r.current_snapshot_id
        /\ u.schema = r.schema /\ u.schema_version = r.schema_version
    BY <1>a, <2>u DEF TableRow
  <2>3. \A t : SchemasOf(t)' = SchemasOf(t)
    BY <2>1, SeenFrame
  <2>4. /\ id \in DOMAIN VisibleCatalog /\ id \in DOMAIN VisibleCatalog'
        /\ VisibleCatalog[id] = Seen(r) /\ VisibleCatalog'[id] = Seen(u)'
        /\ VisibleCatalog' = [VisibleCatalog EXCEPT ![id] = Seen(u)']
    BY <1>a, <1>c, <2>1, <2>2, <2>3, CatalogChange DEF id
  <2>5. Seen(u)' = [Seen(r) EXCEPT !.name = n]
    <3>1. [Seen(r) EXCEPT !.name = n]
          = Table(n, r.is_deleted, r.schema, r.schema_version, r.current_snapshot_id,
                  SchemasOf(r.table_id), LogOf(r.table_id))
      BY SeenRenamed, Zenon
    <3>2. Seen(u)' = Table(n, r.is_deleted, r.schema, r.schema_version, r.current_snapshot_id,
                  SchemasOf(r.table_id), LogOf(r.table_id))
      BY <1>c, <2>2, <2>3, SeenNext
    <3> QED
      BY <3>1, <3>2
  <2>6. Seen(u)'.name = n /\ ~Seen(r).dropped
    BY <1>a, <2>2, SeenNext, TableFields DEF Seen
  <2>7. \A i \in DOMAIN VisibleCatalog : VisibleCatalog[i].name # n
    <3>1. \A t \in tables : Seen(t).name # n
      BY <2>1, TableFields DEF NameTaken, Seen
    <3> QED
      BY <1>a, <3>1, SeenRow
  <2>8. Promised!Rename(id)
    BY <2>4, <2>5, <2>6, <2>7
       DEF Promised!Rename, Promised!Change, Promised!NameFree, Promised!Ids
  <2> QED
    BY <2>4, <2>8 DEF Promised!CatalogNext, Promised!Ids
<1>3. CASE SoftDrops(r)
  <2>u. PICK u : u = [r EXCEPT !.is_deleted = TRUE]
    OBVIOUS
  <2>1. RowBecomes(r, u) /\ UNCHANGED schema_history
    BY <1>3, <2>u DEF SoftDrops
  <2>2. /\ u.table_id = r.table_id /\ u.table_name = r.table_name
        /\ u.is_deleted = TRUE
        /\ u.current_snapshot_id = r.current_snapshot_id
        /\ u.schema = r.schema /\ u.schema_version = r.schema_version
    BY <1>a, <2>u DEF TableRow
  <2>3. \A t : SchemasOf(t)' = SchemasOf(t)
    BY <2>1, SeenFrame
  <2>4. /\ id \in DOMAIN VisibleCatalog /\ id \in DOMAIN VisibleCatalog'
        /\ VisibleCatalog[id] = Seen(r) /\ VisibleCatalog'[id] = Seen(u)'
        /\ VisibleCatalog' = [VisibleCatalog EXCEPT ![id] = Seen(u)']
    BY <1>a, <1>c, <2>1, <2>2, <2>3, CatalogChange DEF id
  <2>5. Seen(u)' = [Seen(r) EXCEPT !.dropped = TRUE] /\ ~Seen(r).dropped
    <3>1. PICK yes : yes = TRUE
      OBVIOUS
    <3>2. u.is_deleted = yes
      BY <2>2, <3>1, Zenon
    <3>3. Seen(u)' = [Seen(r) EXCEPT !.dropped = yes]
      <4>1. [Seen(r) EXCEPT !.dropped = yes]
            = Table(r.table_name, yes, r.schema, r.schema_version, r.current_snapshot_id,
                    SchemasOf(r.table_id), LogOf(r.table_id))
        BY SeenDropped, Zenon
      <4>2. Seen(u)' = Table(r.table_name, yes, r.schema, r.schema_version, r.current_snapshot_id,
                    SchemasOf(r.table_id), LogOf(r.table_id))
        BY <1>c, <2>2, <2>3, <3>2, SeenNext
      <4> QED
        BY <4>1, <4>2
    <3>4. ~Seen(r).dropped
      BY <1>a, TableFields DEF Seen
    <3> QED
      BY <3>1, <3>3, <3>4, Zenon
  <2>6. Promised!SoftDrop(id)
    BY <2>4, <2>5 DEF Promised!SoftDrop, Promised!Change
  <2> QED
    BY <2>4, <2>6 DEF Promised!CatalogNext, Promised!Ids
<1> QED
  BY <1>1, <1>2, <1>3


\* A new table is Create: its id is fresh, so it has no history and no log.
LEMMA CreateImplements ==
    ASSUME SafetyInv, SafetyInv', HistoryInv, NEW th \in Threads, Creates(th)
    PROVE  Promised!CatalogNext
<1>a. /\ DbInv /\ DbInv' /\ table_seq \in Nat /\ tables \subseteq TableRow
      /\ snapshots \subseteq SnapshotRow /\ schema_history \subseteq HistoryRow
  BY DEF SafetyInv, TypeOK, DbTypeOK
<1>k. PICK k : k = table_seq + 1
  OBVIOUS
<1>u. PICK u : u = NewTable(k, Name(th), req[th].schema)
  OBVIOUS
<1>1. /\ ~NameTaken(Name(th)) /\ tables' = tables \cup {u}
      /\ UNCHANGED <<snapshots, partitions, schema_history>>
  BY <1>k, <1>u DEF Creates
<1>2. /\ u.table_id = k /\ u.table_name = Name(th) /\ u.schema_version = 1
      /\ u.current_snapshot_id = 0 /\ ~u.is_deleted
  BY <1>u DEF NewTable
<1>3. /\ \A t \in tables : t.table_id # k
      /\ \A a \in snapshots : a.table_id # k
      /\ \A h \in schema_history : h.table_id # k
  BY <1>a, <1>k DEF DbInv, HistoryInv, TableRow, SnapshotRow, HistoryRow
<1>4. \A t : SchemasOf(t)' = SchemasOf(t) /\ LogOf(t)' = LogOf(t)
  BY <1>1, SeenFrame DEF View, Visible, Select
<1>5. SchemasOf(k)' = {} /\ DOMAIN LogOf(k)' = {}
  <2>1. SchemasOf(k)' = {}
    BY <1>1, <1>3 DEF SchemasOf
  <2>2. {a \in snapshots' : a.table_id = k} = {}
    BY <1>1, <1>3
  <2> QED
    BY <2>1, <2>2 DEF LogOf
<1> DEFINE C == VisibleCatalog
           D == VisibleCatalog'
<1>6. /\ C = [i \in DOMAIN C |-> C[i]] /\ DOMAIN C = {t.table_id : t \in tables}
      /\ \A t \in tables : C[t.table_id] = Seen(t)
      /\ D = [i \in DOMAIN D |-> D[i]] /\ DOMAIN D = {t.table_id : t \in tables'}
      /\ \A t \in tables' : D[t.table_id] = Seen(t)'
  BY <1>a, SeenRow
<1>7. \A t \in tables : Seen(t)' = Seen(t)
  BY <1>4, SeenNext DEF Seen
<1>8. /\ Seen(u)'.name = Name(th) /\ Seen(u)'.version = 1 /\ Seen(u)'.schemas = {}
      /\ Seen(u)'.current = 0 /\ DOMAIN Seen(u)'.log = {} /\ ~Seen(u)'.dropped
  BY <1>2, <1>5, SeenNext, TableFields
<1>9. \A i \in DOMAIN C : C[i].name # Name(th)
  <2>1. \A t \in tables : Seen(t).name # Name(th)
    BY <1>1, TableFields DEF NameTaken, Seen
  <2> QED
    BY <1>6, <2>1
<1> HIDE DEF C, D
<1>10. DOMAIN D = DOMAIN C \cup {k} /\ k \notin DOMAIN C /\ D[k] = Seen(u)'
  BY <1>1, <1>2, <1>3, <1>6
<1>11. \A i \in DOMAIN C : D[i] = C[i]
  BY <1>1, <1>6, <1>7
<1>12. D = [i \in DOMAIN C \cup {k} |-> IF i = k THEN D[k] ELSE C[i]]
  BY <1>6, <1>10, <1>11
<1>13. Promised!Create
  BY <1>8, <1>9, <1>10, <1>12
     DEF C, D, Promised!Create, Promised!Ids, Promised!NameFree, Promised!EmptyTable
<1> QED
  BY <1>13 DEF Promised!CatalogNext

\* A purge is Purge.
LEMMA PurgeImplements ==
    ASSUME SafetyInv, SafetyInv', NEW th \in Threads, NEW r \in get_table(Name(th)),
           Purges(r)
    PROVE  Promised!CatalogNext
<1>a. DbInv /\ DbInv' /\ r \in tables /\ ~r.is_deleted
  BY DEF SafetyInv, get_table
<1> DEFINE C == VisibleCatalog
           D == VisibleCatalog'
<1>1. \A t \in tables' : t \in tables /\ t.table_id # r.table_id
  BY <1>a DEF Purges, DbInv
<1>2. \A t \in tables : t.table_id # r.table_id => t \in tables'
  BY DEF Purges
<1>3. ASSUME NEW t \in tables, t.table_id # r.table_id
      PROVE  SchemasOf(t.table_id)' = SchemasOf(t.table_id) /\ LogOf(t.table_id)' = LogOf(t.table_id)
  <2> DEFINE i == t.table_id
  <2>1. /\ {g \in schema_history' : g.table_id = i} = {g \in schema_history : g.table_id = i}
        /\ {a \in snapshots' : a.table_id = i} = {a \in snapshots : a.table_id = i}
        /\ {p \in partitions' : p.table_id = i} = {p \in partitions : p.table_id = i}
    BY <1>3 DEF Purges, DeleteFrom
  <2> HIDE DEF i
  <2>2. \A s : View(i, s)' = View(i, s)
    BY <2>1 DEF View, Visible, Select
  <2> QED
    BY <2>1, <2>2, SeenFrame DEF i
<1>4. /\ C = [i \in DOMAIN C |-> C[i]] /\ DOMAIN C = {t.table_id : t \in tables}
      /\ \A t \in tables : C[t.table_id] = Seen(t)
      /\ D = [i \in DOMAIN D |-> D[i]] /\ DOMAIN D = {t.table_id : t \in tables'}
      /\ \A t \in tables' : D[t.table_id] = Seen(t)'
  BY <1>a, SeenRow
<1>5. \A t \in tables' : Seen(t)' = Seen(t)
  BY <1>1, <1>3, SeenNext DEF Seen
<1>6. ~Seen(r).dropped
  BY <1>a, TableFields DEF Seen
<1> HIDE DEF C, D
<1>7. DOMAIN D = DOMAIN C \ {r.table_id} /\ r.table_id \in DOMAIN C /\ C[r.table_id] = Seen(r)
  BY <1>a, <1>1, <1>2, <1>4
<1>8. \A i \in DOMAIN D : D[i] = C[i]
  BY <1>1, <1>4, <1>5
<1>9. D = [i \in DOMAIN C \ {r.table_id} |-> C[i]]
  BY <1>4, <1>7, <1>8
<1>10. Promised!Purge(r.table_id)
  BY <1>6, <1>7, <1>9 DEF C, D, Promised!Purge, Promised!Ids
<1> QED
  BY <1>7, <1>10 DEF C, Promised!CatalogNext, Promised!Ids


\* What a snapshot shows right after its commit: partitions of the snapshot
\* before it, and those it added.
LEMMA CommitShows ==
    ASSUME SafetyInv, RowsInv, NEW th \in Threads,
           NEW r \in get_table(Name(th)), CommitsTo(th, r),
           NEW s, s = snap[th], NEW q \in View(r.table_id, s)'
    PROVE  \/ q.snapshot_id = s
           \/ r.current_snapshot_id # 0 /\ q \in View(r.table_id, r.current_snapshot_id)
<1>a. /\ r \in tables /\ r.table_id \in Nat /\ r.current_snapshot_id \in Nat
      /\ s \in Nat /\ r.current_snapshot_id < s
      /\ req[th].adds \in Seq(Keys) /\ req[th].dels \in SUBSET Keys
      /\ partition_seq \in Nat
  BY CommitFacts
<1>b. DbTypeOK /\ partitions \subseteq StoredRow
  BY DEF SafetyInv, TypeOK, DbTypeOK
<1>1. PICK p \in partitions' :
         /\ p.table_id = r.table_id /\ p.snapshot_id <= s
         /\ ~p.is_deleted \/ p.deleted_snapshot_id > s
         /\ q = Select(p)
  BY DEF View, Visible, Select
<1>2. q.snapshot_id = p.snapshot_id
  BY <1>1 DEF Select
<1>3. p \in mark_partitions_deleted(
               insert_partitions(r.table_id, s, req[th].adds, partition_seq),
               r.table_id, req[th].dels, s)
  BY DEF CommitsTo
<1>4. CASE p \in partitions
  <2>1. /\ p \in StoredRow
        /\ 0 < p.snapshot_id /\ p.snapshot_id <= r.current_snapshot_id
        /\ p.is_deleted => p.deleted_snapshot_id <= r.current_snapshot_id
    BY <1>a, <1>b, <1>1, <1>4 DEF RowsInv
  <2>2. p.snapshot_id \in Nat /\ p.deleted_snapshot_id \in Nat
    BY <2>1 DEF StoredRow
  <2>3. ~p.is_deleted /\ r.current_snapshot_id # 0
    BY <1>a, <1>1, <2>1, <2>2
  <2>4. Visible(p, r.current_snapshot_id)
    BY <2>1, <2>3 DEF Visible
  <2> QED
    BY <1>1, <1>4, <2>3, <2>4 DEF View
<1>5. CASE p.is_deleted /\ p.deleted_snapshot_id = s
  BY <1>a, <1>1, <1>5
<1>6. CASE p.snapshot_id = s
  BY <1>2, <1>6
<1> QED
  BY <1>a, <1>b, <1>3, <1>4, <1>5, <1>6, CommittedRows

\* A commit is Commit: it adds one entry to the table's log.
LEMMA CommitImplements ==
    ASSUME SafetyInv, SafetyInv', RowsInv, RowsInv', ParentInv, LinearHistory,
           NEW th \in Threads, NEW r \in get_table(Name(th)), CommitsTo(th, r)
    PROVE  Promised!CatalogNext
<1>a. /\ r \in tables /\ r \in TableRow /\ ~r.is_deleted /\ r.table_id \in Nat
      /\ r.current_snapshot_id \in Nat /\ snap[th] \in Nat
      /\ r.current_snapshot_id < snap[th]
      /\ req[th].adds \in Seq(Keys) /\ req[th].dels \in SUBSET Keys
      /\ partition_seq \in Nat
      /\ get_current_snapshot(Name(th)) = r.current_snapshot_id
  BY CommitFacts
<1>b. /\ DbInv /\ DbInv' /\ DbTypeOK /\ tables \subseteq TableRow
      /\ snapshots \subseteq SnapshotRow
  BY DEF SafetyInv, TypeOK, DbTypeOK
<1>k. PICK id : id = r.table_id
  OBVIOUS
<1>s. PICK s : s = snap[th]
  OBVIOUS
<1>u. PICK u : u = [r EXCEPT !.current_snapshot_id = s]
  OBVIOUS
<1>o. PICK row : row = [snapshot_id |-> s, table_id |-> id,
                        parent_snapshot_id |-> r.current_snapshot_id]
  OBVIOUS
<1>1. /\ RowBecomes(r, u) /\ snapshots' = snapshots \cup {row}
      /\ UNCHANGED schema_history
  <2>1. Parent(th) = r.current_snapshot_id
    BY <1>a DEF CommitsTo, ParentInv, At
  <2> QED
    BY <1>k, <1>s, <1>u, <1>o, <2>1 DEF CommitsTo
<1>2. /\ u.table_id = id /\ u.table_name = r.table_name /\ u.is_deleted = r.is_deleted
      /\ u.current_snapshot_id = s
      /\ u.schema = r.schema /\ u.schema_version = r.schema_version
  BY <1>a, <1>k, <1>u DEF TableRow
<1>3. /\ row.table_id = id /\ row.snapshot_id = s
      /\ row.parent_snapshot_id = r.current_snapshot_id
  BY <1>o
<1>4. \A i, v \in Nat : i # id \/ v < s => View(i, v)' = View(i, v)
  BY <1>a, <1>b, <1>k, <1>s, CommitViews DEF CommitsTo
<1>5. \A t : SchemasOf(t)' = SchemasOf(t)
  BY <1>1, SeenFrame
<1>6. ASSUME NEW t \in tables, t.table_id # id
      PROVE  LogOf(t.table_id)' = LogOf(t.table_id)
  <2> DEFINE i == t.table_id
  <2>1. {a \in snapshots' : a.table_id = i} = {a \in snapshots : a.table_id = i}
    BY <1>1, <1>3, <1>6
  <2>2. i \in Nat /\ \A a \in snapshots : a.snapshot_id \in Nat
    BY <1>b DEF TableRow, SnapshotRow
  <2>3. \A a \in snapshots : View(i, a.snapshot_id)' = View(i, a.snapshot_id)
    BY <1>4, <1>6, <2>2
  <2> HIDE DEF i
  <2> QED
    BY <2>1, <2>3, SeenFrame DEF i
<1>7. /\ id \in DOMAIN VisibleCatalog /\ id \in DOMAIN VisibleCatalog'
      /\ VisibleCatalog[id] = Seen(r) /\ VisibleCatalog'[id] = Seen(u)'
      /\ VisibleCatalog' = [VisibleCatalog EXCEPT ![id] = Seen(u)']
  BY <1>a, <1>b, <1>k, <1>1, <1>2, <1>5, <1>6, CatalogChange
<1> DEFINE L == LogOf(id)
           M == LogOf(id)'
<1>8. /\ L = [x \in DOMAIN L |-> L[x]] /\ DOMAIN L = {a.snapshot_id : a \in {b \in snapshots : b.table_id = id}}
      /\ M = [x \in DOMAIN M |-> M[x]] /\ DOMAIN M = {a.snapshot_id : a \in {b \in snapshots' : b.table_id = id}}
  BY DEF LogOf
<1>9. DOMAIN M = DOMAIN L \cup {s}
  BY <1>1, <1>3, <1>8
<1>10. M[s] = [parent |-> r.current_snapshot_id, rows |-> View(id, s)']
  BY <1>1, <1>3, LogEntry
<1>11. \A x \in DOMAIN L : x # s => M[x] = L[x]
  <2> SUFFICES ASSUME NEW a \in snapshots, a.table_id = id
               PROVE  M[a.snapshot_id] = L[a.snapshot_id]
    BY <1>8
  <2>1. a.snapshot_id \in Nat /\ a.snapshot_id < s
    BY <1>a, <1>b, <1>k, <1>s DEF RowsInv, SnapshotRow
  <2>2. View(id, a.snapshot_id)' = View(id, a.snapshot_id)
    BY <1>a, <1>k, <1>4, <2>1
  <2>3. /\ L[a.snapshot_id] = [parent |-> a.parent_snapshot_id, rows |-> View(id, a.snapshot_id)]
        /\ M[a.snapshot_id] = [parent |-> a.parent_snapshot_id, rows |-> View(id, a.snapshot_id)']
    BY <1>1, LogEntry
  <2> QED
    BY <2>2, <2>3
<1>12. r.current_snapshot_id # 0 =>
          L[r.current_snapshot_id].rows = View(id, r.current_snapshot_id)
  <2> SUFFICES ASSUME r.current_snapshot_id # 0
               PROVE  L[r.current_snapshot_id].rows = View(id, r.current_snapshot_id)
    OBVIOUS
  <2>1. PICK a \in snapshots : a.table_id = id /\ a.snapshot_id = r.current_snapshot_id
    BY <1>a, <1>k DEF LinearHistory
  <2>2. L[a.snapshot_id] = [parent |-> a.parent_snapshot_id, rows |-> View(id, a.snapshot_id)]
    BY <2>1, LogEntry
  <2> QED
    BY <2>1, <2>2
<1>13. M[s].parent = r.current_snapshot_id /\ M[s].rows = View(id, s)'
  BY <1>10
<1>14. \A q \in M[s].rows :
          \/ q \in IF r.current_snapshot_id = 0 THEN {} ELSE L[r.current_snapshot_id].rows
          \/ q.snapshot_id = s
  BY <1>k, <1>s, <1>12, <1>13, CommitShows
<1> HIDE DEF L, M
<1>15. M = [x \in DOMAIN L \cup {s} |-> IF x = s THEN M[s] ELSE L[x]]
  BY <1>8, <1>9, <1>11
<1>16. Seen(u)' = [Seen(r) EXCEPT !.current = s, !.log = M]
  <2>1. PICK m : m = M
    OBVIOUS
  <2>2. [Seen(r) EXCEPT !.current = s, !.log = m]
        = Table(r.table_name, r.is_deleted, r.schema, r.schema_version, s,
                SchemasOf(r.table_id), m)
    BY SeenMoved, Zenon
  <2>3. Seen(u)' = Table(r.table_name, r.is_deleted, r.schema, r.schema_version, s,
                SchemasOf(r.table_id), m)
    BY <1>k, <1>2, <1>5, <2>1, SeenNext DEF M
  <2> QED
    BY <2>1, <2>2, <2>3
<1>17. /\ Seen(u)'.current = s /\ Seen(u)'.log = M /\ ~Seen(r).dropped
       /\ Seen(r).current = r.current_snapshot_id /\ Seen(r).log = L
  BY <1>a, <1>k, <1>2, SeenNext, TableFields DEF Seen, L, M
<1>18. Promised!Commit(id)
  BY <1>a, <1>s, <1>7, <1>13, <1>14, <1>15, <1>16, <1>17 DEF Promised!Commit, Promised!Change
<1> QED
  BY <1>7, <1>18 DEF Promised!CatalogNext, Promised!Ids

\* A step that changes no row leaves the catalog as it is.
LEMMA CatalogFrame ==
    ASSUME UNCHANGED <<tables, snapshots, partitions, schema_history>>
    PROVE  VisibleCatalog' = VisibleCatalog
  BY DEF VisibleCatalog, View, Visible, Select

\* The preloaded tables are empty and have different names.
LEMMA CatalogStarts == Init => Promised!CatalogInit
<1> SUFFICES ASSUME Init PROVE Promised!CatalogInit
  OBVIOUS
<1>1. DbInv /\ snapshots = {} /\ schema_history = {}
  BY InitSafe DEF Init, DbInit, SafetyInv
<1>2. \A t \in tables : /\ t.schema_version = 1 /\ t.current_snapshot_id = 0
                        /\ ~t.is_deleted
  <2>1. PICK d \in Schemas :
           tables = {NewTable(i, Preloaded[i], d) : i \in DOMAIN Preloaded}
    BY DEF Init, DbInit
  <2>2. \A i : /\ NewTable(i, Preloaded[i], d).schema_version = 1
               /\ NewTable(i, Preloaded[i], d).current_snapshot_id = 0
               /\ ~NewTable(i, Preloaded[i], d).is_deleted
    BY DEF NewTable
  <2> QED
    BY <2>1, <2>2
<1>3. \A i : SchemasOf(i) = {} /\ DOMAIN LogOf(i) = {}
  BY <1>1 DEF SchemasOf, LogOf
<1>4. \A t \in tables : /\ Seen(t).version = 1 /\ Seen(t).schemas = {}
                        /\ Seen(t).current = 0 /\ DOMAIN Seen(t).log = {}
                        /\ ~Seen(t).dropped /\ Seen(t).name = t.table_name
  BY <1>2, <1>3, TableFields DEF Seen
<1>5. /\ DOMAIN VisibleCatalog = {t.table_id : t \in tables}
      /\ \A t \in tables : VisibleCatalog[t.table_id] = Seen(t)
  BY <1>1, SeenRow
<1>6. \A i \in DOMAIN VisibleCatalog : Promised!EmptyTable(VisibleCatalog[i])
  BY <1>4, <1>5 DEF Promised!EmptyTable
<1>7. \A i, j \in DOMAIN VisibleCatalog :
         VisibleCatalog[i].name = VisibleCatalog[j].name => i = j
  BY <1>1, <1>4, <1>5 DEF DbInv
<1> QED
  BY <1>6, <1>7 DEF Promised!CatalogInit, Promised!Ids

\* A step of a thread is one operation of the versioned catalog or none.
LEMMA ThreadImplements ==
    ASSUME SafetyInv, SafetyInv', RelationsInv, RelationsInv', ChainInv,
           NEW th \in Threads, ThreadStep(th)
    PROVE  [Promised!CatalogNext]_VisibleCatalog
<1> USE DEF RelationsInv, ChainInv
<1>1. CASE RowsKept
  BY <1>1, CatalogFrame DEF RowsKept
<1>2. CASE Creates(th)
  BY <1>2, CreateImplements
<1>3. ASSUME NEW r \in get_table(Name(th)), CommitsTo(th, r)
      PROVE  Promised!CatalogNext
  BY <1>3, CommitImplements
<1>4. ASSUME NEW r \in get_table(Name(th)), Alters(th, r) \/ Renames(th, r) \/ SoftDrops(r)
      PROVE  Promised!CatalogNext
  BY <1>4, RowStepImplements
<1>5. ASSUME NEW r \in get_table(Name(th)), Purges(r)
      PROVE  Promised!CatalogNext
  BY <1>5, PurgeImplements
<1> QED
  BY <1>1, <1>2, <1>3, <1>4, <1>5, Effects

\* The server implements the versioned catalog, for any number of threads,
\* tables and requests: however handlers interleave, and whichever statement,
\* connection or commit fails or process dies, each request is one atomic
\* operation or none.  The one fault excluded is the failing SELECT of the
\* current snapshot, which validates a commit against snapshot 0.
THEOREM ServerImplementsCatalog ==
    ASSUME "current_read" \notin Faults
    PROVE  Spec => CatalogImplemented
<1> DEFINE I == SafetyInv /\ RelationsInv /\ ChainInv
<1>1. Init => I
  BY InitSafe, RelationsInit
<1>2. I /\ [Next]_vars => I'
  BY NextSafe, RelationsNext
<1>3. I /\ I' /\ [Next]_vars => [Promised!CatalogNext]_VisibleCatalog
  <2> SUFFICES ASSUME I, I', [Next]_vars
               PROVE  [Promised!CatalogNext]_VisibleCatalog
    OBVIOUS
  <2>1. ASSUME NEW th \in Threads, Start(th) \/ HandlerStep(th)
        PROVE  [Promised!CatalogNext]_VisibleCatalog
    BY <2>1, ThreadImplements DEF ThreadStep
  <2>2. CASE CommitTransaction \/ Restart \/ Quiet \/ UNCHANGED vars
    <3>1. UNCHANGED <<tables, snapshots, partitions, schema_history>>
      BY <2>2 DEF CommitTransaction, Restart, Quiet, vars, serverVars, dbVars
    <3> QED
      BY <3>1, CatalogFrame
  <2> QED
    BY <2>1, <2>2 DEF Next
<1> QED
  BY <1>1, <1>2, <1>3, CatalogStarts, PTL
     DEF Spec, CatalogImplemented, Promised!CatalogSpec

=============================================================================
