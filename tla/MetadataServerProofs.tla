------------------------ MODULE MetadataServerProofs ------------------------
(***************************************************************************)
(* The operators of PgClient, what each statement does to the rows and to  *)
(* what a read of a table returns; and SafetyInv, an inductive invariant of*)
(* the server, with the two theorems that rest on it alone: types, and the *)
(* immutability of snapshots.                                              *)
(***************************************************************************)
EXTENDS MetadataServer, TLAPS

-----------------------------------------------------------------------------
(* Types *)

\* A created table has the column defaults of init_db.sql.
LEMMA NewTableType ==
    ASSUME NEW id \in Nat, NEW n \in Names, NEW schema \in AnySchema
    PROVE  NewTable(id, n, schema) \in TableRow
  BY DEF NewTable, TableRow

\* Every UPDATE of the tables relation yields table rows.
LEMMA UpdateType ==
    ASSUME DbTypeOK, NEW n \in Names
    PROVE  /\ \A m \in Names : rename_table(n, m) \subseteq TableRow
           /\ \A schema \in AnySchema, k \in Nat :
                 update_table_schema(n, schema, k) \subseteq TableRow
           /\ \A s \in Nat : update_table_snapshot(n, s) \subseteq TableRow
           /\ soft_delete_table(n) \subseteq TableRow
<1>1. ASSUME NEW m \in Names PROVE rename_table(n, m) \subseteq TableRow
  BY DEF DbTypeOK, rename_table, TableRow
<1>2. ASSUME NEW schema \in AnySchema, NEW k \in Nat
      PROVE  update_table_schema(n, schema, k) \subseteq TableRow
  BY DEF DbTypeOK, update_table_schema, TableRow
<1>3. ASSUME NEW s \in Nat PROVE update_table_snapshot(n, s) \subseteq TableRow
  BY DEF DbTypeOK, update_table_snapshot, TableRow
<1>4. soft_delete_table(n) \subseteq TableRow
  BY DEF DbTypeOK, soft_delete_table, TableRow
<1> QED
  BY <1>1, <1>2, <1>3, <1>4

\* The rows of a commit are partition rows, and stay so when marked deleted.
LEMMA CommitRowsType ==
    ASSUME DbTypeOK, NEW id \in Nat, NEW s \in Nat, NEW adds \in Seq(Keys),
           NEW base \in Nat, NEW dels \in SUBSET Keys
    PROVE  mark_partitions_deleted(insert_partitions(id, s, adds, base), id, dels, s)
              \subseteq StoredRow
<1>1. insert_partitions(id, s, adds, base) \subseteq StoredRow
  <2>1. \A i \in DOMAIN adds : i \in Nat /\ adds[i] \in Keys
    OBVIOUS
  <2>2. \A i \in DOMAIN adds :
           [partition_id |-> base + i, table_id |-> id, snapshot_id |-> s,
            partition_key |-> adds[i], is_deleted |-> FALSE,
            deleted_snapshot_id |-> 0] \in StoredRow
    BY <2>1 DEF StoredRow
  <2> QED
    BY <2>2 DEF DbTypeOK, insert_partitions
<1> QED
  BY <1>1 DEF mark_partitions_deleted, StoredRow

\* A query returns partition rows.
LEMMA ViewType ==
    ASSUME DbTypeOK PROVE \A id, s : View(id, s) \subseteq PartitionRow
  BY DEF DbTypeOK, View, Select, StoredRow, PartitionRow

-----------------------------------------------------------------------------
(* Lookup by name *)

\* Names are unique: the row a name finds is the only one, and get_table_id and
\* get_current_snapshot read it.
LEMMA Lookup ==
    ASSUME DbInv, NEW n, NEW r \in get_table(n)
    PROVE  /\ r \in tables /\ r.table_name = n /\ ~r.is_deleted
           /\ get_table(n) = {r}
           /\ get_table_id(n) = r.table_id
           /\ get_current_snapshot(n) = r.current_snapshot_id
<1>1. r \in tables /\ r.table_name = n /\ ~r.is_deleted
  BY DEF get_table
<1>2. get_table(n) = {r}
  BY <1>1 DEF get_table, DbInv
<1>3. (CHOOSE t \in get_table(n) : TRUE) = r
  BY <1>2
<1> QED
  BY <1>1, <1>2, <1>3 DEF get_table_id, get_current_snapshot

\* What the lookups return in general.
LEMMA LookupType ==
    ASSUME DbTypeOK, DbInv, NEW n
    PROVE  /\ get_current_snapshot(n) \in Nat
           /\ get_current_snapshot(n) <= snapshot_seq
           /\ get_table(n) # {} => get_table_id(n) \in Nat
<1>1. CASE get_table(n) = {}
  BY <1>1 DEF get_current_snapshot, DbTypeOK
<1>2. ASSUME NEW r \in get_table(n)
      PROVE  /\ get_current_snapshot(n) \in Nat
             /\ get_current_snapshot(n) <= snapshot_seq
             /\ get_table_id(n) \in Nat
  BY Lookup DEF DbTypeOK, TableRow, DbInv
<1> QED
  BY <1>1, <1>2

-----------------------------------------------------------------------------
(* Updates of one row *)

\* An UPDATE by name changes one row.
LEMMA OneRow ==
    ASSUME DbInv, NEW n, NEW r \in get_table(n)
    PROVE  r \in tables /\ \A t \in tables : t \in get_table(n) <=> t = r
  BY Lookup

\* update_table_snapshot replaces the row of its table.
LEMMA MoveSnapshotRow ==
    ASSUME DbTypeOK, DbInv, NEW n, NEW r \in get_table(n), NEW s
    PROVE  \E u : /\ update_table_snapshot(n, s) = (tables \ {r}) \cup {u}
                  /\ u.table_id = r.table_id /\ u.table_name = r.table_name
                  /\ u.current_snapshot_id = s
<1> DEFINE u == [r EXCEPT !.current_snapshot_id = s]
<1>1. r \in tables /\ \A t \in tables : t \in get_table(n) <=> t = r
  BY OneRow
<1>2. update_table_snapshot(n, s) = (tables \ {r}) \cup {u}
  BY <1>1 DEF update_table_snapshot
<1>3. r \in TableRow
  BY <1>1 DEF DbTypeOK
<1>4. /\ u.table_id = r.table_id /\ u.table_name = r.table_name
      /\ u.current_snapshot_id = s
  BY <1>3 DEF TableRow
<1> QED
  BY <1>2, <1>4

\* rename_table replaces the row of the old name.
LEMMA RenameRow ==
    ASSUME DbInv, NEW n, NEW r \in get_table(n), NEW m
    PROVE  rename_table(n, m) = (tables \ {r}) \cup {[r EXCEPT !.table_name = m]}
  BY OneRow DEF rename_table

\* soft_delete_table replaces the row of its name.
LEMMA SoftDeleteRow ==
    ASSUME DbInv, NEW n, NEW r \in get_table(n)
    PROVE  soft_delete_table(n) = (tables \ {r}) \cup {[r EXCEPT !.is_deleted = TRUE]}
  BY OneRow DEF soft_delete_table

\* A schema change replaces the row of its name.
LEMMA AlterRow ==
    ASSUME DbTypeOK, DbInv, NEW n, NEW r \in get_table(n), NEW schema, NEW k
    PROVE  \E u : /\ update_table_schema(n, schema, k) = (tables \ {r}) \cup {u}
                  /\ u.table_id = r.table_id /\ u.table_name = r.table_name
                  /\ u.current_snapshot_id = r.current_snapshot_id
                  /\ u.is_deleted = r.is_deleted
                  /\ u.schema = schema /\ u.schema_version = k
<1> DEFINE u == [r EXCEPT !.schema = schema, !.schema_version = k]
<1>1. r \in tables /\ \A t \in tables : t \in get_table(n) <=> t = r
  BY OneRow
<1>2. update_table_schema(n, schema, k) = (tables \ {r}) \cup {u}
  BY <1>1 DEF update_table_schema
<1>3. r \in TableRow
  BY <1>1 DEF DbTypeOK
<1>4. /\ u.table_id = r.table_id /\ u.table_name = r.table_name
      /\ u.current_snapshot_id = r.current_snapshot_id
      /\ u.is_deleted = r.is_deleted
      /\ u.schema = schema /\ u.schema_version = k
  BY <1>3 DEF TableRow
<1> QED
  BY <1>2, <1>4

\* An UPDATE or a rename of a name nobody has changes nothing.
LEMMA UpdateNoRow ==
    ASSUME NEW n, get_table(n) = {} PROVE \A m : rename_table(n, m) = tables
  BY DEF rename_table

\* Replacing a row by one with the same id, and the same name or a name nobody
\* has, keeps the constraints and changes no other name's row.
LEMMA ReplaceRow ==
    ASSUME DbInv, NEW r \in tables, NEW u,
           tables' = (tables \ {r}) \cup {u},
           u.table_id = r.table_id,
           u.table_name = r.table_name \/ ~NameTaken(u.table_name),
           u.current_snapshot_id <= snapshot_seq,
           UNCHANGED <<table_seq, snapshot_seq>>,
           \A a \in snapshots' : a.table_id <= table_seq
    PROVE  /\ DbInv'
           /\ \A m : m \notin {r.table_name, u.table_name} =>
                 get_table(m)' = get_table(m)
<1>1. DbInv'
  BY DEF DbInv, NameTaken
<1>2. ASSUME NEW m, m \notin {r.table_name, u.table_name}
      PROVE  get_table(m)' = get_table(m)
  BY <1>2 DEF get_table
<1> QED
  BY <1>1, <1>2

-----------------------------------------------------------------------------
(* What a commit does to the views *)

\* A commit of snapshot s changes no other table's views, and none of its own
\* table's views before s: the rows it adds are of snapshot s, and the rows it
\* deletes stay visible before s.
LEMMA CommitViews ==
    ASSUME DbTypeOK, NEW id \in Nat, NEW s \in Nat, NEW adds \in Seq(Keys),
           NEW base \in Nat, NEW dels \in SUBSET Keys,
           partitions' =
              mark_partitions_deleted(insert_partitions(id, s, adds, base), id, dels, s)
    PROVE  \A other, v \in Nat :
              other # id \/ v < s => View(other, v)' = View(other, v)
<1> SUFFICES ASSUME NEW other \in Nat, NEW v \in Nat, other # id \/ v < s
             PROVE  View(other, v)' = View(other, v)
  OBVIOUS
<1> DEFINE Mark(p) ==
       IF p.table_id = id /\ p.partition_key \in dels /\ ~p.is_deleted
         THEN [p EXCEPT !.is_deleted = TRUE, !.deleted_snapshot_id = s] ELSE p
<1> DEFINE Shown(p) == p.table_id = other /\ Visible(p, v)
<1>1. ASSUME NEW p \in StoredRow
      PROVE  /\ Select(Mark(p)) = Select(p)
             /\ Mark(p).table_id = p.table_id /\ Mark(p).snapshot_id = p.snapshot_id
             /\ p.snapshot_id < s \/ other # id => (Shown(Mark(p)) <=> Shown(p))
  <2>1. CASE p.table_id = id /\ p.partition_key \in dels /\ ~p.is_deleted
    BY <2>1 DEF StoredRow, Select, Visible
  <2>2. CASE ~(p.table_id = id /\ p.partition_key \in dels /\ ~p.is_deleted)
    BY <2>2
  <2> QED
    BY <2>1, <2>2
<1>2. ASSUME NEW p \in StoredRow, ~(p.snapshot_id < s \/ other # id)
      PROVE  ~Shown(p) /\ ~Shown(Mark(p))
  <2>1. v < s /\ p.snapshot_id \in Nat /\ ~(p.snapshot_id <= v)
    BY <1>2 DEF StoredRow
  <2>2. Mark(p).snapshot_id = p.snapshot_id
    BY <1>1
  <2> HIDE DEF Mark
  <2> QED
    BY <2>1, <2>2 DEF Visible
<1>3. ASSUME NEW p \in insert_partitions(id, s, adds, base), p \notin partitions
      PROVE  p.table_id = id /\ p.snapshot_id = s
  BY <1>3 DEF insert_partitions
<1>4. partitions' = {Mark(p) : p \in insert_partitions(id, s, adds, base)}
  BY DEF mark_partitions_deleted
<1>5. insert_partitions(id, s, adds, base) \subseteq StoredRow
      /\ partitions \subseteq insert_partitions(id, s, adds, base)
  <2>1. \A i \in DOMAIN adds : i \in Nat /\ adds[i] \in Keys
    OBVIOUS
  <2>2. \A i \in DOMAIN adds :
           [partition_id |-> base + i, table_id |-> id, snapshot_id |-> s,
            partition_key |-> adds[i], is_deleted |-> FALSE,
            deleted_snapshot_id |-> 0] \in StoredRow
    BY <2>1 DEF StoredRow
  <2> QED
    BY <2>2 DEF DbTypeOK, insert_partitions
<1>6. ASSUME NEW p \in insert_partitions(id, s, adds, base), Shown(Mark(p))
      PROVE  p \in partitions /\ Shown(p)
  <2> HIDE DEF Mark
  <2>1. p \in StoredRow
    BY <1>5
  <2>2. p.snapshot_id < s \/ other # id
    BY <1>2, <1>6, <2>1
  <2>3. Shown(p)
    BY <1>1, <1>6, <2>1, <2>2
  <2>4. p \notin partitions => p.table_id = id /\ p.snapshot_id = s
    BY <1>3
  <2>5. p.table_id = other
    BY <2>3
  <2> QED
    BY <2>2, <2>3, <2>4, <2>5
<1>7. ASSUME NEW p \in partitions, Shown(p) PROVE Shown(Mark(p))
  <2> HIDE DEF Mark, Shown
  <2> QED
    BY <1>1, <1>2, <1>5, <1>7
<1>8. View(other, v) = {Select(p) : p \in {q \in partitions : Shown(q)}}
  BY DEF View
<1>9. View(other, v)' = {Select(p) : p \in {q \in partitions' : Shown(q)}}
  BY DEF View, Select, Visible
<1> HIDE DEF Mark, Shown
<1>10. {Select(p) : p \in {q \in partitions' : Shown(q)}} \subseteq
       {Select(p) : p \in {q \in partitions : Shown(q)}}
  BY <1>1, <1>4, <1>5, <1>6
<1>11. {Select(p) : p \in {q \in partitions : Shown(q)}} \subseteq
       {Select(p) : p \in {q \in partitions' : Shown(q)}}
  BY <1>1, <1>4, <1>5, <1>7
<1> QED
  BY <1>8, <1>9, <1>10, <1>11

\* A purge of table id removes that table's rows only.
LEMMA PurgeViews ==
    ASSUME NEW id, partitions' = DeleteFrom(partitions, id)
    PROVE  \A other, v : other # id => View(other, v)' = View(other, v)
  BY DEF View, DeleteFrom, Select, Visible

-----------------------------------------------------------------------------
(* The server *)

\* A step of one thread.
ThreadStep(th) == Start(th) \/ HandlerStep(th)

\* A step of one thread leaves the locals of the others alone.
LEMMA LocalsFrame ==
    ASSUME TypeOK, NEW th \in Threads, ThreadStep(th)
    PROVE  \A t \in Threads \ {th} :
              /\ pc'[t] = pc[t] /\ req'[t] = req[t] /\ snap'[t] = snap[t]
              /\ reported'[t] = reported[t] /\ rows'[t] = rows[t]
              /\ version'[t] = version[t] /\ status'[t] = status[t]
<1> USE DEF ThreadStep, TypeOK, ThreadTypeOK, At, Goto, Outcome, Return, localVars
<1>1. CASE LockForRead(th)
  BY <1>1 DEF LockForRead
<1>2. CASE ResolveInMemory(th)
  BY <1>2 DEF ResolveInMemory
<1>3. CASE ResolveFromDb(th)
  BY <1>3 DEF ResolveFromDb
<1>4. CASE CacheHit(th)
  BY <1>4 DEF CacheHit
<1>5. CASE CacheMiss(th)
  BY <1>5 DEF CacheMiss
<1>6. CASE QueryRows(th)
  BY <1>6 DEF QueryRows
<1>7. CASE QueryNothing(th)
  BY <1>7 DEF QueryNothing
<1>8. CASE FillCache(th)
  BY <1>8 DEF FillCache
<1>9. CASE LockForCommit(th)
  BY <1>9 DEF LockForCommit
<1>10. CASE ValidateParent(th)
  BY <1>10 DEF ValidateParent
<1>11. CASE DrawSnapshot(th)
  BY <1>11 DEF DrawSnapshot
<1>12. CASE DrawNothing(th)
  BY <1>12 DEF DrawNothing
<1>13. CASE WriteSnapshot(th)
  BY <1>13 DEF WriteSnapshot
<1>14. CASE RollbackSnapshot(th)
  BY <1>14 DEF RollbackSnapshot
<1>15. CASE LoseSnapshot(th)
  BY <1>15 DEF LoseSnapshot
<1>16. CASE InvalidateAfterCommit(th)
  BY <1>16 DEF InvalidateAfterCommit
<1>17. CASE LockForCreate(th)
  BY <1>17 DEF LockForCreate, LockForMutation
<1>18. CASE CreateTable(th)
  BY <1>18 DEF CreateTable
<1>19. CASE CreateFails(th)
  BY <1>19 DEF CreateFails, StatementFails
<1>20. CASE LockForGet(th)
  BY <1>20 DEF LockForGet, LockForQuery
<1>21. CASE ReadTable(th)
  BY <1>21 DEF ReadTable
<1>22. CASE LockForSchema(th)
  BY <1>22 DEF LockForSchema, LockForQuery
<1>23. CASE CheckSchema(th)
  BY <1>23 DEF CheckSchema
<1>24. CASE LockForAlter(th)
  BY <1>24 DEF LockForAlter, LockForMutation
<1>25. CASE ReadVersion(th)
  BY <1>25 DEF ReadVersion
<1>26. CASE AlterSchema(th)
  BY <1>26 DEF AlterSchema
<1>27. CASE AlterFails(th)
  BY <1>27 DEF AlterFails, StatementFails, CommitLost
<1>28. CASE LockForRename(th)
  BY <1>28 DEF LockForRename, LockForMutation
<1>29. CASE LockNewName(th)
  BY <1>29 DEF LockNewName
<1>30. CASE LockSameName(th)
  BY <1>30 DEF LockSameName
<1>31. CASE RenameTable(th)
  BY <1>31 DEF RenameTable
<1>32. CASE RenameFails(th)
  BY <1>32 DEF RenameFails, StatementFails
<1>33. CASE LockForDrop(th)
  BY <1>33 DEF LockForDrop, LockForMutation
<1>34. CASE DropTable(th)
  BY <1>34 DEF DropTable
<1>35. CASE DropFails(th)
  BY <1>35 DEF DropFails, StatementFails, CommitLost
<1>36. CASE Start(th)
  BY <1>36 DEF Start
<1>37. CASE PickSnapshot(th)
  BY <1>37 DEF PickSnapshot
<1>38. CASE Release(th)
  BY <1>38 DEF Release
<1>39. CASE InvalidateAfterUnlock(th)
  BY <1>39 DEF InvalidateAfterUnlock
<1>40. CASE AcquireThrows(th)
  BY <1>40 DEF AcquireThrows
<1> QED
  BY <1>1, <1>2, <1>3, <1>4, <1>5, <1>6, <1>7, <1>8, <1>9, <1>10, <1>11,
     <1>12, <1>13, <1>14, <1>15, <1>16, <1>17, <1>18, <1>19, <1>20,
     <1>21, <1>22, <1>23, <1>24, <1>25, <1>26, <1>27, <1>28, <1>29,
     <1>30, <1>31, <1>32, <1>33, <1>34, <1>35, <1>36, <1>37, <1>38,
     <1>39, <1>40
     DEF HandlerStep, RegistryStep, CatalogStep

-----------------------------------------------------------------------------
(* Types *)

\* The locals of a thread, and the pool, keep their types.
LEMMA ThreadTypes ==
    ASSUME SafetyInv, NEW th \in Threads, ThreadStep(th)
    PROVE  ThreadTypeOK'
<1> USE ServerAssumption DEF ThreadStep, SafetyInv, TypeOK, ThreadTypeOK, Labels, At,
       Goto, Outcome, Return, localVars, poolVars, acquire, acquire_briefly, release,
       NoRequest
<1>0. /\ pc[th] # "idle" => req[th] \in Request /\ Name(th) \in Names
      /\ get_current_snapshot(Name(th)) \in Nat
      /\ \A s : query_partitions(Name(th), s) \subseteq PartitionRow
      /\ \A t \in get_table(Name(th)) : t.schema_version \in Nat
  BY LookupType, ViewType
     DEF Request, Name, query_partitions, get_table, DbTypeOK, TableRow
<1>1. CASE LockForRead(th)
  BY <1>1 DEF LockForRead
<1>2. CASE ResolveInMemory(th)
  BY <1>2 DEF ResolveInMemory, ReadSnapshot
<1>3. CASE ResolveFromDb(th)
  BY <1>3, <1>0 DEF ResolveFromDb, CurrentSnapshotRead
<1>4. CASE CacheHit(th)
  BY <1>4 DEF CacheHit, CacheTypeOK, Cached
<1>5. CASE CacheMiss(th)
  BY <1>5 DEF CacheMiss
<1>6. CASE QueryRows(th)
  BY <1>6, <1>0 DEF QueryRows
<1>7. CASE QueryNothing(th)
  BY <1>7 DEF QueryNothing
<1>8. CASE FillCache(th)
  BY <1>8 DEF FillCache
<1>9. CASE LockForCommit(th)
  BY <1>9 DEF LockForCommit
<1>10. CASE ValidateParent(th)
  BY <1>10 DEF ValidateParent
<1>11. CASE DrawSnapshot(th)
  BY <1>11 DEF DrawSnapshot, DbTypeOK
<1>12. CASE DrawNothing(th)
  BY <1>12 DEF DrawNothing
<1>13. CASE WriteSnapshot(th)
  BY <1>13 DEF WriteSnapshot
<1>14. CASE RollbackSnapshot(th)
  BY <1>14 DEF RollbackSnapshot
<1>15. CASE LoseSnapshot(th)
  BY <1>15 DEF LoseSnapshot
<1>16. CASE InvalidateAfterCommit(th)
  BY <1>16 DEF InvalidateAfterCommit
<1>17. CASE LockForCreate(th)
  BY <1>17 DEF LockForCreate, LockForMutation
<1>18. CASE CreateTable(th)
  BY <1>18 DEF CreateTable
<1>19. CASE CreateFails(th)
  BY <1>19 DEF CreateFails, StatementFails
<1>20. CASE LockForGet(th)
  BY <1>20 DEF LockForGet, LockForQuery
<1>21. CASE ReadTable(th)
  BY <1>21, <1>0 DEF ReadTable
<1>22. CASE LockForSchema(th)
  BY <1>22 DEF LockForSchema, LockForQuery
<1>23. CASE CheckSchema(th)
  BY <1>23 DEF CheckSchema
<1>24. CASE LockForAlter(th)
  BY <1>24 DEF LockForAlter, LockForMutation
<1>25. CASE ReadVersion(th)
  BY <1>25, <1>0 DEF ReadVersion
<1>26. CASE AlterSchema(th)
  BY <1>26 DEF AlterSchema
<1>27. CASE AlterFails(th)
  BY <1>27 DEF AlterFails, StatementFails, CommitLost
<1>28. CASE LockForRename(th)
  BY <1>28 DEF LockForRename, LockForMutation
<1>29. CASE LockNewName(th)
  BY <1>29 DEF LockNewName
<1>30. CASE LockSameName(th)
  BY <1>30 DEF LockSameName
<1>31. CASE RenameTable(th)
  BY <1>31 DEF RenameTable
<1>32. CASE RenameFails(th)
  BY <1>32 DEF RenameFails, StatementFails
<1>33. CASE LockForDrop(th)
  BY <1>33 DEF LockForDrop, LockForMutation
<1>34. CASE DropTable(th)
  BY <1>34 DEF DropTable
<1>35. CASE DropFails(th)
  BY <1>35 DEF DropFails, StatementFails, CommitLost
<1>36. CASE Start(th)
  BY <1>36 DEF Start, Entry, Ops, Request
<1>37. CASE PickSnapshot(th)
  BY <1>37, <1>0 DEF PickSnapshot, Request
<1>38. CASE Release(th)
  BY <1>38 DEF Release
<1>39. CASE InvalidateAfterUnlock(th)
  BY <1>39 DEF InvalidateAfterUnlock
<1>40. CASE AcquireThrows(th)
  BY <1>40 DEF AcquireThrows, acquire_fails
<1> QED
  BY <1>1, <1>2, <1>3, <1>4, <1>5, <1>6, <1>7, <1>8, <1>9, <1>10, <1>11,
     <1>12, <1>13, <1>14, <1>15, <1>16, <1>17, <1>18, <1>19, <1>20,
     <1>21, <1>22, <1>23, <1>24, <1>25, <1>26, <1>27, <1>28, <1>29,
     <1>30, <1>31, <1>32, <1>33, <1>34, <1>35, <1>36, <1>37, <1>38,
     <1>39, <1>40
     DEF HandlerStep, RegistryStep, CatalogStep

\* The rows keep their types.  A commit and a schema change write under the id
\* of a table that exists.
LEMMA DbTypes ==
    ASSUME SafetyInv, NEW th \in Threads, ThreadStep(th)
    PROVE  DbTypeOK'
<1> USE DEF ThreadStep, SafetyInv, TypeOK, dbVars, seqVars, At
<1>0. ASSUME pc[th] # "idle"
      PROVE  /\ req[th] \in Request /\ Name(th) \in Names /\ Parent(th) \in Nat
             /\ req[th].adds \in Seq(Keys) /\ req[th].dels \in SUBSET Keys
             /\ req[th].schema \in AnySchema /\ req[th].to \in Names
             /\ Len(req[th].adds) \in Nat
             /\ snap[th] \in Nat /\ version[th] \in Nat
  <2>1. req[th] \in Request /\ snap[th] \in Nat /\ version[th] \in Nat
    BY <1>0 DEF ThreadTypeOK
  <2>2. req[th].adds \in Seq(Keys)
    BY <2>1 DEF Request
  <2> QED
    BY <2>1, <2>2 DEF Request, Name, Parent
<1> USE DEF DbTypeOK
<1>1. CASE LockForRead(th)
  BY <1>1 DEF LockForRead
<1>2. CASE ResolveInMemory(th)
  BY <1>2 DEF ResolveInMemory
<1>3. CASE ResolveFromDb(th)
  BY <1>3 DEF ResolveFromDb
<1>4. CASE CacheHit(th)
  BY <1>4 DEF CacheHit
<1>5. CASE CacheMiss(th)
  BY <1>5 DEF CacheMiss
<1>6. CASE QueryRows(th)
  BY <1>6 DEF QueryRows
<1>7. CASE QueryNothing(th)
  BY <1>7 DEF QueryNothing
<1>8. CASE FillCache(th)
  BY <1>8 DEF FillCache
<1>9. CASE LockForCommit(th)
  BY <1>9 DEF LockForCommit
<1>10. CASE ValidateParent(th)
  BY <1>10 DEF ValidateParent
<1>11. CASE DrawSnapshot(th)
  BY <1>11 DEF DrawSnapshot
<1>12. CASE DrawNothing(th)
  <2>1. snapshot_seq' \in Nat
    BY <1>12 DEF DrawNothing
  <2> QED
    BY <1>12, <2>1 DEF DrawNothing
<1>13. CASE WriteSnapshot(th)
  <2> USE <1>13 DEF WriteSnapshot
  <2>1. pc[th] # "idle" /\ get_table_id(Name(th)) \in Nat
    BY LookupType DEF WriteInv
  <2>2. tables' \subseteq TableRow
    BY <1>0, <2>1, UpdateType
  <2>3. partitions' \subseteq StoredRow
    BY <1>0, <2>1, CommitRowsType
  <2>4. snapshots' \subseteq SnapshotRow
    BY <1>0, <2>1 DEF insert_snapshot, SnapshotRow
  <2> QED
    BY <1>0, <2>1, <2>2, <2>3, <2>4
<1>14. CASE RollbackSnapshot(th)
  BY <1>14, <1>0 DEF RollbackSnapshot
<1>15. CASE LoseSnapshot(th)
  BY <1>15, <1>0 DEF LoseSnapshot
<1>16. CASE InvalidateAfterCommit(th)
  BY <1>16 DEF InvalidateAfterCommit
<1>17. CASE LockForCreate(th)
  BY <1>17 DEF LockForCreate, LockForMutation
<1>18. CASE CreateTable(th)
  <2>1. tables' \subseteq TableRow
    BY <1>18, <1>0, NewTableType DEF CreateTable, create_table
  <2> QED
    BY <1>18, <2>1 DEF CreateTable
<1>19. CASE CreateFails(th)
  BY <1>19 DEF CreateFails, StatementFails
<1>20. CASE LockForGet(th)
  BY <1>20 DEF LockForGet, LockForQuery
<1>21. CASE ReadTable(th)
  BY <1>21 DEF ReadTable
<1>22. CASE LockForSchema(th)
  BY <1>22 DEF LockForSchema, LockForQuery
<1>23. CASE CheckSchema(th)
  BY <1>23 DEF CheckSchema
<1>24. CASE LockForAlter(th)
  BY <1>24 DEF LockForAlter, LockForMutation
<1>25. CASE ReadVersion(th)
  BY <1>25 DEF ReadVersion
<1>26. CASE AlterSchema(th)
  <2> USE <1>26 DEF AlterSchema
  <2>1. pc[th] # "idle" /\ get_table_id(Name(th)) \in Nat
    BY LookupType DEF AlterInv
  <2>2. tables' \subseteq TableRow
    BY <1>0, <2>1, UpdateType
  <2>3. schema_history' \subseteq HistoryRow
    BY <1>0, <2>1 DEF HistoryRow, insert_schema_history
  <2> QED
    BY <2>2, <2>3
<1>27. CASE AlterFails(th)
  BY <1>27 DEF AlterFails, StatementFails, CommitLost
<1>28. CASE LockForRename(th)
  BY <1>28 DEF LockForRename, LockForMutation
<1>29. CASE LockNewName(th)
  BY <1>29 DEF LockNewName
<1>30. CASE LockSameName(th)
  BY <1>30 DEF LockSameName
<1>31. CASE RenameTable(th)
  <2>1. tables' \subseteq TableRow
    BY <1>31, <1>0, UpdateType DEF RenameTable
  <2> QED
    BY <1>31, <2>1 DEF RenameTable
<1>32. CASE RenameFails(th)
  BY <1>32 DEF RenameFails, StatementFails
<1>33. CASE LockForDrop(th)
  BY <1>33 DEF LockForDrop, LockForMutation
<1>34. CASE DropTable(th)
  <2>1. tables' \subseteq TableRow
    BY <1>34, <1>0, UpdateType DEF DropTable
  <2> QED
    BY <1>34, <2>1 DEF DropTable, DeleteFrom
<1>35. CASE DropFails(th)
  BY <1>35 DEF DropFails, StatementFails, CommitLost
<1>36. CASE Start(th)
  BY <1>36 DEF Start
<1>37. CASE PickSnapshot(th)
  BY <1>37 DEF PickSnapshot
<1>38. CASE Release(th)
  BY <1>38 DEF Release
<1>39. CASE InvalidateAfterUnlock(th)
  BY <1>39 DEF InvalidateAfterUnlock
<1>40. CASE AcquireThrows(th)
  BY <1>40 DEF AcquireThrows
<1> QED
  BY <1>1, <1>2, <1>3, <1>4, <1>5, <1>6, <1>7, <1>8, <1>9, <1>10, <1>11,
     <1>12, <1>13, <1>14, <1>15, <1>16, <1>17, <1>18, <1>19, <1>20,
     <1>21, <1>22, <1>23, <1>24, <1>25, <1>26, <1>27, <1>28, <1>29,
     <1>30, <1>31, <1>32, <1>33, <1>34, <1>35, <1>36, <1>37, <1>38,
     <1>39, <1>40
     DEF HandlerStep, RegistryStep, CatalogStep

\* What put does, whether it evicts or not.
LEMMA PutEffect ==
    ASSUME NEW k, NEW v, put(k, v)
    PROVE  /\ DOMAIN cache' \subseteq DOMAIN cache \cup {k}
           /\ \A j \in DOMAIN cache' : cache'[j] = IF j = k THEN v ELSE cache[j]
           /\ cache' = [j \in DOMAIN cache' |-> cache'[j]]
  BY DEF put, Store

\* The lock table and the cache keep their types.
LEMMA LockAndCacheTypes ==
    ASSUME SafetyInv, NEW th \in Threads, ThreadStep(th)
    PROVE  /\ LockTypeOK' /\ CacheTypeOK'
           /\ (\A k \in DOMAIN cache : cache[k] \subseteq PartitionRow)'
<1> USE DEF ThreadStep, SafetyInv, TypeOK, LockTypeOK, CacheTypeOK, lockVars, At,
       acquire_shared, acquire_exclusive, release_all
<1>0. pc[th] # "idle" => /\ Name(th) \in Names /\ req[th].to \in Names
                         /\ snap[th] \in Nat /\ rows[th] \subseteq PartitionRow
  BY DEF ThreadTypeOK, Request, Name
<1>1. CASE LockForRead(th)
  BY <1>1, <1>0 DEF LockForRead
<1>2. CASE ResolveInMemory(th)
  BY <1>2 DEF ResolveInMemory
<1>3. CASE ResolveFromDb(th)
  BY <1>3 DEF ResolveFromDb
<1>4. CASE CacheHit(th)
  BY <1>4 DEF CacheHit
<1>5. CASE CacheMiss(th)
  BY <1>5 DEF CacheMiss
<1>6. CASE QueryRows(th)
  BY <1>6 DEF QueryRows
<1>7. CASE QueryNothing(th)
  BY <1>7 DEF QueryNothing
<1>8. CASE FillCache(th)
  <2> DEFINE k == Key(th)
  <2>1. k \in Names \X Nat /\ rows[th] \subseteq PartitionRow
    BY <1>8, <1>0 DEF FillCache, Key, make_cache_key
  <2>2. put(k, rows[th]) /\ UNCHANGED lockVars
    BY <1>8 DEF FillCache
  <2> HIDE DEF k
  <2>3. /\ DOMAIN cache' \subseteq DOMAIN cache \cup {k}
        /\ \A j \in DOMAIN cache' : cache'[j] = IF j = k THEN rows[th] ELSE cache[j]
        /\ cache' = [j \in DOMAIN cache' |-> cache'[j]]
    BY <2>2, PutEffect
  <2> QED
    BY <2>1, <2>2, <2>3
<1>9. CASE LockForCommit(th)
  BY <1>9, <1>0 DEF LockForCommit
<1>10. CASE ValidateParent(th)
  BY <1>10 DEF ValidateParent
<1>11. CASE DrawSnapshot(th)
  BY <1>11 DEF DrawSnapshot
<1>12. CASE DrawNothing(th)
  BY <1>12 DEF DrawNothing
<1>13. CASE WriteSnapshot(th)
  BY <1>13 DEF WriteSnapshot
<1>14. CASE RollbackSnapshot(th)
  BY <1>14 DEF RollbackSnapshot
<1>15. CASE LoseSnapshot(th)
  BY <1>15 DEF LoseSnapshot
<1>16. CASE InvalidateAfterCommit(th)
  BY <1>16, <1>0 DEF InvalidateAfterCommit, invalidate_table_cache, Without
<1>17. CASE LockForCreate(th)
  BY <1>17, <1>0 DEF LockForCreate, LockForMutation
<1>18. CASE CreateTable(th)
  BY <1>18 DEF CreateTable
<1>19. CASE CreateFails(th)
  BY <1>19 DEF CreateFails, StatementFails
<1>20. CASE LockForGet(th)
  BY <1>20, <1>0 DEF LockForGet, LockForQuery
<1>21. CASE ReadTable(th)
  BY <1>21 DEF ReadTable
<1>22. CASE LockForSchema(th)
  BY <1>22, <1>0 DEF LockForSchema, LockForQuery
<1>23. CASE CheckSchema(th)
  BY <1>23 DEF CheckSchema
<1>24. CASE LockForAlter(th)
  BY <1>24, <1>0 DEF LockForAlter, LockForMutation
<1>25. CASE ReadVersion(th)
  BY <1>25 DEF ReadVersion
<1>26. CASE AlterSchema(th)
  BY <1>26 DEF AlterSchema
<1>27. CASE AlterFails(th)
  BY <1>27 DEF AlterFails, StatementFails, CommitLost
<1>28. CASE LockForRename(th)
  BY <1>28, <1>0 DEF LockForRename, LockForMutation
<1>29. CASE LockNewName(th)
  BY <1>29, <1>0 DEF LockNewName
<1>30. CASE LockSameName(th)
  BY <1>30 DEF LockSameName
<1>31. CASE RenameTable(th)
  BY <1>31 DEF RenameTable
<1>32. CASE RenameFails(th)
  BY <1>32 DEF RenameFails, StatementFails
<1>33. CASE LockForDrop(th)
  BY <1>33, <1>0 DEF LockForDrop, LockForMutation
<1>34. CASE DropTable(th)
  BY <1>34 DEF DropTable
<1>35. CASE DropFails(th)
  BY <1>35 DEF DropFails, StatementFails, CommitLost
<1>36. CASE Start(th)
  BY <1>36 DEF Start
<1>37. CASE PickSnapshot(th)
  BY <1>37 DEF PickSnapshot
<1>38. CASE Release(th)
  BY <1>38 DEF Release
<1>39. CASE InvalidateAfterUnlock(th)
  BY <1>39, <1>0 DEF InvalidateAfterUnlock, invalidate_table_cache, Without
<1>40. CASE AcquireThrows(th)
  BY <1>40 DEF AcquireThrows
<1> QED
  BY <1>1, <1>2, <1>3, <1>4, <1>5, <1>6, <1>7, <1>8, <1>9, <1>10, <1>11,
     <1>12, <1>13, <1>14, <1>15, <1>16, <1>17, <1>18, <1>19, <1>20,
     <1>21, <1>22, <1>23, <1>24, <1>25, <1>26, <1>27, <1>28, <1>29,
     <1>30, <1>31, <1>32, <1>33, <1>34, <1>35, <1>36, <1>37, <1>38,
     <1>39, <1>40
     DEF HandlerStep, RegistryStep, CatalogStep

-----------------------------------------------------------------------------
(* Handlers and locks *)

\* A handler takes its thread only through its own steps.
LEMMA OpStep ==
    ASSUME SafetyInv, NEW th \in Threads, ThreadStep(th)
    PROVE  OpInv'
<1> USE DEF ThreadStep, SafetyInv, TypeOK, ThreadTypeOK, OpInv, ReadLabels, CommitLabels,
       InvalidatesAfterUnlock, At, Goto, Outcome, Return, localVars
<1>1. CASE LockForRead(th)
  BY <1>1 DEF LockForRead
<1>2. CASE ResolveInMemory(th)
  BY <1>2 DEF ResolveInMemory
<1>3. CASE ResolveFromDb(th)
  BY <1>3 DEF ResolveFromDb
<1>4. CASE CacheHit(th)
  BY <1>4 DEF CacheHit
<1>5. CASE CacheMiss(th)
  BY <1>5 DEF CacheMiss
<1>6. CASE QueryRows(th)
  BY <1>6 DEF QueryRows
<1>7. CASE QueryNothing(th)
  BY <1>7 DEF QueryNothing
<1>8. CASE FillCache(th)
  BY <1>8 DEF FillCache
<1>9. CASE LockForCommit(th)
  BY <1>9 DEF LockForCommit
<1>10. CASE ValidateParent(th)
  BY <1>10 DEF ValidateParent
<1>11. CASE DrawSnapshot(th)
  BY <1>11 DEF DrawSnapshot
<1>12. CASE DrawNothing(th)
  BY <1>12 DEF DrawNothing
<1>13. CASE WriteSnapshot(th)
  BY <1>13 DEF WriteSnapshot
<1>14. CASE RollbackSnapshot(th)
  BY <1>14 DEF RollbackSnapshot
<1>15. CASE LoseSnapshot(th)
  BY <1>15 DEF LoseSnapshot
<1>16. CASE InvalidateAfterCommit(th)
  BY <1>16 DEF InvalidateAfterCommit
<1>17. CASE LockForCreate(th)
  BY <1>17 DEF LockForCreate, LockForMutation
<1>18. CASE CreateTable(th)
  BY <1>18 DEF CreateTable
<1>19. CASE CreateFails(th)
  BY <1>19 DEF CreateFails, StatementFails
<1>20. CASE LockForGet(th)
  BY <1>20 DEF LockForGet, LockForQuery
<1>21. CASE ReadTable(th)
  BY <1>21 DEF ReadTable
<1>22. CASE LockForSchema(th)
  BY <1>22 DEF LockForSchema, LockForQuery
<1>23. CASE CheckSchema(th)
  BY <1>23 DEF CheckSchema
<1>24. CASE LockForAlter(th)
  BY <1>24 DEF LockForAlter, LockForMutation
<1>25. CASE ReadVersion(th)
  BY <1>25 DEF ReadVersion
<1>26. CASE AlterSchema(th)
  BY <1>26 DEF AlterSchema
<1>27. CASE AlterFails(th)
  BY <1>27 DEF AlterFails, StatementFails, CommitLost
<1>28. CASE LockForRename(th)
  BY <1>28 DEF LockForRename, LockForMutation
<1>29. CASE LockNewName(th)
  BY <1>29 DEF LockNewName
<1>30. CASE LockSameName(th)
  BY <1>30 DEF LockSameName
<1>31. CASE RenameTable(th)
  BY <1>31 DEF RenameTable
<1>32. CASE RenameFails(th)
  BY <1>32 DEF RenameFails, StatementFails
<1>33. CASE LockForDrop(th)
  BY <1>33 DEF LockForDrop, LockForMutation
<1>34. CASE DropTable(th)
  BY <1>34 DEF DropTable
<1>35. CASE DropFails(th)
  BY <1>35 DEF DropFails, StatementFails, CommitLost
<1>36. CASE Start(th)
  BY <1>36, ServerAssumption DEF Start, Entry, Request, Ops
<1>37. CASE PickSnapshot(th)
  BY <1>37 DEF PickSnapshot
<1>38. CASE Release(th)
  BY <1>38 DEF Release
<1>39. CASE InvalidateAfterUnlock(th)
  BY <1>39 DEF InvalidateAfterUnlock
<1>40. CASE AcquireThrows(th)
  BY <1>40 DEF AcquireThrows
<1> QED
  BY <1>1, <1>2, <1>3, <1>4, <1>5, <1>6, <1>7, <1>8, <1>9, <1>10, <1>11,
     <1>12, <1>13, <1>14, <1>15, <1>16, <1>17, <1>18, <1>19, <1>20,
     <1>21, <1>22, <1>23, <1>24, <1>25, <1>26, <1>27, <1>28, <1>29,
     <1>30, <1>31, <1>32, <1>33, <1>34, <1>35, <1>36, <1>37, <1>38,
     <1>39, <1>40
     DEF HandlerStep, RegistryStep, CatalogStep

\* The locks exclude each other, and a thread has the locks of the call it is in.
LEMMA LockStep ==
    ASSUME SafetyInv, NEW th \in Threads, ThreadStep(th)
    PROVE  LockInv'
<1> USE NoThreadAssumption DEF ThreadStep, SafetyInv, TypeOK, ThreadTypeOK, LockTypeOK,
       OpInv, LockInv, ReadLabels, CommitLabels, SharedLabels, ExclusiveLabels, At,
       Goto, Outcome, Return, localVars, lockVars, Name, Request, acquire_shared,
       acquire_exclusive, release_all
<1>1. CASE LockForRead(th)
  BY <1>1 DEF LockForRead
<1>2. CASE ResolveInMemory(th)
  BY <1>2 DEF ResolveInMemory
<1>3. CASE ResolveFromDb(th)
  BY <1>3 DEF ResolveFromDb
<1>4. CASE CacheHit(th)
  BY <1>4 DEF CacheHit
<1>5. CASE CacheMiss(th)
  BY <1>5 DEF CacheMiss
<1>6. CASE QueryRows(th)
  BY <1>6 DEF QueryRows
<1>7. CASE QueryNothing(th)
  BY <1>7 DEF QueryNothing
<1>8. CASE FillCache(th)
  BY <1>8 DEF FillCache
<1>9. CASE LockForCommit(th)
  BY <1>9 DEF LockForCommit
<1>10. CASE ValidateParent(th)
  BY <1>10 DEF ValidateParent
<1>11. CASE DrawSnapshot(th)
  BY <1>11 DEF DrawSnapshot
<1>12. CASE DrawNothing(th)
  BY <1>12 DEF DrawNothing
<1>13. CASE WriteSnapshot(th)
  BY <1>13 DEF WriteSnapshot
<1>14. CASE RollbackSnapshot(th)
  BY <1>14 DEF RollbackSnapshot
<1>15. CASE LoseSnapshot(th)
  BY <1>15 DEF LoseSnapshot
<1>16. CASE InvalidateAfterCommit(th)
  BY <1>16 DEF InvalidateAfterCommit
<1>17. CASE LockForCreate(th)
  BY <1>17 DEF LockForCreate, LockForMutation
<1>18. CASE CreateTable(th)
  BY <1>18 DEF CreateTable
<1>19. CASE CreateFails(th)
  BY <1>19 DEF CreateFails, StatementFails
<1>20. CASE LockForGet(th)
  BY <1>20 DEF LockForGet, LockForQuery
<1>21. CASE ReadTable(th)
  BY <1>21 DEF ReadTable
<1>22. CASE LockForSchema(th)
  BY <1>22 DEF LockForSchema, LockForQuery
<1>23. CASE CheckSchema(th)
  BY <1>23 DEF CheckSchema
<1>24. CASE LockForAlter(th)
  BY <1>24 DEF LockForAlter, LockForMutation
<1>25. CASE ReadVersion(th)
  BY <1>25 DEF ReadVersion
<1>26. CASE AlterSchema(th)
  BY <1>26 DEF AlterSchema
<1>27. CASE AlterFails(th)
  <2>1. CASE StatementFails(th, "alter")
    BY <1>27, <2>1 DEF AlterFails, StatementFails
  <2>2. CASE CommitLost(th, "alter")
    BY <1>27, <2>2 DEF AlterFails, CommitLost
  <2> QED
    BY <1>27, <2>1, <2>2 DEF AlterFails
<1>28. CASE LockForRename(th)
  BY <1>28 DEF LockForRename, LockForMutation
<1>29. CASE LockNewName(th)
  BY <1>29 DEF LockNewName
<1>30. CASE LockSameName(th)
  BY <1>30 DEF LockSameName
<1>31. CASE RenameTable(th)
  BY <1>31 DEF RenameTable
<1>32. CASE RenameFails(th)
  BY <1>32 DEF RenameFails, StatementFails
<1>33. CASE LockForDrop(th)
  BY <1>33 DEF LockForDrop, LockForMutation
<1>34. CASE DropTable(th)
  BY <1>34 DEF DropTable
<1>35. CASE DropFails(th)
  <2>1. CASE StatementFails(th, "drop")
    BY <1>35, <2>1 DEF DropFails, StatementFails
  <2>2. CASE CommitLost(th, "drop")
    BY <1>35, <2>2 DEF DropFails, CommitLost
  <2> QED
    BY <1>35, <2>1, <2>2 DEF DropFails
<1>36. CASE Start(th)
  BY <1>36, ServerAssumption DEF Start, Entry, Ops
<1>37. CASE PickSnapshot(th)
  BY <1>37 DEF PickSnapshot
<1>38. CASE Release(th)
  BY <1>38 DEF Release
<1>39. CASE InvalidateAfterUnlock(th)
  BY <1>39 DEF InvalidateAfterUnlock
<1>40. CASE AcquireThrows(th)
  BY <1>40 DEF AcquireThrows
<1> QED
  BY <1>1, <1>2, <1>3, <1>4, <1>5, <1>6, <1>7, <1>8, <1>9, <1>10, <1>11,
     <1>12, <1>13, <1>14, <1>15, <1>16, <1>17, <1>18, <1>19, <1>20,
     <1>21, <1>22, <1>23, <1>24, <1>25, <1>26, <1>27, <1>28, <1>29,
     <1>30, <1>31, <1>32, <1>33, <1>34, <1>35, <1>36, <1>37, <1>38,
     <1>39, <1>40
     DEF HandlerStep, RegistryStep, CatalogStep

-----------------------------------------------------------------------------
(* The tables relation *)

\* A step keeps the constraints of the database, and changes the row of a name
\* only when its thread holds that name exclusively.
LEMMA TablesStep ==
    ASSUME SafetyInv, NEW th \in Threads, ThreadStep(th)
    PROVE  /\ DbInv'
           /\ \A n \in Names : writer[n] # th => get_table(n)' = get_table(n)
<1> USE DEF ThreadStep
<1>a. /\ DbInv /\ DbTypeOK
      /\ pc[th] # "idle" => Name(th) \in Names /\ req[th].to \in Names
      /\ pc[th] \in ExclusiveLabels => writer[Name(th)] = th
      /\ At(th, "rename") => writer[req[th].to] = th /\ req[th].to # Name(th)
  BY DEF SafetyInv, TypeOK, ThreadTypeOK, Request, Name, LockInv
<1>b. ASSUME UNCHANGED <<tables, snapshots>>, table_seq' \in Nat, snapshot_seq' \in Nat,
             table_seq' >= table_seq, snapshot_seq' >= snapshot_seq
      PROVE  DbInv' /\ \A n \in Names : get_table(n)' = get_table(n)
  BY <1>a, <1>b DEF DbInv, DbTypeOK, get_table, TableRow, SnapshotRow
<1>c. ASSUME UNCHANGED <<tables, snapshots, table_seq, snapshot_seq>>
      PROVE  DbInv' /\ \A n \in Names : get_table(n)' = get_table(n)
  BY <1>a, <1>c DEF DbInv, get_table
<1>d. pc[th] \in {"write", "alter", "create", "rename", "drop"} =>
         writer[Name(th)] = th /\ Name(th) \in Names
  BY <1>a DEF ExclusiveLabels, CommitLabels
<1>1. CASE LockForRead(th)
  BY <1>1, <1>c DEF LockForRead, dbVars, seqVars
<1>2. CASE ResolveInMemory(th)
  BY <1>2, <1>c DEF ResolveInMemory, dbVars, seqVars
<1>3. CASE ResolveFromDb(th)
  BY <1>3, <1>c DEF ResolveFromDb, dbVars, seqVars
<1>4. CASE CacheHit(th)
  BY <1>4, <1>c DEF CacheHit, dbVars, seqVars
<1>5. CASE CacheMiss(th)
  BY <1>5, <1>c DEF CacheMiss, dbVars, seqVars
<1>6. CASE QueryRows(th)
  BY <1>6, <1>c DEF QueryRows, dbVars, seqVars
<1>7. CASE QueryNothing(th)
  BY <1>7, <1>c DEF QueryNothing, dbVars, seqVars
<1>8. CASE FillCache(th)
  BY <1>8, <1>c DEF FillCache, dbVars, seqVars
<1>9. CASE LockForCommit(th)
  BY <1>9, <1>c DEF LockForCommit, dbVars, seqVars
<1>10. CASE ValidateParent(th)
  BY <1>10, <1>c DEF ValidateParent, dbVars, seqVars
<1>11. CASE DrawSnapshot(th)
  BY <1>11, <1>a, <1>b DEF DrawSnapshot, DbTypeOK
<1>12. CASE DrawNothing(th)
  BY <1>12, <1>a, <1>b DEF DrawNothing, DbTypeOK
<1>13. CASE WriteSnapshot(th)
  <2> DEFINE n == Name(th)
  <2>1. /\ n \in Names /\ writer[n] = th
        /\ get_table(n) # {} /\ snap[th] <= snapshot_seq /\ snap[th] \in Nat
    BY <1>13, <1>d DEF WriteSnapshot, SafetyInv, TypeOK, ThreadTypeOK, WriteInv, At
  <2>2. PICK r \in get_table(n) : TRUE
    BY <2>1
  <2>3. r \in tables /\ r.table_name = n /\ get_table_id(n) = r.table_id /\ r \in TableRow
    BY <1>a, Lookup DEF DbTypeOK
  <2>4. tables' = update_table_snapshot(n, snap[th])
    BY <1>13 DEF WriteSnapshot
  <2>5. \A a \in snapshots' : a.table_id <= table_seq
    BY <1>13, <1>a, <2>3 DEF WriteSnapshot, insert_snapshot, DbInv
  <2> HIDE DEF n
  <2>6. PICK u : /\ tables' = (tables \ {r}) \cup {u}
                 /\ u.table_id = r.table_id /\ u.table_name = n
                 /\ u.current_snapshot_id = snap[th]
    BY <1>a, <2>2, <2>3, <2>4, MoveSnapshotRow
  <2>7. UNCHANGED <<table_seq, snapshot_seq>>
    BY <1>13 DEF WriteSnapshot
  <2>8. DbInv' /\ \A m : m # n => get_table(m)' = get_table(m)
    BY <1>a, <2>1, <2>3, <2>5, <2>6, <2>7, ReplaceRow
  <2> QED
    BY <2>1, <2>8
<1>14. CASE RollbackSnapshot(th)
  BY <1>14, <1>c DEF RollbackSnapshot, dbVars, seqVars
<1>15. CASE LoseSnapshot(th)
  BY <1>15, <1>c DEF LoseSnapshot, dbVars, seqVars
<1>16. CASE InvalidateAfterCommit(th)
  BY <1>16, <1>c DEF InvalidateAfterCommit, dbVars, seqVars
<1>17. CASE LockForCreate(th)
  BY <1>17, <1>c DEF LockForCreate, LockForMutation, dbVars, seqVars
<1>18. CASE CreateTable(th)
  <2> DEFINE n == Name(th)
             u == NewTable(table_seq + 1, n, req[th].schema)
  <2>1. n \in Names /\ writer[n] = th
    BY <1>18, <1>d DEF CreateTable, At
  <2>2. CASE ~NameTaken(n)
    <3>1. /\ tables' = tables \cup {u} /\ snapshots' = snapshots
          /\ table_seq' = table_seq + 1 /\ snapshot_seq' = snapshot_seq
      BY <1>18, <2>2 DEF CreateTable, create_table
    <3>2. /\ u.table_name = n /\ u.table_id = table_seq + 1
          /\ u.current_snapshot_id = 0
      BY DEF NewTable
    <3> HIDE DEF u
    <3>3. /\ table_seq \in Nat /\ snapshot_seq \in Nat
          /\ \A t \in tables : t.table_id \in Nat
          /\ \A a \in snapshots : a.table_id \in Nat
      BY <1>a DEF DbTypeOK, TableRow, SnapshotRow
    <3>4. DbInv'
      BY <1>a, <2>2, <3>1, <3>2, <3>3 DEF DbInv, NameTaken
    <3>5. \A m \in Names : m # n => get_table(m)' = get_table(m)
      BY <3>1, <3>2 DEF get_table
    <3> QED
      BY <2>1, <3>4, <3>5
  <2>3. CASE NameTaken(n)
    BY <1>18, <1>a, <1>b, <2>3 DEF CreateTable, DbTypeOK
  <2> QED
    BY <2>2, <2>3
<1>19. CASE CreateFails(th)
  BY <1>19, <1>a, <1>b DEF CreateFails, StatementFails, DbTypeOK
<1>20. CASE LockForGet(th)
  BY <1>20, <1>c DEF LockForGet, LockForQuery, dbVars, seqVars
<1>21. CASE ReadTable(th)
  BY <1>21, <1>c DEF ReadTable, dbVars, seqVars
<1>22. CASE LockForSchema(th)
  BY <1>22, <1>c DEF LockForSchema, LockForQuery, dbVars, seqVars
<1>23. CASE CheckSchema(th)
  BY <1>23, <1>c DEF CheckSchema, dbVars, seqVars
<1>24. CASE LockForAlter(th)
  BY <1>24, <1>c DEF LockForAlter, LockForMutation, dbVars, seqVars
<1>25. CASE ReadVersion(th)
  BY <1>25, <1>c DEF ReadVersion, dbVars, seqVars
<1>26. CASE AlterSchema(th)
  <2> DEFINE n == Name(th)
  <2>1. n \in Names /\ writer[n] = th
    BY <1>26, <1>d DEF AlterSchema, At
  <2>2. PICK r \in get_table(n) : TRUE
    BY <1>26 DEF AlterSchema, SafetyInv, AlterInv
  <2>3. r \in tables /\ r.table_name = n /\ r \in TableRow
    BY <1>a, Lookup DEF DbTypeOK
  <2>4. tables' = update_table_schema(n, req[th].schema, version[th])
    BY <1>26 DEF AlterSchema
  <2> HIDE DEF n
  <2>5. PICK u : /\ tables' = (tables \ {r}) \cup {u}
                 /\ u.table_id = r.table_id /\ u.table_name = n
                 /\ u.current_snapshot_id = r.current_snapshot_id
    BY <1>a, <2>2, <2>3, <2>4, AlterRow
  <2>6. UNCHANGED <<snapshots, table_seq, snapshot_seq>>
    BY <1>26 DEF AlterSchema, seqVars
  <2>7. u.current_snapshot_id <= snapshot_seq /\ \A a \in snapshots' : a.table_id <= table_seq
    BY <1>a, <2>3, <2>5, <2>6 DEF DbInv
  <2>8. DbInv' /\ \A m : m # n => get_table(m)' = get_table(m)
    BY <1>a, <2>3, <2>5, <2>6, <2>7, ReplaceRow
  <2> QED
    BY <2>1, <2>8
<1>27. CASE AlterFails(th)
  BY <1>27, <1>c DEF AlterFails, StatementFails, CommitLost, dbVars, seqVars
<1>28. CASE LockForRename(th)
  BY <1>28, <1>c DEF LockForRename, LockForMutation, dbVars, seqVars
<1>29. CASE LockNewName(th)
  BY <1>29, <1>c DEF LockNewName, dbVars, seqVars
<1>30. CASE LockSameName(th)
  BY <1>30, <1>c DEF LockSameName, dbVars, seqVars
<1>31. CASE RenameTable(th)
  <2> DEFINE n == Name(th)
             new == req[th].to
  <2>1. /\ n \in Names /\ writer[n] = th
        /\ new \in Names /\ writer[new] = th /\ new # n
    BY <1>31, <1>a, <1>d DEF RenameTable, At
  <2>2. UNCHANGED <<snapshots, table_seq, snapshot_seq>>
    BY <1>31 DEF RenameTable, seqVars
  <2>3. CASE RenameConflict(n, new) \/ get_table(n) = {}
    BY <1>31, <1>c, <2>2, <2>3, UpdateNoRow DEF RenameTable
  <2>4. CASE ~RenameConflict(n, new) /\ get_table(n) # {}
    <3>1. PICK r \in get_table(n) : TRUE
      BY <2>4
    <3> DEFINE u == [r EXCEPT !.table_name = new]
    <3>2. r \in tables /\ r.table_name = n /\ r \in TableRow /\ ~NameTaken(new)
      BY <1>a, <2>1, <2>4, Lookup DEF DbTypeOK, RenameConflict
    <3>3. tables' = (tables \ {r}) \cup {u}
      BY <1>31, <1>a, <2>4, <3>1, RenameRow, Zenon DEF RenameTable
    <3>4. /\ u.table_id = r.table_id /\ u.table_name = new
          /\ u.current_snapshot_id = r.current_snapshot_id
      BY <3>2 DEF TableRow
    <3> HIDE DEF u
    <3>5. u.current_snapshot_id <= snapshot_seq /\ \A a \in snapshots' : a.table_id <= table_seq
      BY <1>a, <2>2, <3>2, <3>4 DEF DbInv
    <3>6. DbInv' /\ \A m : m \notin {n, new} => get_table(m)' = get_table(m)
      BY <1>a, <2>2, <3>2, <3>3, <3>4, <3>5, ReplaceRow
    <3> QED
      BY <2>1, <3>6
  <2> QED
    BY <2>3, <2>4
<1>32. CASE RenameFails(th)
  BY <1>32, <1>c DEF RenameFails, StatementFails, dbVars, seqVars
<1>33. CASE LockForDrop(th)
  BY <1>33, <1>c DEF LockForDrop, LockForMutation, dbVars, seqVars
<1>34. CASE DropTable(th)
  <2> DEFINE n == Name(th)
  <2>1. n \in Names /\ writer[n] = th
    BY <1>34, <1>d DEF DropTable, At
  <2>2. UNCHANGED <<table_seq, snapshot_seq>>
    BY <1>34 DEF DropTable, seqVars
  <2>3. CASE get_table(n) = {}
    BY <1>34, <1>c, <2>2, <2>3 DEF DropTable
  <2>4. CASE get_table(n) # {} /\ req[th].purge
    <3>1. /\ tables' = {t \in tables : t.table_name # n}
          /\ snapshots' \subseteq snapshots
      BY <1>34, <2>4 DEF DropTable, DeleteFrom
    <3>2. DbInv'
      BY <1>a, <2>2, <3>1 DEF DbInv
    <3>3. \A m : m # n => get_table(m)' = get_table(m)
      BY <3>1 DEF get_table
    <3> QED
      BY <2>1, <3>2, <3>3
  <2>5. CASE get_table(n) # {} /\ ~req[th].purge
    <3>1. PICK r \in get_table(n) : TRUE
      BY <2>5
    <3> DEFINE u == [r EXCEPT !.is_deleted = TRUE]
    <3>2. r \in tables /\ r.table_name = n /\ r \in TableRow
      BY <1>a, Lookup DEF DbTypeOK
    <3>3. tables' = (tables \ {r}) \cup {u} /\ snapshots' = snapshots
      BY <1>34, <1>a, <2>5, <3>1, SoftDeleteRow DEF DropTable
    <3>4. /\ u.table_id = r.table_id /\ u.table_name = n
          /\ u.current_snapshot_id = r.current_snapshot_id
      BY <3>2 DEF TableRow
    <3> HIDE DEF u
    <3>5. u.current_snapshot_id <= snapshot_seq /\ \A a \in snapshots' : a.table_id <= table_seq
      BY <1>a, <3>2, <3>3, <3>4 DEF DbInv
    <3>6. DbInv' /\ \A m : m # n => get_table(m)' = get_table(m)
      BY <1>a, <2>2, <3>2, <3>3, <3>4, <3>5, ReplaceRow
    <3> QED
      BY <2>1, <3>6
  <2> QED
    BY <2>3, <2>4, <2>5
<1>35. CASE DropFails(th)
  BY <1>35, <1>c DEF DropFails, StatementFails, CommitLost, dbVars, seqVars
<1>36. CASE Start(th)
  BY <1>36, <1>c DEF Start, dbVars, seqVars
<1>37. CASE PickSnapshot(th)
  BY <1>37, <1>c DEF PickSnapshot, dbVars, seqVars
<1>38. CASE Release(th)
  BY <1>38, <1>c DEF Release, dbVars, seqVars
<1>39. CASE InvalidateAfterUnlock(th)
  BY <1>39, <1>c DEF InvalidateAfterUnlock, dbVars, seqVars
<1>40. CASE AcquireThrows(th)
  BY <1>40, <1>c DEF AcquireThrows, dbVars, seqVars
<1> QED
  BY <1>1, <1>2, <1>3, <1>4, <1>5, <1>6, <1>7, <1>8, <1>9, <1>10, <1>11,
     <1>12, <1>13, <1>14, <1>15, <1>16, <1>17, <1>18, <1>19, <1>20,
     <1>21, <1>22, <1>23, <1>24, <1>25, <1>26, <1>27, <1>28, <1>29,
     <1>30, <1>31, <1>32, <1>33, <1>34, <1>35, <1>36, <1>37, <1>38,
     <1>39, <1>40
     DEF HandlerStep, RegistryStep, CatalogStep

-----------------------------------------------------------------------------
(* What a thread has read stays true while it holds its lock *)

\* The labels that carry a value read earlier are entered by one action each,
\* and the snapshot sequence never goes back.
LEMMA Entered ==
    ASSUME SafetyInv, NEW th \in Threads, ThreadStep(th)
    PROVE  /\ pc'[th] = "put" => QueryRows(th)
           /\ pc'[th] = "insertSnapshot" => ValidateParent(th)
           /\ pc'[th] = "write" => DrawSnapshot(th)
           /\ pc'[th] = "alter" => ReadVersion(th)
           /\ snapshot_seq' >= snapshot_seq
<1> USE DEF ThreadStep, SafetyInv, TypeOK, ThreadTypeOK, DbTypeOK, At, Goto, Outcome,
       Return, localVars, dbVars, seqVars
<1>1. CASE LockForRead(th)
  BY <1>1 DEF LockForRead
<1>2. CASE ResolveInMemory(th)
  BY <1>2 DEF ResolveInMemory
<1>3. CASE ResolveFromDb(th)
  BY <1>3 DEF ResolveFromDb
<1>4. CASE CacheHit(th)
  BY <1>4 DEF CacheHit
<1>5. CASE CacheMiss(th)
  BY <1>5 DEF CacheMiss
<1>6. CASE QueryRows(th)
  BY <1>6 DEF QueryRows
<1>7. CASE QueryNothing(th)
  BY <1>7 DEF QueryNothing
<1>8. CASE FillCache(th)
  BY <1>8 DEF FillCache
<1>9. CASE LockForCommit(th)
  BY <1>9 DEF LockForCommit
<1>10. CASE ValidateParent(th)
  BY <1>10 DEF ValidateParent
<1>11. CASE DrawSnapshot(th)
  BY <1>11 DEF DrawSnapshot
<1>12. CASE DrawNothing(th)
  BY <1>12 DEF DrawNothing
<1>13. CASE WriteSnapshot(th)
  BY <1>13 DEF WriteSnapshot
<1>14. CASE RollbackSnapshot(th)
  BY <1>14 DEF RollbackSnapshot
<1>15. CASE LoseSnapshot(th)
  BY <1>15 DEF LoseSnapshot
<1>16. CASE InvalidateAfterCommit(th)
  BY <1>16 DEF InvalidateAfterCommit
<1>17. CASE LockForCreate(th)
  BY <1>17 DEF LockForCreate, LockForMutation
<1>18. CASE CreateTable(th)
  BY <1>18 DEF CreateTable
<1>19. CASE CreateFails(th)
  BY <1>19 DEF CreateFails, StatementFails
<1>20. CASE LockForGet(th)
  BY <1>20 DEF LockForGet, LockForQuery
<1>21. CASE ReadTable(th)
  BY <1>21 DEF ReadTable
<1>22. CASE LockForSchema(th)
  BY <1>22 DEF LockForSchema, LockForQuery
<1>23. CASE CheckSchema(th)
  BY <1>23 DEF CheckSchema
<1>24. CASE LockForAlter(th)
  BY <1>24 DEF LockForAlter, LockForMutation
<1>25. CASE ReadVersion(th)
  BY <1>25 DEF ReadVersion
<1>26. CASE AlterSchema(th)
  BY <1>26 DEF AlterSchema
<1>27. CASE AlterFails(th)
  BY <1>27 DEF AlterFails, StatementFails, CommitLost
<1>28. CASE LockForRename(th)
  BY <1>28 DEF LockForRename, LockForMutation
<1>29. CASE LockNewName(th)
  BY <1>29 DEF LockNewName
<1>30. CASE LockSameName(th)
  BY <1>30 DEF LockSameName
<1>31. CASE RenameTable(th)
  BY <1>31 DEF RenameTable
<1>32. CASE RenameFails(th)
  BY <1>32 DEF RenameFails, StatementFails
<1>33. CASE LockForDrop(th)
  BY <1>33 DEF LockForDrop, LockForMutation
<1>34. CASE DropTable(th)
  BY <1>34 DEF DropTable
<1>35. CASE DropFails(th)
  BY <1>35 DEF DropFails, StatementFails, CommitLost
<1>36. CASE Start(th)
  BY <1>36, ServerAssumption DEF Start, Entry, Ops, Request
<1>37. CASE PickSnapshot(th)
  BY <1>37 DEF PickSnapshot
<1>38. CASE Release(th)
  BY <1>38 DEF Release
<1>39. CASE InvalidateAfterUnlock(th)
  BY <1>39 DEF InvalidateAfterUnlock
<1>40. CASE AcquireThrows(th)
  BY <1>40 DEF AcquireThrows
<1> QED
  BY <1>1, <1>2, <1>3, <1>4, <1>5, <1>6, <1>7, <1>8, <1>9, <1>10, <1>11,
     <1>12, <1>13, <1>14, <1>15, <1>16, <1>17, <1>18, <1>19, <1>20,
     <1>21, <1>22, <1>23, <1>24, <1>25, <1>26, <1>27, <1>28, <1>29,
     <1>30, <1>31, <1>32, <1>33, <1>34, <1>35, <1>36, <1>37, <1>38,
     <1>39, <1>40
     DEF HandlerStep, RegistryStep, CatalogStep

\* WriteInv and AlterInv.  Another thread's table is not touched, because that
\* thread holds the table's name exclusively.
LEMMA PendingStep ==
    ASSUME SafetyInv, NEW th \in Threads, ThreadStep(th)
    PROVE  WriteInv' /\ AlterInv'
<1>1. /\ TypeOK /\ DbTypeOK /\ DbInv /\ WriteInv /\ AlterInv
      /\ \A t \in Threads : t # th /\ pc[t] \in {"write", "alter"} =>
            Name(t) \in Names /\ writer[Name(t)] # th
  BY DEF SafetyInv, TypeOK, ThreadTypeOK, LockInv, ExclusiveLabels, CommitLabels,
         Request, Name
<1>2. snapshot_seq' >= snapshot_seq
  BY Entered
<1>3. ASSUME NEW t \in Threads, t # th, pc[t] \in {"write", "alter"}
      PROVE  /\ Name(t)' = Name(t)
             /\ get_table(Name(t))' = get_table(Name(t))
             /\ get_current_snapshot(Name(t))' = get_current_snapshot(Name(t))
  <2>1. Name(t)' = Name(t)
    BY <1>1, <1>3, LocalsFrame DEF Name
  <2>2. get_table(Name(t))' = get_table(Name(t))
    BY <1>1, <1>3, <2>1, TablesStep
  <2> QED
    BY <2>1, <2>2 DEF get_current_snapshot
<1>4. ASSUME NEW t \in Threads, At(t, "write")'
      PROVE  (/\ get_table(Name(t)) # {}
              /\ get_current_snapshot(Name(t)) < snap[t]
              /\ snap[t] <= snapshot_seq)'
  <2>1. CASE t # th
    <3>1. At(t, "write") /\ snap'[t] = snap[t]
      BY <1>1, <1>4, <2>1, LocalsFrame DEF At
    <3>2. /\ get_table(Name(t)) # {}
          /\ get_current_snapshot(Name(t)) < snap[t]
          /\ snap[t] <= snapshot_seq
      BY <1>1, <3>1 DEF WriteInv
    <3>3. snap[t] \in Nat /\ snapshot_seq \in Nat /\ snapshot_seq' \in Nat
      BY <1>1, DbTypes DEF TypeOK, ThreadTypeOK, DbTypeOK
    <3> QED
      BY <1>2, <1>3, <2>1, <3>1, <3>2, <3>3 DEF At
  <2>2. CASE t = th
    <3>1. DrawSnapshot(th)
      BY <1>4, <2>2, Entered DEF At
    <3>2. /\ Name(t)' = Name(t) /\ tables' = tables
          /\ get_table(Name(t)) # {}
          /\ snapshot_seq' = snapshot_seq + 1 /\ snap'[t] = snapshot_seq + 1
      BY <1>1, <2>2, <3>1 DEF DrawSnapshot, Name, TypeOK, ThreadTypeOK
    <3>3. /\ get_table(Name(t))' = get_table(Name(t))
          /\ get_current_snapshot(Name(t))' = get_current_snapshot(Name(t))
      BY <3>2 DEF get_table, get_current_snapshot
    <3>4. /\ get_current_snapshot(Name(t)) \in Nat
          /\ get_current_snapshot(Name(t)) <= snapshot_seq
          /\ snapshot_seq \in Nat
      BY <1>1, LookupType DEF DbTypeOK
    <3> QED
      BY <3>2, <3>3, <3>4
  <2> QED
    BY <2>1, <2>2
<1>5. ASSUME NEW t \in Threads, At(t, "alter")'
      PROVE  (\E r \in get_table(Name(t)) : version[t] = r.schema_version + 1)'
  <2>1. CASE t # th
    <3>1. At(t, "alter") /\ version'[t] = version[t]
      BY <1>1, <1>5, <2>1, LocalsFrame DEF At
    <3>2. \E r \in get_table(Name(t)) : version[t] = r.schema_version + 1
      BY <1>1, <3>1 DEF AlterInv
    <3> QED
      BY <1>3, <2>1, <3>1, <3>2 DEF At
  <2>2. CASE t = th
    <3>1. ReadVersion(th) /\ pc'[th] = "alter"
      BY <1>5, <2>2, Entered DEF At
    <3>2. PICK r \in get_table(Name(th)) :
             version' = [version EXCEPT ![th] = r.schema_version + 1]
      BY <1>1, <3>1 DEF ReadVersion, Outcome, Goto, TypeOK, ThreadTypeOK
    <3>3. Name(t)' = Name(t) /\ get_table(Name(t))' = get_table(Name(t))
      BY <2>2, <3>1 DEF ReadVersion, Name, get_table, dbVars
    <3>4. version'[t] = r.schema_version + 1
      BY <1>1, <2>2, <3>2 DEF TypeOK, ThreadTypeOK
    <3> QED
      BY <2>2, <3>2, <3>3, <3>4
  <2> QED
    BY <2>1, <2>2
<1> QED
  BY <1>4, <1>5 DEF WriteInv, AlterInv

-----------------------------------------------------------------------------
(* The invariant *)

\* The server starts with the preloaded tables and idle threads.
LEMMA InitSafe == Init => SafetyInv
<1> SUFFICES ASSUME Init PROVE SafetyInv
  OBVIOUS
<1> USE DEF Init
<1>1. DbTypeOK /\ DbInv
  <2>1. PICK s \in Schemas :
           tables = {NewTable(i, Preloaded[i], s) : i \in DOMAIN Preloaded}
    BY DEF DbInit
  <2>2. \A i \in DOMAIN Preloaded :
           /\ i \in Nat /\ Preloaded[i] \in Names
           /\ i <= Len(Preloaded)
    BY PreloadedAssumption
  <2>3. Len(Preloaded) \in Nat
    BY PreloadedAssumption
  <2>4. \A i \in DOMAIN Preloaded : NewTable(i, Preloaded[i], s) \in TableRow
    BY <2>2, NewTableType DEF AnySchema
  <2>5. DbTypeOK
    BY <2>1, <2>3, <2>4 DEF DbTypeOK, DbInit
  <2>6. \A i \in DOMAIN Preloaded :
           /\ NewTable(i, Preloaded[i], s).table_id = i
           /\ NewTable(i, Preloaded[i], s).table_name = Preloaded[i]
           /\ NewTable(i, Preloaded[i], s).current_snapshot_id = 0
    BY DEF NewTable
  <2>7. \A t \in tables : \E i \in DOMAIN Preloaded :
           /\ t = NewTable(i, Preloaded[i], s)
           /\ t.table_id = i /\ t.table_name = Preloaded[i]
           /\ t.current_snapshot_id = 0
    BY <2>1, <2>6
  <2>8. DbInv
    BY <2>2, <2>7, PreloadedAssumption DEF DbInv, DbInit
  <2> QED
    BY <2>5, <2>8
<1>2. LockTypeOK /\ CacheTypeOK /\ \A k \in DOMAIN cache : cache[k] \subseteq PartitionRow
  BY DEF LockInit, LockTypeOK, CacheInit, CacheTypeOK
<1>3. ThreadTypeOK
  BY PoolAssumption DEF ThreadInit, ThreadTypeOK, Each, Labels
<1>4. \A th \in Threads : pc[th] = "idle"
  BY DEF ThreadInit, Each
<1>5. OpInv /\ WriteInv /\ AlterInv
  BY <1>4 DEF OpInv, WriteInv, AlterInv, At, ReadLabels, CommitLabels
<1>6. LockInv
  BY <1>4 DEF LockInv, LockInit, At, SharedLabels, ReadLabels, ExclusiveLabels, CommitLabels
<1> QED
  BY <1>1, <1>2, <1>3, <1>5, <1>6 DEF SafetyInv, TypeOK

\* One step of one handler, its error paths included.
LEMMA ThreadStepSafe ==
    ASSUME SafetyInv, NEW th \in Threads, ThreadStep(th) PROVE SafetyInv'
<1>1. issued' \in Nat
  BY DEF ThreadStep, SafetyInv, TypeOK, Start, HandlerStep, PickSnapshot, Release,
         InvalidateAfterUnlock, AcquireThrows
<1>2. TypeOK'
  BY <1>1, ThreadTypes, DbTypes, LockAndCacheTypes DEF TypeOK
<1> QED
  BY <1>2, OpStep, LockStep, TablesStep, PendingStep DEF SafetyInv

\* A new process finds the relations as they are, and all threads idle.
LEMMA RestartSafe == SafetyInv /\ Restart => SafetyInv'
<1> SUFFICES ASSUME SafetyInv, Restart PROVE SafetyInv'
  OBVIOUS
<1>1. DbTypeOK' /\ DbInv' /\ issued' \in Nat
  BY DEF SafetyInv, TypeOK, Restart, dbVars, seqVars, DbTypeOK, DbInv
<1>2. LockTypeOK' /\ CacheTypeOK' /\ \A k \in DOMAIN cache' : cache'[k] \subseteq PartitionRow
  BY DEF Restart, LockTypeOK, CacheTypeOK, Without
<1>3. ThreadTypeOK'
  BY PoolAssumption DEF Restart, ThreadReset, ThreadTypeOK, Each, Labels
<1>4. \A th \in Threads : pc'[th] = "idle"
  BY DEF Restart, ThreadReset, Each
<1>5. OpInv' /\ WriteInv' /\ AlterInv'
  BY <1>4 DEF OpInv, WriteInv, AlterInv, At, ReadLabels, CommitLabels
<1>6. LockInv'
  BY <1>4 DEF LockInv, Restart, At, SharedLabels, ReadLabels, ExclusiveLabels, CommitLabels
<1> QED
  BY <1>1, <1>2, <1>3, <1>5, <1>6 DEF SafetyInv, TypeOK

\* A step that changes only the commit counter and the count of requests, or
\* nothing.
LEMMA CounterSafe ==
    ASSUME SafetyInv, UNCHANGED <<dbVars, lockVars, cache, pc, localVars, poolVars>>,
           latest' \in Nat, issued' \in Nat
    PROVE  SafetyInv'
<1> USE DEF dbVars, seqVars, lockVars, localVars, poolVars
<1>1. TypeOK'
  BY DEF SafetyInv, TypeOK, DbTypeOK, LockTypeOK, CacheTypeOK, ThreadTypeOK
<1>2. OpInv' /\ LockInv'
  BY DEF SafetyInv, OpInv, LockInv, At, Name, InvalidatesAfterUnlock
<1>3. DbInv' /\ WriteInv' /\ AlterInv'
  BY DEF SafetyInv, DbInv, WriteInv, AlterInv, At, Name, get_table, get_current_snapshot
<1> QED
  BY <1>1, <1>2, <1>3 DEF SafetyInv

\* SafetyInv is inductive.
LEMMA NextSafe == SafetyInv /\ [Next]_vars => SafetyInv'
<1> SUFFICES ASSUME SafetyInv, [Next]_vars PROVE SafetyInv'
  OBVIOUS
<1>1. ASSUME NEW th \in Threads, Start(th) \/ HandlerStep(th) PROVE SafetyInv'
  BY <1>1, ThreadStepSafe DEF ThreadStep
<1>2. CASE CommitTransaction
  BY <1>2, CounterSafe DEF CommitTransaction, SafetyInv, TypeOK, ThreadTypeOK
<1>3. CASE Restart
  BY <1>3, RestartSafe
<1>4. CASE Quiet \/ UNCHANGED vars
  BY <1>4, CounterSafe DEF Quiet, vars, serverVars, SafetyInv, TypeOK, ThreadTypeOK
<1> QED
  BY <1>1, <1>2, <1>3, <1>4 DEF Next

\* For any number of threads, tables, requests and connections and any mix of
\* faults: the types hold, the locks exclude, every thread is where its handler
\* takes it with the lock it took, the database keeps its constraints, and what
\* a commit or a schema change has read is still so when it writes.
THEOREM Safety == Spec => []SafetyInv
  BY InitSafe, NextSafe, PTL DEF Spec

\* The type invariant of the server.
THEOREM TypeCorrect == Spec => []TypeOK
<1>1. SafetyInv => TypeOK
  BY DEF SafetyInv
<1> QED
  BY <1>1, Safety, PTL

-----------------------------------------------------------------------------
(* Snapshots *)

\* Only a commit and a purge change what some read returns: a commit only reads
\* of its table from its own snapshot on, a purge only reads of its table.
LEMMA ViewsStep ==
    ASSUME SafetyInv, NEW th \in Threads, ThreadStep(th),
           NEW other \in Nat, NEW v \in Nat
    PROVE  \/ View(other, v)' = View(other, v)
           \/ WriteSnapshot(th) /\ other = get_table_id(Name(th)) /\ v >= snap[th]
           \/ /\ DropTable(th) /\ get_table(Name(th)) # {} /\ req[th].purge
              /\ other = get_table_id(Name(th))
<1> USE DEF ThreadStep
<1>a. /\ DbInv /\ DbTypeOK
      /\ pc[th] # "idle" => req[th] \in Request
      /\ snap[th] \in Nat
  BY DEF SafetyInv, TypeOK, ThreadTypeOK
<1>b. ASSUME partitions' = partitions PROVE View(other, v)' = View(other, v)
  BY <1>b DEF View, Visible, Select
<1>1. CASE LockForRead(th)
  BY <1>1, <1>b DEF LockForRead, dbVars
<1>2. CASE ResolveInMemory(th)
  BY <1>2, <1>b DEF ResolveInMemory, dbVars
<1>3. CASE ResolveFromDb(th)
  BY <1>3, <1>b DEF ResolveFromDb, dbVars
<1>4. CASE CacheHit(th)
  BY <1>4, <1>b DEF CacheHit, dbVars
<1>5. CASE CacheMiss(th)
  BY <1>5, <1>b DEF CacheMiss, dbVars
<1>6. CASE QueryRows(th)
  BY <1>6, <1>b DEF QueryRows, dbVars
<1>7. CASE QueryNothing(th)
  BY <1>7, <1>b DEF QueryNothing, dbVars
<1>8. CASE FillCache(th)
  BY <1>8, <1>b DEF FillCache, dbVars
<1>9. CASE LockForCommit(th)
  BY <1>9, <1>b DEF LockForCommit, dbVars
<1>10. CASE ValidateParent(th)
  BY <1>10, <1>b DEF ValidateParent, dbVars
<1>11. CASE DrawSnapshot(th)
  BY <1>11, <1>b DEF DrawSnapshot, dbVars
<1>12. CASE DrawNothing(th)
  BY <1>12, <1>b DEF DrawNothing, dbVars
<1>13. CASE WriteSnapshot(th)
  <2> DEFINE id == get_table_id(Name(th))
  <2>1. /\ id \in Nat /\ partition_seq \in Nat
        /\ req[th].adds \in Seq(Keys) /\ req[th].dels \in SUBSET Keys
    BY <1>13, <1>a, LookupType
       DEF WriteSnapshot, At, SafetyInv, WriteInv, Request, DbTypeOK
  <2>2. partitions' = mark_partitions_deleted(
           insert_partitions(id, snap[th], req[th].adds, partition_seq),
           id, req[th].dels, snap[th])
    BY <1>13 DEF WriteSnapshot
  <2> HIDE DEF id
  <2>3. other # id \/ v < snap[th] => View(other, v)' = View(other, v)
    BY <1>a, <2>1, <2>2, CommitViews
  <2> QED
    BY <1>13, <1>a, <2>3 DEF id
<1>14. CASE RollbackSnapshot(th)
  BY <1>14, <1>b DEF RollbackSnapshot, dbVars
<1>15. CASE LoseSnapshot(th)
  BY <1>15, <1>b DEF LoseSnapshot, dbVars
<1>16. CASE InvalidateAfterCommit(th)
  BY <1>16, <1>b DEF InvalidateAfterCommit, dbVars
<1>17. CASE LockForCreate(th)
  BY <1>17, <1>b DEF LockForCreate, LockForMutation, dbVars
<1>18. CASE CreateTable(th)
  BY <1>18, <1>b DEF CreateTable, dbVars
<1>19. CASE CreateFails(th)
  BY <1>19, <1>b DEF CreateFails, StatementFails, dbVars
<1>20. CASE LockForGet(th)
  BY <1>20, <1>b DEF LockForGet, LockForQuery, dbVars
<1>21. CASE ReadTable(th)
  BY <1>21, <1>b DEF ReadTable, dbVars
<1>22. CASE LockForSchema(th)
  BY <1>22, <1>b DEF LockForSchema, LockForQuery, dbVars
<1>23. CASE CheckSchema(th)
  BY <1>23, <1>b DEF CheckSchema, dbVars
<1>24. CASE LockForAlter(th)
  BY <1>24, <1>b DEF LockForAlter, LockForMutation, dbVars
<1>25. CASE ReadVersion(th)
  BY <1>25, <1>b DEF ReadVersion, dbVars
<1>26. CASE AlterSchema(th)
  BY <1>26, <1>b DEF AlterSchema, dbVars
<1>27. CASE AlterFails(th)
  BY <1>27, <1>b DEF AlterFails, StatementFails, CommitLost, dbVars
<1>28. CASE LockForRename(th)
  BY <1>28, <1>b DEF LockForRename, LockForMutation, dbVars
<1>29. CASE LockNewName(th)
  BY <1>29, <1>b DEF LockNewName, dbVars
<1>30. CASE LockSameName(th)
  BY <1>30, <1>b DEF LockSameName, dbVars
<1>31. CASE RenameTable(th)
  BY <1>31, <1>b DEF RenameTable, dbVars
<1>32. CASE RenameFails(th)
  BY <1>32, <1>b DEF RenameFails, StatementFails, dbVars
<1>33. CASE LockForDrop(th)
  BY <1>33, <1>b DEF LockForDrop, LockForMutation, dbVars
<1>34. CASE DropTable(th)
  <2> DEFINE id == get_table_id(Name(th))
  <2>1. CASE get_table(Name(th)) # {} /\ req[th].purge
    <3>1. partitions' = DeleteFrom(partitions, id)
      BY <1>34, <2>1 DEF DropTable
    <3> HIDE DEF id
    <3>2. other # id => View(other, v)' = View(other, v)
      BY <3>1, PurgeViews
    <3> QED
      BY <1>34, <2>1, <3>2 DEF id
  <2>2. CASE ~(get_table(Name(th)) # {} /\ req[th].purge)
    BY <1>34, <1>b, <2>2 DEF DropTable
  <2> QED
    BY <2>1, <2>2
<1>35. CASE DropFails(th)
  BY <1>35, <1>b DEF DropFails, StatementFails, CommitLost, dbVars
<1>36. CASE Start(th)
  BY <1>36, <1>b DEF Start, dbVars
<1>37. CASE PickSnapshot(th)
  BY <1>37, <1>b DEF PickSnapshot, dbVars
<1>38. CASE Release(th)
  BY <1>38, <1>b DEF Release, dbVars
<1>39. CASE InvalidateAfterUnlock(th)
  BY <1>39, <1>b DEF InvalidateAfterUnlock, dbVars
<1>40. CASE AcquireThrows(th)
  BY <1>40, <1>b DEF AcquireThrows, dbVars
<1> QED
  BY <1>1, <1>2, <1>3, <1>4, <1>5, <1>6, <1>7, <1>8, <1>9, <1>10, <1>11,
     <1>12, <1>13, <1>14, <1>15, <1>16, <1>17, <1>18, <1>19, <1>20,
     <1>21, <1>22, <1>23, <1>24, <1>25, <1>26, <1>27, <1>28, <1>29,
     <1>30, <1>31, <1>32, <1>33, <1>34, <1>35, <1>36, <1>37, <1>38,
     <1>39, <1>40
     DEF HandlerStep, RegistryStep, CatalogStep

\* A step of a thread leaves the snapshots of the tables that survive it alone.
LEMMA ImmutableStep ==
    ASSUME SafetyInv, NEW th \in Threads, ThreadStep(th),
           NEW t \in tables, NEW s \in 0 .. t.current_snapshot_id,
           NEW u \in tables', u.table_id = t.table_id
    PROVE  View(t.table_id, s)' = View(t.table_id, s)
<1>1. /\ DbInv /\ DbTypeOK /\ WriteInv
      /\ t \in TableRow /\ t.table_id \in Nat /\ s \in Nat
      /\ t.current_snapshot_id \in Nat /\ snap[th] \in Nat
  BY DEF SafetyInv, TypeOK, DbTypeOK, TableRow, ThreadTypeOK
<1>2. CASE WriteSnapshot(th) /\ t.table_id = get_table_id(Name(th)) /\ s >= snap[th]
  <2>1. get_table(Name(th)) # {} /\ get_current_snapshot(Name(th)) < snap[th]
    BY <1>1, <1>2 DEF WriteSnapshot, WriteInv
  <2>2. PICK r \in get_table(Name(th)) : TRUE
    BY <2>1
  <2>3. /\ r \in tables /\ r.table_id = get_table_id(Name(th))
        /\ r.current_snapshot_id = get_current_snapshot(Name(th))
    BY <1>1, <2>2, Lookup
  <2>4. r = t
    BY <1>1, <1>2, <2>3 DEF DbInv
  <2> QED
    BY <1>1, <1>2, <2>1, <2>3, <2>4
<1>3. CASE /\ DropTable(th) /\ get_table(Name(th)) # {} /\ req[th].purge
           /\ t.table_id = get_table_id(Name(th))
  <2>1. PICK r \in get_table(Name(th)) : TRUE
    BY <1>3
  <2>2. r \in tables /\ r.table_id = get_table_id(Name(th)) /\ r.table_name = Name(th)
    BY <1>1, <2>1, Lookup
  <2>3. tables' = {x \in tables : x.table_name # Name(th)}
    BY <1>3 DEF DropTable
  <2>4. u \in tables /\ u.table_name # Name(th)
    BY <2>3
  <2>5. u = r
    BY <1>1, <1>3, <2>2, <2>4 DEF DbInv
  <2> QED
    BY <2>2, <2>4, <2>5
<1> QED
  BY <1>1, <1>2, <1>3, ViewsStep

\* Snapshots are immutable, for every run of the server: no commit, schema
\* change, rename, drop, crash or failure changes what a read at a committed
\* snapshot of a table returns, as long as the table is not purged.
THEOREM SnapshotsImmutable == Spec => SnapshotImmutable
<1>1. SafetyInv /\ [Next]_vars =>
         [\A t \in tables : \A s \in 0 .. t.current_snapshot_id :
             (\E u \in tables' : u.table_id = t.table_id) =>
                View(t.table_id, s)' = View(t.table_id, s)]_vars
  <2> SUFFICES ASSUME SafetyInv, [Next]_vars,
                      NEW t \in tables, NEW s \in 0 .. t.current_snapshot_id,
                      NEW u \in tables', u.table_id = t.table_id
               PROVE  View(t.table_id, s)' = View(t.table_id, s)
    OBVIOUS
  <2>1. ASSUME NEW th \in Threads, Start(th) \/ HandlerStep(th)
        PROVE  View(t.table_id, s)' = View(t.table_id, s)
    BY <2>1, ImmutableStep DEF ThreadStep
  <2>2. CASE CommitTransaction \/ Restart \/ Quiet \/ UNCHANGED vars
    BY <2>2 DEF CommitTransaction, Restart, Quiet, vars, serverVars, dbVars,
                View, Visible, Select
  <2> QED
    BY <2>1, <2>2 DEF Next
<1> QED
  BY <1>1, Safety, PTL DEF Spec, SnapshotImmutable

=============================================================================
