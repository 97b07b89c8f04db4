--------------------------- MODULE HandlerProofs ----------------------------
(***************************************************************************)
(* What the handlers cache, return and leave behind: the partition cache   *)
(* agrees with the database, an acknowledged commit is current, a read     *)
(* returns what its snapshot holds, and nothing is leaked.                 *)
(***************************************************************************)
EXTENDS CatalogProofs, FiniteSetTheorems

-----------------------------------------------------------------------------
(* Tables that a step does not touch *)

\* Tables of different names have different ids.
LEMMA DifferentIds ==
    ASSUME DbInv, NEW n, NEW m, n # m, get_table(n) # {}, get_table(m) # {}
    PROVE  get_table_id(n) # get_table_id(m)
<1>1. PICK r \in get_table(n) : TRUE
  OBVIOUS
<1>2. PICK s \in get_table(m) : TRUE
  OBVIOUS
<1> QED
  BY <1>1, <1>2, Lookup DEF DbInv

\* The partitions of a table change with its row or with its views.
LEMMA QueryKept ==
    ASSUME NEW n, NEW i, get_table(n)' = get_table(n), i = get_table_id(n), NEW s,
           View(i, s)' = View(i, s)
    PROVE  query_partitions(n, s)' = query_partitions(n, s)
<1>1. get_table_id(n)' = i
  BY DEF get_table_id
<1>2. query_partitions(n, s)' = View(i, s)'
  BY <1>1 DEF query_partitions, View, Visible, Select
<1>3. query_partitions(n, s) = View(i, s)
  BY DEF query_partitions
<1> QED
  BY <1>2, <1>3

\* A step of th leaves the table of a name alone that th has not locked
\* exclusively, and its partitions with it.
LEMMA TableKept ==
    ASSUME SafetyInv, NEW th \in Threads, ThreadStep(th),
           NEW n \in Names, writer[n] # th, get_table(n) # {}
    PROVE  /\ get_table(n)' = get_table(n)
           /\ get_table_id(n)' = get_table_id(n)
           /\ \A s \in Nat : query_partitions(n, s)' = query_partitions(n, s)
<1>a. DbTypeOK /\ DbInv /\ LockInv /\ WriteInv
  BY DEF SafetyInv, TypeOK
<1>1. get_table(n)' = get_table(n)
  BY TablesStep
<1>2. get_table_id(n)' = get_table_id(n)
  BY <1>1 DEF get_table_id
<1>3. get_table_id(n) \in Nat
  BY <1>a, LookupType
<1>4. ASSUME NEW s \in Nat PROVE query_partitions(n, s)' = query_partitions(n, s)
  <2>0. PICK id : id = get_table_id(n)
    OBVIOUS
  <2>1. ASSUME At(th, "write") \/ At(th, "drop") PROVE Name(th) # n
    BY <1>a, <2>1 DEF LockInv, ExclusiveLabels, CommitLabels, At
  <2>2. ~(WriteSnapshot(th) /\ id = get_table_id(Name(th)))
    BY <1>a, <2>0, <2>1, DifferentIds DEF WriteSnapshot, WriteInv
  <2>3. ~(DropTable(th) /\ get_table(Name(th)) # {} /\ id = get_table_id(Name(th)))
    BY <1>a, <2>0, <2>1, DifferentIds DEF DropTable
  <2>4. View(id, s)' = View(id, s)
    BY <1>3, <2>0, <2>2, <2>3, ViewsStep
  <2> QED
    BY <1>1, <2>0, <2>4, QueryKept
<1> QED
  BY <1>1, <1>2, <1>4

-----------------------------------------------------------------------------
(* The partition cache *)

\* What a reader has queried stays what the query returns: it holds the lock.
LEMMA FillStep ==
    ASSUME SafetyInv, FillInv, NEW th \in Threads, ThreadStep(th)
    PROVE  FillInv'
<1>a. TypeOK /\ LockInv
  BY DEF SafetyInv
<1> SUFFICES ASSUME NEW t \in Threads, pc'[t] = "put"
             PROVE  /\ get_table(Name(t))' # {}
                    /\ rows'[t] = query_partitions(Name(t), snap[t])'
  BY DEF FillInv, At
<1>1. CASE t = th
  <2>1. QueryRows(th)
    BY <1>1, Entered
  <2> QED
    BY <1>a, <1>1, <2>1
       DEF QueryRows, query_partitions, View, Visible, Select, get_table_id, get_table,
           Name, dbVars, TypeOK, ThreadTypeOK
<1>2. CASE t # th
  <2>1. pc[t] = "put" /\ req'[t] = req[t] /\ snap'[t] = snap[t] /\ rows'[t] = rows[t]
    BY <1>a, <1>2, LocalsFrame
  <2>2. PICK n : n = Name(t)
    OBVIOUS
  <2>3. PICK s : s = snap[t]
    OBVIOUS
  <2>4. n \in Names /\ s \in Nat
    BY <1>a, <2>1, <2>2, <2>3 DEF TypeOK, ThreadTypeOK, Request, Name
  <2>5. writer[n] # th /\ get_table(n) # {} /\ rows[t] = query_partitions(n, s)
    BY <1>a, <2>1, <2>2, <2>3, <2>4, NoThreadAssumption
       DEF LockInv, SharedLabels, ReadLabels, FillInv, At
  <2>6. get_table(n)' # {} /\ query_partitions(n, s)' = query_partitions(n, s)
    BY <2>4, <2>5, TableKept
  <2>7. Name(t)' = n /\ snap'[t] = s
    BY <2>1, <2>2, <2>3 DEF Name
  <2>8. get_table(Name(t))' = get_table(n)'
    BY <2>7 DEF get_table
  <2>9. query_partitions(Name(t), snap[t])' = query_partitions(n, s)'
    BY <2>7, <2>8 DEF query_partitions, View, Visible, Select, get_table_id
  <2> QED
    BY <2>1, <2>5, <2>6, <2>8, <2>9
<1> QED
  BY <1>1, <1>2

\* th is on its way to invalidate the cached partitions of its table.
Invalidating(th) ==
    /\ pc[th] # "idle"
    /\ \/ At(th, "invalidate")
       \/ pc[th] \in {"reply", "trailing"} /\ InvalidatesAfterUnlock(th)

\* A step touches the cache in one of two ways, and a thread that is to
\* invalidate a table does so before it is done.
LEMMA CacheEffect ==
    ASSUME SafetyInv, NEW th \in Threads, ThreadStep(th)
    PROVE  /\ \/ UNCHANGED cache \/ FillCache(th)
              \/ invalidate_table_cache(Name(th))
           /\ \/ ~Invalidating(th) \/ invalidate_table_cache(Name(th))
              \/ Invalidating(th)' /\ Name(th)' = Name(th)
<1> USE DEF ThreadStep, Invalidating, At
<1>a. TypeOK /\ ThreadTypeOK
  BY DEF SafetyInv, TypeOK
<1>1. CASE LockForRead(th)
  BY <1>1 DEF LockForRead
<1>2. CASE ResolveInMemory(th)
  BY <1>2 DEF ResolveInMemory
<1>3. CASE ResolveFromDb(th)
  BY <1>3 DEF ResolveFromDb
<1>4. CASE CacheHit(th)
  BY <1>4 DEF CacheHit
<1>5. CASE CacheMiss(th)
  BY <1>5 DEF CacheMiss
<1>6. CASE QueryRows(th)
  BY <1>6 DEF QueryRows
<1>7. CASE QueryNothing(th)
  BY <1>7 DEF QueryNothing
<1>8. CASE FillCache(th)
  BY <1>8 DEF FillCache
<1>9. CASE LockForCommit(th)
  BY <1>9 DEF LockForCommit
<1>10. CASE ValidateParent(th)
  BY <1>10 DEF ValidateParent
<1>11. CASE DrawSnapshot(th)
  BY <1>11 DEF DrawSnapshot
<1>12. CASE DrawNothing(th)
  BY <1>12 DEF DrawNothing
<1>13. CASE WriteSnapshot(th)
  BY <1>13 DEF WriteSnapshot
<1>14. CASE RollbackSnapshot(th)
  BY <1>14 DEF RollbackSnapshot
<1>15. CASE LoseSnapshot(th)
  BY <1>15 DEF LoseSnapshot
<1>16. CASE InvalidateAfterCommit(th)
  BY <1>16 DEF InvalidateAfterCommit
<1>17. CASE LockForCreate(th)
  BY <1>17 DEF LockForCreate, LockForMutation
<1>18. CASE CreateTable(th)
  BY <1>18 DEF CreateTable
<1>19. CASE CreateFails(th)
  BY <1>19 DEF CreateFails, StatementFails
<1>20. CASE LockForGet(th)
  BY <1>20 DEF LockForGet, LockForQuery
<1>21. CASE ReadTable(th)
  BY <1>21 DEF ReadTable
<1>22. CASE LockForSchema(th)
  BY <1>22 DEF LockForSchema, LockForQuery
<1>23. CASE CheckSchema(th)
  BY <1>23 DEF CheckSchema
<1>24. CASE LockForAlter(th)
  BY <1>24 DEF LockForAlter, LockForMutation
<1>25. CASE ReadVersion(th)
  BY <1>25 DEF ReadVersion
<1>26. CASE AlterSchema(th)
  BY <1>26 DEF AlterSchema
<1>27. CASE AlterFails(th)
  BY <1>27 DEF AlterFails, StatementFails, CommitLost
<1>28. CASE LockForRename(th)
  BY <1>28 DEF LockForRename, LockForMutation
<1>29. CASE LockNewName(th)
  BY <1>29 DEF LockNewName
<1>30. CASE LockSameName(th)
  BY <1>30 DEF LockSameName
<1>31. CASE RenameTable(th)
  BY <1>31 DEF RenameTable
<1>32. CASE RenameFails(th)
  BY <1>32 DEF RenameFails, StatementFails
<1>33. CASE LockForDrop(th)
  BY <1>33 DEF LockForDrop, LockForMutation
<1>34. CASE DropTable(th)
  BY <1>34 DEF DropTable
<1>35. CASE DropFails(th)
  BY <1>35 DEF DropFails, StatementFails, CommitLost
<1>36. CASE Start(th)
  BY <1>36 DEF Start
<1>37. CASE PickSnapshot(th)
  BY <1>37 DEF PickSnapshot
<1>38. CASE Release(th)
  BY <1>38, <1>a DEF Release, Return, Goto, localVars, InvalidatesAfterUnlock, Name, ThreadTypeOK
<1>39. CASE InvalidateAfterUnlock(th)
  BY <1>39 DEF InvalidateAfterUnlock
<1>40. CASE AcquireThrows(th)
  BY <1>40 DEF AcquireThrows, NeedsConnection
<1> QED
  BY <1>1, <1>2, <1>3, <1>4, <1>5, <1>6, <1>7, <1>8, <1>9, <1>10, <1>11,
     <1>12, <1>13, <1>14, <1>15, <1>16, <1>17, <1>18, <1>19, <1>20,
     <1>21, <1>22, <1>23, <1>24, <1>25, <1>26, <1>27, <1>28, <1>29,
     <1>30, <1>31, <1>32, <1>33, <1>34, <1>35, <1>36, <1>37, <1>38,
     <1>39, <1>40
     DEF HandlerStep, RegistryStep, CatalogStep


\* A step that changes what a read of an existing table returns is one of the
\* table's own, and its thread is then about to invalidate the table.
LEMMA Touched ==
    ASSUME SafetyInv, NEW th \in Threads, ThreadStep(th),
           NEW n \in Names, get_table(n) # {}
    PROVE  \/ /\ get_table(n)' = get_table(n)
              /\ \A s \in Nat : query_partitions(n, s)' = query_partitions(n, s)
           \/ Invalidating(th)' /\ Name(th) = n /\ Name(th)' = n
<1>a. TypeOK /\ OpInv /\ LockInv /\ DbInv /\ DbTypeOK /\ ThreadTypeOK
  BY DEF SafetyInv, TypeOK
<1>b. get_table(n)' = get_table(n) /\ n # Name(th) =>
         \A s \in Nat : query_partitions(n, s)' = query_partitions(n, s)
  <2> SUFFICES ASSUME get_table(n)' = get_table(n), n # Name(th), NEW s \in Nat
               PROVE  query_partitions(n, s)' = query_partitions(n, s)
    OBVIOUS
  <2>0. PICK id : id = get_table_id(n)
    OBVIOUS
  <2>1. id \in Nat
    BY <1>a, <2>0, LookupType
  <2>2. get_table(Name(th)) # {} => id # get_table_id(Name(th))
    BY <1>a, <2>0, DifferentIds
  <2>3. WriteSnapshot(th) => get_table(Name(th)) # {}
    BY DEF WriteSnapshot, SafetyInv, WriteInv
  <2>4. View(id, s)' = View(id, s)
    BY <2>1, <2>2, <2>3, ViewsStep
  <2> QED
    BY <2>0, <2>4, QueryKept
<1>1. CASE RowsKept
  <2>1. get_table(n)' = get_table(n)
    BY <1>1 DEF RowsKept, get_table
  <2>2. \A s \in Nat : query_partitions(n, s)' = query_partitions(n, s)
    BY <1>1 DEF RowsKept, query_partitions, View, Visible, Select, get_table_id, get_table
  <2> QED
    BY <2>1, <2>2
<1>2. CASE WriteSnapshot(th)
  <2>1. CASE n = Name(th)
    BY <1>a, <1>2, <2>1
       DEF WriteSnapshot, Invalidating, At, Goto, localVars, Name, TypeOK, ThreadTypeOK
  <2>2. CASE n # Name(th)
    <3>1. get_table(n)' = get_table(n)
      BY <1>a, <1>2, <2>2 DEF WriteSnapshot, update_table_snapshot, get_table, DbTypeOK, TableRow
    <3> QED
      BY <1>b, <2>2, <3>1
  <2> QED
    BY <2>1, <2>2
<1>3. CASE CreateTable(th)
  <2>1. n = Name(th) => NameTaken(Name(th))
    BY DEF NameTaken, get_table
  <2>2. get_table(n)' = get_table(n)
    BY <1>3, <2>1 DEF CreateTable, create_table, NewTable, get_table
  <2>3. UNCHANGED partitions
    BY <1>3 DEF CreateTable
  <2>4. \A s \in Nat : query_partitions(n, s)' = query_partitions(n, s)
    BY <2>2, <2>3 DEF query_partitions, View, Visible, Select, get_table_id
  <2> QED
    BY <2>2, <2>4
<1>4. CASE AlterSchema(th)
  <2>1. CASE n = Name(th)
    BY <1>a, <1>4, <2>1
       DEF AlterSchema, Invalidating, InvalidatesAfterUnlock, OpInv, At, Outcome, Goto,
           Name, TypeOK, ThreadTypeOK
  <2>2. CASE n # Name(th)
    <3>1. \A r \in tables :
             LET u == [r EXCEPT !.schema = req[th].schema, !.schema_version = version[th]]
             IN  u.table_name = r.table_name
      BY <1>a DEF DbTypeOK, TableRow
    <3>2. get_table(n)' = get_table(n)
      BY <1>4, <2>2, <3>1 DEF AlterSchema, update_table_schema, get_table
    <3> QED
      BY <1>b, <2>2, <3>2
  <2> QED
    BY <2>1, <2>2
<1>5. CASE RenameTable(th)
  <2>1. CASE n = Name(th)
    BY <1>a, <1>5, <2>1
       DEF RenameTable, Invalidating, InvalidatesAfterUnlock, OpInv, At, Outcome, Goto,
           Name, TypeOK, ThreadTypeOK
  <2>2. CASE n # Name(th)
    <3>1. n = req[th].to => NameTaken(n)
      BY DEF NameTaken, get_table
    <3>2. get_table(n)' = get_table(n)
      BY <1>a, <1>5, <2>2, <3>1
         DEF RenameTable, RenameConflict, rename_table, get_table, DbTypeOK, TableRow
    <3> QED
      BY <1>b, <2>2, <3>2
  <2> QED
    BY <2>1, <2>2
<1>6. CASE DropTable(th)
  <2>1. CASE n = Name(th)
    BY <1>a, <1>6, <2>1
       DEF DropTable, Invalidating, InvalidatesAfterUnlock, OpInv, At, Outcome, Goto,
           Name, TypeOK, ThreadTypeOK
  <2>2. CASE n # Name(th)
    <3>1. get_table(n)' = get_table(n)
      BY <1>a, <1>6, <2>2 DEF DropTable, soft_delete_table, get_table, DbTypeOK, TableRow
    <3> QED
      BY <1>b, <2>2, <3>1
  <2> QED
    BY <2>1, <2>2
<1> QED
  BY <1>1, <1>2, <1>3, <1>4, <1>5, <1>6, Writers

\* CacheCoherent is inductive beside FillInv.
LEMMA CoherentStep ==
    ASSUME SafetyInv, FillInv, CacheCoherent, NEW th \in Threads, ThreadStep(th)
    PROVE  CacheCoherent'
<1>a. TypeOK /\ CacheTypeOK
  BY DEF SafetyInv, TypeOK
<1> SUFFICES ASSUME NEW k \in DOMAIN cache',
                    \A t \in Threads : ~(Invalidating(t)' /\ Name(t)' = k[1])
             PROVE  /\ get_table(k[1])' # {}
                    /\ cache'[k] = query_partitions(k[1], k[2])'
  BY DEF CacheCoherent, InvalidationPending, Invalidating
<1>1. CASE FillCache(th) /\ k = Key(th)
  <2>1. cache'[k] = rows[th]
    BY <1>1, PutEffect DEF FillCache
  <2>2. k[1] = Name(th) /\ k[2] = snap[th] /\ UNCHANGED dbVars
    BY <1>1 DEF FillCache, Key, make_cache_key
  <2>3. get_table(k[1]) # {} /\ rows[th] = query_partitions(k[1], k[2])
    BY <1>1, <2>2 DEF FillInv, FillCache
  <2> QED
    BY <2>1, <2>2, <2>3
       DEF query_partitions, View, Visible, Select, get_table_id, get_table, dbVars
<1>2. CASE ~(FillCache(th) /\ k = Key(th))
  <2>1. k \in DOMAIN cache /\ cache'[k] = cache[k]
    <3>1. CASE UNCHANGED cache
      BY <3>1
    <3>2. CASE FillCache(th)
      BY <1>2, <3>2, PutEffect DEF FillCache
    <3>3. CASE invalidate_table_cache(Name(th))
      BY <3>3 DEF invalidate_table_cache, Without
    <3> QED
      BY <3>1, <3>2, <3>3, CacheEffect
  <2>2. k[1] \in Names /\ k[2] \in Nat
    BY <1>a, <2>1 DEF CacheTypeOK
  <2>3. \A t \in Threads : ~(Invalidating(t) /\ Name(t) = k[1])
    <3> SUFFICES ASSUME NEW t \in Threads, Invalidating(t), Name(t) = k[1]
                 PROVE  FALSE
      OBVIOUS
    <3>1. CASE t = th
      <4>1. invalidate_table_cache(Name(th))
        BY <3>1, CacheEffect
      <4> QED
        BY <3>1, <4>1 DEF invalidate_table_cache, Without, Matches
    <3>2. CASE t # th
      BY <1>a, <3>2, LocalsFrame DEF Invalidating, InvalidatesAfterUnlock, At, Name
    <3> QED
      BY <3>1, <3>2
  <2>4. get_table(k[1]) # {} /\ cache[k] = query_partitions(k[1], k[2])
    BY <2>1, <2>3 DEF CacheCoherent, InvalidationPending, Invalidating
  <2>5. get_table(k[1])' = get_table(k[1]) /\ query_partitions(k[1], k[2])' = query_partitions(k[1], k[2])
    BY <2>2, <2>4, Touched
  <2> QED
    BY <2>1, <2>4, <2>5
<1> QED
  BY <1>1, <1>2

\* The cache agrees with the database in every state of the server, under every
\* fault: with its invalidations outside the lock, and with entries evicted or
\* shared prefixes invalidated too, no cached entry is wrong that no thread is
\* about to remove.
THEOREM CacheAlwaysCoherent == Spec => []CacheCoherent
<1> DEFINE I == SafetyInv /\ FillInv /\ CacheCoherent
<1>1. Init => I
  BY InitSafe DEF Init, ThreadInit, Each, CacheInit, FillInv, CacheCoherent, At
<1>2. I /\ [Next]_vars => I'
  <2> SUFFICES ASSUME I, [Next]_vars PROVE I'
    OBVIOUS
  <2>0. SafetyInv'
    BY NextSafe
  <2>1. ASSUME NEW th \in Threads, Start(th) \/ HandlerStep(th)
        PROVE  FillInv' /\ CacheCoherent'
    BY <2>1, FillStep, CoherentStep DEF ThreadStep
  <2>2. CASE Restart
    <3>1. DOMAIN cache' = {} /\ \A th \in Threads : pc'[th] = "idle"
      BY <2>2 DEF Restart, Without, ThreadReset, Each
    <3> QED
      BY <2>0, <3>1 DEF FillInv, CacheCoherent, At
  <2>3. CASE CommitTransaction \/ Quiet \/ UNCHANGED vars
    <3>1. UNCHANGED <<dbVars, cache, pc, localVars>>
      BY <2>3 DEF CommitTransaction, Quiet, vars, serverVars
    <3>2. UNCHANGED <<tables, partitions, cache, pc, req, snap, rows, status>>
      BY <3>1 DEF dbVars, localVars
    <3>3. FillInv'
      BY <3>2 DEF FillInv, At, Name, query_partitions, View, Visible, Select, get_table_id,
         get_table
    <3>4. CacheCoherent'
      BY <3>2 DEF CacheCoherent, InvalidationPending, InvalidatesAfterUnlock, At, Name,
         query_partitions, View, Visible, Select, get_table_id, get_table
    <3> QED
      BY <2>0, <3>3, <3>4
  <2> QED
    BY <2>0, <2>1, <2>2, <2>3 DEF Next
<1> QED
  BY <1>1, <1>2, PTL DEF Spec

-----------------------------------------------------------------------------
(* Acknowledged commits *)

\* Lookup in the next state.
LEMMA LookupNext ==
    ASSUME DbInv', NEW n, NEW r \in get_table(n)'
    PROVE  /\ get_table(n)' = {r}
           /\ get_table_id(n)' = r.table_id
           /\ get_current_snapshot(n)' = r.current_snapshot_id
<1>1. get_table(n)' = {r}
  BY DEF get_table, DbInv
<1>2. (CHOOSE t \in get_table(n)' : TRUE) = r
  BY <1>1
<1> QED
  BY <1>1, <1>2 DEF get_table_id, get_current_snapshot

\* th has committed, and what it will report is success.
Acked(th) ==
    \/ At(th, "invalidate")
    \/ At(th, "reply") /\ req[th].op = "commit" /\ status[th] = "ok"

\* There is one way to an acknowledged commit.
LEMMA AckEntered ==
    ASSUME SafetyInv, NEW th \in Threads, ThreadStep(th), Acked(th)'
    PROVE  WriteSnapshot(th) \/ LoseSnapshot(th) \/ InvalidateAfterCommit(th)
<1> USE DEF ThreadStep, Acked, At, Goto
<1>a. /\ pc \in [Threads -> Labels] /\ DOMAIN status = Threads /\ DOMAIN req = Threads
      /\ OpInv
  BY DEF SafetyInv, TypeOK, ThreadTypeOK
<1>b. /\ pc[th] \in {"lookup", "query", "put"} => req[th].op # "commit"
      /\ pc[th] \in {"create", "alter", "rename", "drop"} => req[th].op # "commit"
  BY <1>a DEF OpInv, ReadLabels
<1>1. CASE LockForRead(th)
  BY <1>1, <1>a, <1>b DEF LockForRead, Outcome
<1>2. CASE ResolveInMemory(th)
  BY <1>2, <1>a, <1>b DEF ResolveInMemory, Outcome
<1>3. CASE ResolveFromDb(th)
  BY <1>3, <1>a, <1>b DEF ResolveFromDb, Outcome
<1>4. CASE CacheHit(th)
  BY <1>4, <1>a, <1>b DEF CacheHit, Outcome
<1>5. CASE CacheMiss(th)
  BY <1>5, <1>a, <1>b DEF CacheMiss, Outcome
<1>6. CASE QueryRows(th)
  BY <1>6, <1>a, <1>b DEF QueryRows, Outcome
<1>7. CASE QueryNothing(th)
  BY <1>7, <1>a, <1>b DEF QueryNothing, Outcome
<1>8. CASE FillCache(th)
  BY <1>8, <1>a, <1>b DEF FillCache, Outcome
<1>9. CASE LockForCommit(th)
  BY <1>9, <1>a, <1>b DEF LockForCommit, Outcome
<1>10. CASE ValidateParent(th)
  BY <1>10, <1>a, <1>b DEF ValidateParent, Outcome
<1>11. CASE DrawSnapshot(th)
  BY <1>11, <1>a, <1>b DEF DrawSnapshot, Outcome
<1>12. CASE DrawNothing(th)
  BY <1>12, <1>a, <1>b DEF DrawNothing, Outcome
<1>13. CASE WriteSnapshot(th)
  BY <1>13, <1>a, <1>b DEF WriteSnapshot, Outcome
<1>14. CASE RollbackSnapshot(th)
  BY <1>14, <1>a, <1>b DEF RollbackSnapshot, Outcome
<1>15. CASE LoseSnapshot(th)
  BY <1>15, <1>a, <1>b DEF LoseSnapshot, Outcome
<1>16. CASE InvalidateAfterCommit(th)
  BY <1>16, <1>a, <1>b DEF InvalidateAfterCommit, Outcome
<1>17. CASE LockForCreate(th)
  BY <1>17, <1>a, <1>b DEF LockForCreate, LockForMutation, Outcome
<1>18. CASE CreateTable(th)
  BY <1>18, <1>a, <1>b DEF CreateTable, Outcome
<1>19. CASE CreateFails(th)
  BY <1>19, <1>a, <1>b DEF CreateFails, StatementFails, Outcome
<1>20. CASE LockForGet(th)
  BY <1>20, <1>a, <1>b DEF LockForGet, LockForQuery, Outcome
<1>21. CASE ReadTable(th)
  BY <1>21, <1>a DEF ReadTable, Return
<1>22. CASE LockForSchema(th)
  BY <1>22, <1>a, <1>b DEF LockForSchema, LockForQuery, Outcome
<1>23. CASE CheckSchema(th)
  BY <1>23, <1>a DEF CheckSchema, Return
<1>24. CASE LockForAlter(th)
  BY <1>24, <1>a, <1>b DEF LockForAlter, LockForMutation, Outcome
<1>25. CASE ReadVersion(th)
  BY <1>25, <1>a, <1>b DEF ReadVersion, Outcome
<1>26. CASE AlterSchema(th)
  BY <1>26, <1>a, <1>b DEF AlterSchema, Outcome
<1>27. CASE AlterFails(th)
  BY <1>27, <1>a, <1>b DEF AlterFails, StatementFails, CommitLost, Outcome
<1>28. CASE LockForRename(th)
  BY <1>28, <1>a, <1>b DEF LockForRename, LockForMutation, Outcome
<1>29. CASE LockNewName(th)
  BY <1>29, <1>a, <1>b DEF LockNewName, Outcome
<1>30. CASE LockSameName(th)
  BY <1>30, <1>a DEF LockSameName, Return
<1>31. CASE RenameTable(th)
  BY <1>31, <1>a, <1>b DEF RenameTable, Outcome
<1>32. CASE RenameFails(th)
  BY <1>32, <1>a, <1>b DEF RenameFails, StatementFails, Outcome
<1>33. CASE LockForDrop(th)
  BY <1>33, <1>a, <1>b DEF LockForDrop, LockForMutation, Outcome
<1>34. CASE DropTable(th)
  BY <1>34, <1>a, <1>b DEF DropTable, Outcome
<1>35. CASE DropFails(th)
  BY <1>35, <1>a, <1>b DEF DropFails, StatementFails, CommitLost, Outcome
<1>36. CASE Start(th)
  BY <1>36, <1>a, ServerAssumption DEF Start, Entry, Request, Ops
<1>37. CASE PickSnapshot(th)
  BY <1>37, <1>a, <1>b DEF PickSnapshot, Outcome
<1>38. CASE Release(th)
  BY <1>38, <1>a DEF Release, Return
<1>39. CASE InvalidateAfterUnlock(th)
  BY <1>39, <1>a DEF InvalidateAfterUnlock, Return
<1>40. CASE AcquireThrows(th)
  BY <1>40, <1>a DEF AcquireThrows, Return
<1> QED
  BY <1>1, <1>2, <1>3, <1>4, <1>5, <1>6, <1>7, <1>8, <1>9, <1>10, <1>11,
     <1>12, <1>13, <1>14, <1>15, <1>16, <1>17, <1>18, <1>19, <1>20,
     <1>21, <1>22, <1>23, <1>24, <1>25, <1>26, <1>27, <1>28, <1>29,
     <1>30, <1>31, <1>32, <1>33, <1>34, <1>35, <1>36, <1>37, <1>38,
     <1>39, <1>40
     DEF HandlerStep, RegistryStep, CatalogStep

\* A snapshot row goes only when its table is purged.
LEMMA SnapshotsKept ==
    ASSUME SafetyInv, NEW th \in Threads, ThreadStep(th), NEW a \in snapshots
    PROVE  a \in snapshots' \/ \E r \in tables \ tables' : a.table_id = r.table_id
<1>1. ASSUME NEW r \in get_table(Name(th)), Purges(r), a.table_id = r.table_id
      PROVE  \E q \in tables \ tables' : a.table_id = q.table_id
  BY <1>1 DEF Purges, get_table
<1>2. ASSUME NEW r \in get_table(Name(th)), Purges(r), a.table_id # r.table_id
      PROVE  a \in snapshots'
  BY <1>2 DEF Purges, DeleteFrom
<1> QED
  BY <1>1, <1>2, Effects
     DEF RowsKept, Creates, CommitsTo, Alters, Renames, SoftDrops

\* AckInv is inductive where COMMIT does not fail: the lock is held until the
\* answer is ready.
LEMMA AckStep ==
    ASSUME SafetyInv, AckInv, "commit" \notin Faults, NEW th \in Threads, ThreadStep(th)
    PROVE  AckInv'
<1>a. TypeOK /\ LockInv /\ WriteInv /\ DbInv /\ DbTypeOK /\ DbInv'
  BY TablesStep DEF SafetyInv, TypeOK
<1> SUFFICES ASSUME NEW t \in Threads, Acked(t)'
             PROVE  /\ get_table(Name(t))' # {}
                    /\ get_current_snapshot(Name(t))' = snap'[t]
                    /\ [snapshot_id |-> snap'[t], table_id |-> get_table_id(Name(t))',
                        parent_snapshot_id |-> Parent(t)'] \in snapshots'
  BY DEF AckInv, Acked
<1>1. CASE t # th
  <2>1. Acked(t) /\ Name(t)' = Name(t) /\ Parent(t)' = Parent(t) /\ snap'[t] = snap[t]
    BY <1>a, <1>1, LocalsFrame DEF Acked, At, Name, Parent
  <2>2. pc[t] # "idle" /\ writer[Name(t)] # th
    BY <1>a, <1>1, <2>1 DEF Acked, At, LockInv, ExclusiveLabels, CommitLabels
  <2>3. /\ get_table(Name(t))' = get_table(Name(t))
        /\ get_table_id(Name(t))' = get_table_id(Name(t))
        /\ get_current_snapshot(Name(t))' = get_current_snapshot(Name(t))
    BY <1>1, <2>2, NameFrame
  <2>4. PICK r \in get_table(Name(t)) : TRUE
    BY <2>1 DEF AckInv, Acked
  <2>5. r \in tables /\ r \in tables' /\ get_table_id(Name(t)) = r.table_id
    BY <1>a, <2>3, <2>4, Lookup DEF get_table
  <2>6. \A q \in tables \ tables' : q.table_id # r.table_id
    BY <1>a, <2>5 DEF DbInv
  <2>7. PICK a \in snapshots : a = [snapshot_id |-> snap[t], table_id |-> r.table_id,
                                    parent_snapshot_id |-> Parent(t)]
    BY <2>1, <2>5 DEF AckInv, Acked
  <2>8. a \in snapshots'
    BY <2>6, <2>7, SnapshotsKept
  <2> QED
    BY <2>1, <2>3, <2>5, <2>7, <2>8 DEF AckInv, Acked
<1>2. CASE t = th /\ WriteSnapshot(th)
  <2>1. PICK r \in get_table(Name(th)) : TRUE
    BY <1>a, <1>2 DEF WriteSnapshot, WriteInv
  <2>n. PICK n : n = Name(th)
    OBVIOUS
  <2>s. PICK s : s = snap[th]
    OBVIOUS
  <2>u. PICK u : u = [r EXCEPT !.current_snapshot_id = s]
    OBVIOUS
  <2>2. /\ r \in tables /\ r \in TableRow /\ r.table_name = n /\ ~r.is_deleted
        /\ get_table_id(n) = r.table_id
        /\ \A q \in tables : q \in get_table(n) <=> q = r
    BY <1>a, <2>1, <2>n, Lookup, OneRow DEF DbTypeOK
  <2>3. /\ u.table_id = r.table_id /\ u.table_name = n /\ ~u.is_deleted
        /\ u.current_snapshot_id = s
    BY <2>2, <2>u DEF TableRow
  <2>4. u \in tables'
    BY <1>2, <2>2, <2>n, <2>s, <2>u DEF WriteSnapshot, update_table_snapshot
  <2>5. u \in get_table(n)'
    BY <2>3, <2>4 DEF get_table
  <2>6. /\ get_table(n)' # {} /\ get_table_id(n)' = r.table_id
        /\ get_current_snapshot(n)' = s
    BY <1>a, <2>3, <2>5, LookupNext
  <2>7. [snapshot_id |-> s, table_id |-> r.table_id,
         parent_snapshot_id |-> Parent(th)] \in snapshots'
    BY <1>2, <2>2, <2>n, <2>s DEF WriteSnapshot, insert_snapshot
  <2>8. UNCHANGED <<req, snap>>
    BY <1>2 DEF WriteSnapshot, localVars
  <2>9. Name(th)' = n /\ snap'[th] = s /\ Parent(th)' = Parent(th)
    BY <2>8, <2>n, <2>s DEF Name, Parent
  <2> QED
    BY <1>2, <2>6, <2>7, <2>9 DEF get_table, get_table_id, get_current_snapshot
<1>3. CASE t = th /\ InvalidateAfterCommit(th)
  <2>1. Acked(th) /\ UNCHANGED <<dbVars, req, snap>>
    BY <1>3 DEF InvalidateAfterCommit, Acked
  <2> QED
    BY <1>3, <2>1 DEF AckInv, Acked, dbVars, Name, Parent, get_table, get_table_id,
       get_current_snapshot
<1>4. ~LoseSnapshot(th)
  BY DEF LoseSnapshot
<1> QED
  BY <1>1, <1>2, <1>3, <1>4, AckEntered

-----------------------------------------------------------------------------
(* Reads *)

\* The snapshot of GetTableMetadata is settled.
Settled(th) ==
    \/ pc[th] \notin ReadLabels \cup {"getPartitions", "reply"}
    \/ req[th].op # "meta" \/ reported[th] = 0
    \/ snap[th] = reported[th]

\* A thread keeps its request, a read has one way to its answer, and the
\* snapshot of GetTableMetadata is settled before the partitions are asked for.
LEMMA ReadEffect ==
    ASSUME SafetyInv, NEW th \in Threads, ThreadStep(th)
    PROVE  /\ pc'[th] = "idle" \/ Start(th) \/ (pc[th] # "idle" /\ req'[th] = req[th])
           /\ pc'[th] = "reply" /\ req'[th].op \in {"get", "meta"} =>
                 CacheHit(th) \/ QueryNothing(th) \/ FillCache(th)
           /\ (Settled(th) => Settled(th)')
<1> USE DEF ThreadStep, At, Goto, localVars
<1>a. /\ pc \in [Threads -> Labels] /\ DOMAIN req = Threads
      /\ snap \in [Threads -> Nat] /\ reported \in [Threads -> Nat] /\ OpInv
  BY DEF SafetyInv, TypeOK, ThreadTypeOK
<1>b. /\ pc[th] \in ReadLabels => req[th].op \in {"get", "meta"}
      /\ pc[th] \in CommitLabels => req[th].op = "commit"
      /\ pc[th] = "create" => req[th].op = "create"
      /\ pc[th] \in {"readVersion", "alter"} => req[th].op = "alter"
      /\ pc[th] = "rename" => req[th].op = "rename"
      /\ pc[th] = "drop" => req[th].op = "drop"
  BY <1>a DEF OpInv, CommitLabels, ReadLabels
<1> USE DEF ReadLabels, CommitLabels, Settled
<1>1. CASE LockForRead(th)
  BY <1>1, <1>a, <1>b DEF LockForRead, Outcome
<1>2. CASE ResolveInMemory(th)
  BY <1>2, <1>a DEF ResolveInMemory, ReadSnapshot
<1>3. CASE ResolveFromDb(th)
  BY <1>3, <1>a DEF ResolveFromDb, ReadSnapshot
<1>4. CASE CacheHit(th)
  BY <1>4, <1>a, <1>b DEF CacheHit, Outcome
<1>5. CASE CacheMiss(th)
  BY <1>5, <1>a, <1>b DEF CacheMiss, Outcome
<1>6. CASE QueryRows(th)
  BY <1>6, <1>a, <1>b DEF QueryRows, Outcome
<1>7. CASE QueryNothing(th)
  BY <1>7, <1>a, <1>b DEF QueryNothing, Outcome
<1>8. CASE FillCache(th)
  BY <1>8, <1>a, <1>b DEF FillCache, Outcome
<1>9. CASE LockForCommit(th)
  BY <1>9, <1>a, <1>b DEF LockForCommit, Outcome
<1>10. CASE ValidateParent(th)
  BY <1>10, <1>a, <1>b DEF ValidateParent, Outcome
<1>11. CASE DrawSnapshot(th)
  BY <1>11, <1>a, <1>b DEF DrawSnapshot, Outcome
<1>12. CASE DrawNothing(th)
  BY <1>12, <1>a, <1>b DEF DrawNothing, Outcome
<1>13. CASE WriteSnapshot(th)
  BY <1>13, <1>a, <1>b DEF WriteSnapshot, Outcome
<1>14. CASE RollbackSnapshot(th)
  BY <1>14, <1>a, <1>b DEF RollbackSnapshot, Outcome
<1>15. CASE LoseSnapshot(th)
  BY <1>15, <1>a, <1>b DEF LoseSnapshot, Outcome
<1>16. CASE InvalidateAfterCommit(th)
  BY <1>16, <1>a, <1>b DEF InvalidateAfterCommit, Outcome
<1>17. CASE LockForCreate(th)
  BY <1>17, <1>a, <1>b DEF LockForCreate, LockForMutation, Outcome
<1>18. CASE CreateTable(th)
  BY <1>18, <1>a, <1>b DEF CreateTable, Outcome
<1>19. CASE CreateFails(th)
  BY <1>19, <1>a, <1>b DEF CreateFails, StatementFails, Outcome
<1>20. CASE LockForGet(th)
  BY <1>20, <1>a, <1>b DEF LockForGet, LockForQuery, Outcome
<1>21. CASE ReadTable(th)
  BY <1>21, <1>a DEF ReadTable, Return
<1>22. CASE LockForSchema(th)
  BY <1>22, <1>a, <1>b DEF LockForSchema, LockForQuery, Outcome
<1>23. CASE CheckSchema(th)
  BY <1>23, <1>a DEF CheckSchema, Return
<1>24. CASE LockForAlter(th)
  BY <1>24, <1>a, <1>b DEF LockForAlter, LockForMutation, Outcome
<1>25. CASE ReadVersion(th)
  BY <1>25, <1>a, <1>b DEF ReadVersion, Outcome
<1>26. CASE AlterSchema(th)
  BY <1>26, <1>a, <1>b DEF AlterSchema, Outcome
<1>27. CASE AlterFails(th)
  BY <1>27, <1>a, <1>b DEF AlterFails, StatementFails, CommitLost, Outcome
<1>28. CASE LockForRename(th)
  BY <1>28, <1>a, <1>b DEF LockForRename, LockForMutation, Outcome
<1>29. CASE LockNewName(th)
  BY <1>29, <1>a, <1>b DEF LockNewName, Outcome
<1>30. CASE LockSameName(th)
  BY <1>30, <1>a DEF LockSameName, Return
<1>31. CASE RenameTable(th)
  BY <1>31, <1>a, <1>b DEF RenameTable, Outcome
<1>32. CASE RenameFails(th)
  BY <1>32, <1>a, <1>b DEF RenameFails, StatementFails, Outcome
<1>33. CASE LockForDrop(th)
  BY <1>33, <1>a, <1>b DEF LockForDrop, LockForMutation, Outcome
<1>34. CASE DropTable(th)
  BY <1>34, <1>a, <1>b DEF DropTable, Outcome
<1>35. CASE DropFails(th)
  BY <1>35, <1>a, <1>b DEF DropFails, StatementFails, CommitLost, Outcome
<1>36. CASE Start(th)
  <2>1. PICK r \in Requests : /\ req' = [req EXCEPT ![th] = r]
                               /\ pc' = [pc EXCEPT ![th] = Entry[r.op]]
    BY <1>36 DEF Start
  <2>2. r.op \in Ops
    BY ServerAssumption DEF Request
  <2>3. Entry[r.op] # "reply" /\ (r.op = "meta" => Entry[r.op] = "getTable")
    BY <2>2 DEF Entry, Ops
  <2>4. pc'[th] = Entry[r.op] /\ req'[th] = r
    BY <1>a, <2>1
  <2> QED
    BY <1>36, <2>3, <2>4
<1>37. CASE PickSnapshot(th)
  BY <1>37, <1>a, <1>b DEF PickSnapshot, Outcome
<1>38. CASE Release(th)
  BY <1>38, <1>a DEF Release, Return
<1>39. CASE InvalidateAfterUnlock(th)
  BY <1>39, <1>a DEF InvalidateAfterUnlock, Return
<1>40. CASE AcquireThrows(th)
  BY <1>40, <1>a DEF AcquireThrows, Return, NeedsConnection
<1> QED
  BY <1>1, <1>2, <1>3, <1>4, <1>5, <1>6, <1>7, <1>8, <1>9, <1>10, <1>11,
     <1>12, <1>13, <1>14, <1>15, <1>16, <1>17, <1>18, <1>19, <1>20,
     <1>21, <1>22, <1>23, <1>24, <1>25, <1>26, <1>27, <1>28, <1>29,
     <1>30, <1>31, <1>32, <1>33, <1>34, <1>35, <1>36, <1>37, <1>38,
     <1>39, <1>40
     DEF HandlerStep, RegistryStep, CatalogStep

\* Without drops and renames, only a commit changes what a read of an existing
\* table returns.
LEMMA OnlyCommits ==
    ASSUME SafetyInv, RewriteInv, NEW th \in Threads, ThreadStep(th),
           NEW n \in Names, get_table(n) # {}
    PROVE  \/ WriteSnapshot(th) /\ Name(th) = n
           \/ /\ get_table(n)' # {}
              /\ \A s \in Nat : query_partitions(n, s)' = query_partitions(n, s)
<1>a. TypeOK /\ OpInv /\ DbInv /\ DbTypeOK /\ DbInv'
  BY TablesStep DEF SafetyInv, TypeOK
<1>b. ~RenameTable(th) /\ ~DropTable(th)
  BY <1>a DEF RewriteInv, OpInv, RenameTable, DropTable, At
<1>1. CASE get_table(n)' = get_table(n) /\ \A s \in Nat : query_partitions(n, s)' = query_partitions(n, s)
  BY <1>1
<1>2. CASE Name(th) = n
  <2>1. CASE RowsKept
    <3>1. get_table(n)' = get_table(n)
      BY <2>1 DEF RowsKept, get_table
    <3>2. \A s \in Nat : query_partitions(n, s)' = query_partitions(n, s)
      BY <2>1 DEF RowsKept, query_partitions, View, Visible, Select, get_table_id, get_table
    <3> QED
      BY <3>1, <3>2
  <2>2. CASE CreateTable(th)
    <3>1. NameTaken(Name(th))
      BY <1>2 DEF NameTaken, get_table
    <3>2. UNCHANGED <<tables, partitions>>
      BY <2>2, <3>1 DEF CreateTable
    <3>3. \A s \in Nat : query_partitions(n, s)' = query_partitions(n, s)
      BY <3>2 DEF query_partitions, View, Visible, Select, get_table_id, get_table
    <3> QED
      BY <3>2, <3>3 DEF get_table
  <2>3. CASE AlterSchema(th)
    <3>1. PICK r \in get_table(n) : TRUE
      OBVIOUS
    <3>2. /\ r \in tables /\ r \in TableRow /\ r.table_name = n /\ ~r.is_deleted
          /\ get_table_id(n) = r.table_id
      BY <1>a, <3>1, Lookup DEF DbTypeOK
    <3>u. PICK u : u = [r EXCEPT !.schema = req[th].schema, !.schema_version = version[th]]
      OBVIOUS
    <3>3. u.table_id = r.table_id /\ u.table_name = n /\ ~u.is_deleted
      BY <3>2, <3>u DEF TableRow
    <3>4. u \in tables'
      BY <1>2, <2>3, <3>1, <3>2, <3>u DEF AlterSchema, update_table_schema
    <3>5. u \in get_table(n)'
      BY <3>3, <3>4 DEF get_table
    <3>6. get_table_id(n)' = r.table_id
      BY <1>a, <3>3, <3>5, LookupNext
    <3>7. UNCHANGED partitions
      BY <2>3 DEF AlterSchema
    <3>8. \A s \in Nat : query_partitions(n, s)' = query_partitions(n, s)
      BY <3>2, <3>6, <3>7 DEF query_partitions, View, Visible, Select
    <3> QED
      BY <3>5, <3>8
  <2> QED
    BY <1>b, <1>2, <2>1, <2>2, <2>3, Writers
<1> QED
  BY <1>1, <1>2, Touched

\* After a commit there is nothing but the invalidation.
LEMMA OneWayOn ==
    ASSUME NEW th \in Threads, ThreadStep(th), pc[th] = "invalidate"
    PROVE  InvalidateAfterCommit(th)
<1> USE DEF ThreadStep, At
<1>1. CASE LockForRead(th)
  BY <1>1 DEF LockForRead
<1>2. CASE ResolveInMemory(th)
  BY <1>2 DEF ResolveInMemory
<1>3. CASE ResolveFromDb(th)
  BY <1>3 DEF ResolveFromDb
<1>4. CASE CacheHit(th)
  BY <1>4 DEF CacheHit
<1>5. CASE CacheMiss(th)
  BY <1>5 DEF CacheMiss
<1>6. CASE QueryRows(th)
  BY <1>6 DEF QueryRows
<1>7. CASE QueryNothing(th)
  BY <1>7 DEF QueryNothing
<1>8. CASE FillCache(th)
  BY <1>8 DEF FillCache
<1>9. CASE LockForCommit(th)
  BY <1>9 DEF LockForCommit
<1>10. CASE ValidateParent(th)
  BY <1>10 DEF ValidateParent
<1>11. CASE DrawSnapshot(th)
  BY <1>11 DEF DrawSnapshot
<1>12. CASE DrawNothing(th)
  BY <1>12 DEF DrawNothing
<1>13. CASE WriteSnapshot(th)
  BY <1>13 DEF WriteSnapshot
<1>14. CASE RollbackSnapshot(th)
  BY <1>14 DEF RollbackSnapshot
<1>15. CASE LoseSnapshot(th)
  BY <1>15 DEF LoseSnapshot
<1>16. CASE InvalidateAfterCommit(th)
  BY <1>16 DEF InvalidateAfterCommit
<1>17. CASE LockForCreate(th)
  BY <1>17 DEF LockForCreate, LockForMutation
<1>18. CASE CreateTable(th)
  BY <1>18 DEF CreateTable
<1>19. CASE CreateFails(th)
  BY <1>19 DEF CreateFails, StatementFails
<1>20. CASE LockForGet(th)
  BY <1>20 DEF LockForGet, LockForQuery
<1>21. CASE ReadTable(th)
  BY <1>21 DEF ReadTable
<1>22. CASE LockForSchema(th)
  BY <1>22 DEF LockForSchema, LockForQuery
<1>23. CASE CheckSchema(th)
  BY <1>23 DEF CheckSchema
<1>24. CASE LockForAlter(th)
  BY <1>24 DEF LockForAlter, LockForMutation
<1>25. CASE ReadVersion(th)
  BY <1>25 DEF ReadVersion
<1>26. CASE AlterSchema(th)
  BY <1>26 DEF AlterSchema
<1>27. CASE AlterFails(th)
  BY <1>27 DEF AlterFails, StatementFails, CommitLost
<1>28. CASE LockForRename(th)
  BY <1>28 DEF LockForRename, LockForMutation
<1>29. CASE LockNewName(th)
  BY <1>29 DEF LockNewName
<1>30. CASE LockSameName(th)
  BY <1>30 DEF LockSameName
<1>31. CASE RenameTable(th)
  BY <1>31 DEF RenameTable
<1>32. CASE RenameFails(th)
  BY <1>32 DEF RenameFails, StatementFails
<1>33. CASE LockForDrop(th)
  BY <1>33 DEF LockForDrop, LockForMutation
<1>34. CASE DropTable(th)
  BY <1>34 DEF DropTable
<1>35. CASE DropFails(th)
  BY <1>35 DEF DropFails, StatementFails, CommitLost
<1>36. CASE Start(th)
  BY <1>36 DEF Start
<1>37. CASE PickSnapshot(th)
  BY <1>37 DEF PickSnapshot
<1>38. CASE Release(th)
  BY <1>38 DEF Release
<1>39. CASE InvalidateAfterUnlock(th)
  BY <1>39 DEF InvalidateAfterUnlock
<1>40. CASE AcquireThrows(th)
  BY <1>40 DEF AcquireThrows, NeedsConnection
<1> QED
  BY <1>1, <1>2, <1>3, <1>4, <1>5, <1>6, <1>7, <1>8, <1>9, <1>10, <1>11,
     <1>12, <1>13, <1>14, <1>15, <1>16, <1>17, <1>18, <1>19, <1>20,
     <1>21, <1>22, <1>23, <1>24, <1>25, <1>26, <1>27, <1>28, <1>29,
     <1>30, <1>31, <1>32, <1>33, <1>34, <1>35, <1>36, <1>37, <1>38,
     <1>39, <1>40
     DEF HandlerStep, RegistryStep, CatalogStep

\* A cache entry stays exact until a commit, which removes it.
LEMMA ExactStep ==
    ASSUME SafetyInv, RewriteInv, FillInv, CacheExact, NEW th \in Threads, ThreadStep(th)
    PROVE  CacheExact'
<1>a. TypeOK /\ CacheTypeOK
  BY DEF SafetyInv, TypeOK
<1> SUFFICES ASSUME NEW k \in DOMAIN cache',
                    \A t \in Threads : ~(pc'[t] = "invalidate" /\ Name(t)' = k[1])
             PROVE  /\ get_table(k[1])' # {}
                    /\ cache'[k] = query_partitions(k[1], k[2])'
  BY DEF CacheExact, At
<1>1. CASE FillCache(th) /\ k = Key(th)
  <2>1. cache'[k] = rows[th]
    BY <1>1, PutEffect DEF FillCache
  <2>2. k[1] = Name(th) /\ k[2] = snap[th] /\ UNCHANGED dbVars
    BY <1>1 DEF FillCache, Key, make_cache_key
  <2>3. get_table(k[1]) # {} /\ rows[th] = query_partitions(k[1], k[2])
    BY <1>1, <2>2 DEF FillInv, FillCache
  <2> QED
    BY <2>1, <2>2, <2>3
       DEF query_partitions, View, Visible, Select, get_table_id, get_table, dbVars
<1>2. CASE ~(FillCache(th) /\ k = Key(th))
  <2>1. k \in DOMAIN cache /\ cache'[k] = cache[k]
    <3>1. CASE UNCHANGED cache
      BY <3>1
    <3>2. CASE FillCache(th)
      BY <1>2, <3>2, PutEffect DEF FillCache
    <3>3. CASE invalidate_table_cache(Name(th))
      BY <3>3 DEF invalidate_table_cache, Without
    <3> QED
      BY <3>1, <3>2, <3>3, CacheEffect
  <2>2. k[1] \in Names /\ k[2] \in Nat
    BY <1>a, <2>1 DEF CacheTypeOK
  <2>3. \A t \in Threads : ~(At(t, "invalidate") /\ Name(t) = k[1])
    <3> SUFFICES ASSUME NEW t \in Threads, pc[t] = "invalidate", Name(t) = k[1]
                 PROVE  FALSE
      BY DEF At
    <3>1. CASE t = th
      <4>1. InvalidateAfterCommit(th)
        BY <3>1, OneWayOn
      <4> QED
        BY <3>1, <4>1 DEF InvalidateAfterCommit, invalidate_table_cache, Without, Matches
    <3>2. CASE t # th
      BY <1>a, <3>2, LocalsFrame DEF Name
    <3> QED
      BY <3>1, <3>2
  <2>4. get_table(k[1]) # {} /\ cache[k] = query_partitions(k[1], k[2])
    BY <2>1, <2>3 DEF CacheExact
  <2>5. ~(WriteSnapshot(th) /\ Name(th) = k[1])
    BY <1>a DEF WriteSnapshot, Goto, localVars, Name, TypeOK, ThreadTypeOK
  <2>6. get_table(k[1])' # {} /\ query_partitions(k[1], k[2])' = query_partitions(k[1], k[2])
    BY <2>2, <2>4, <2>5, OnlyCommits
  <2> QED
    BY <2>1, <2>4, <2>6
<1> QED
  BY <1>1, <1>2


\* A thread serves the requests clients may send.
LEMMA RewriteStep ==
    ASSUME SafetyInv, RewriteInv, NoRewrites, NEW th \in Threads, ThreadStep(th)
    PROVE  RewriteInv'
<1>a. TypeOK /\ DOMAIN req = Threads
  BY DEF SafetyInv, TypeOK, ThreadTypeOK
<1> SUFFICES ASSUME NEW t \in Threads, pc'[t] # "idle"
             PROVE  req'[t].op \notin {"drop", "rename"}
  BY DEF RewriteInv
<1>1. CASE t # th
  BY <1>a, <1>1, LocalsFrame DEF RewriteInv
<1>2. CASE t = th /\ Start(th)
  BY <1>a, <1>2 DEF Start, NoRewrites
<1>3. CASE t = th /\ ~Start(th)
  BY <1>3, ReadEffect DEF RewriteInv
<1> QED
  BY <1>1, <1>2, <1>3

\* GetTableMetadata stays settled.
LEMMA ReportStep ==
    ASSUME SafetyInv, ReportInv, NEW th \in Threads, ThreadStep(th)
    PROVE  ReportInv'
<1>a. TypeOK
  BY DEF SafetyInv
<1>1. \A t \in Threads : Settled(t)
  BY DEF ReportInv, Settled
<1>2. Settled(th)'
  BY <1>1, ReadEffect
<1>3. \A t \in Threads \ {th} : Settled(t)'
  BY <1>a, <1>1, LocalsFrame DEF Settled
<1> QED
  BY <1>2, <1>3 DEF ReportInv, Settled

\* What a read is about to return stays true: its lock is held until the answer
\* is ready, and a cached entry is exact for whoever holds that lock.
LEMMA ReplyStep ==
    ASSUME SafetyInv, FillInv, CacheExact, ReplyInv, NEW th \in Threads, ThreadStep(th)
    PROVE  ReplyInv'
<1>a. TypeOK /\ LockInv /\ LockTypeOK /\ ThreadTypeOK /\ OpInv
  BY DEF SafetyInv, TypeOK
<1> SUFFICES ASSUME NEW t \in Threads, pc'[t] = "reply", status'[t] = "ok",
                    req'[t].op \in {"get", "meta"}
             PROVE  /\ req'[t].op = "get" => /\ get_table(Name(t))' # {}
                                             /\ rows'[t] = query_partitions(Name(t), snap[t])'
                    /\ req'[t].op = "meta" /\ get_table(Name(t))' # {}
                          /\ "statement" \notin Faults
                       => rows'[t] = query_partitions(Name(t), snap[t])'
  BY DEF ReplyInv, At
<1>1. CASE t # th
  <2>1. /\ pc[t] = "reply" /\ status[t] = "ok" /\ req'[t] = req[t] /\ snap'[t] = snap[t]
        /\ rows'[t] = rows[t]
    BY <1>a, <1>1, LocalsFrame
  <2>2. PICK n : n = Name(t)
    OBVIOUS
  <2>3. PICK s : s = snap[t]
    OBVIOUS
  <2>4. n \in Names /\ s \in Nat
    BY <1>a, <2>1, <2>2, <2>3 DEF ThreadTypeOK, Request, Name
  <2>5. writer[n] # th
    BY <1>a, <2>1, <2>2, <2>4, NoThreadAssumption DEF LockInv, At
  <2>6. get_table(n)' = get_table(n)
    BY <2>4, <2>5, TablesStep
  <2>7. get_table(n) # {} => query_partitions(n, s)' = query_partitions(n, s)
    BY <2>4, <2>5, TableKept
  <2>8. Name(t)' = n /\ snap'[t] = s
    BY <2>1, <2>2, <2>3 DEF Name
  <2>9. /\ req[t].op = "get" => get_table(n) # {} /\ rows[t] = query_partitions(n, s)
        /\ req[t].op = "meta" /\ get_table(n) # {} /\ "statement" \notin Faults
              => rows[t] = query_partitions(n, s)
    BY <2>1, <2>2, <2>3 DEF ReplyInv, At
  <2>10. get_table(Name(t))' = get_table(n)' /\ query_partitions(Name(t), snap[t])' = query_partitions(n, s)'
    BY <2>8 DEF query_partitions, View, Visible, Select, get_table, get_table_id
  <2> QED
    BY <2>1, <2>6, <2>7, <2>9, <2>10
<1>2. CASE t = th
  <2>1. CASE QueryNothing(th)
    <3>1. UNCHANGED <<dbVars, req>> /\ DOMAIN status = Threads
      BY <1>a, <2>1 DEF QueryNothing, ThreadTypeOK
    <3>2. req[th].op = "meta" /\ (get_table(Name(th)) = {} \/ "statement" \in Faults)
      BY <1>2, <2>1, <3>1 DEF QueryNothing, Outcome
    <3> QED
      BY <1>2, <3>1, <3>2 DEF get_table, dbVars, Name
  <2>2. CASE FillCache(th)
    <3>1. UNCHANGED <<dbVars, req, snap, rows>>
      BY <2>2 DEF FillCache
    <3>2. get_table(Name(th)) # {} /\ rows[th] = query_partitions(Name(th), snap[th])
      BY <2>2 DEF FillCache, FillInv
    <3> QED
      BY <1>2, <3>1, <3>2
         DEF query_partitions, View, Visible, Select, get_table, get_table_id, dbVars, Name
  <2>3. CASE CacheHit(th)
    <3>1. UNCHANGED <<dbVars, req, snap>> /\ rows'[th] = cache[Key(th)] /\ Key(th) \in DOMAIN cache
      BY <1>a, <2>3 DEF CacheHit, Cached, ThreadTypeOK
    <3>2. Key(th)[1] = Name(th) /\ Key(th)[2] = snap[th]
      BY DEF Key, make_cache_key
    <3>3. writer[Name(th)] = NoThread
      <4>1. pc[th] = "lookup" /\ Name(th) \in Names
        BY <1>a, <2>3 DEF CacheHit, At, ThreadTypeOK, Request, Name
      <4> QED
        BY <1>a, <4>1 DEF LockInv, SharedLabels, ReadLabels
    <3>4. \A w \in Threads : ~(At(w, "invalidate") /\ Name(w) = Name(th))
      BY <1>a, <3>3, NoThreadAssumption DEF LockInv, ExclusiveLabels, CommitLabels, At
    <3>5. get_table(Name(th)) # {} /\ cache[Key(th)] = query_partitions(Name(th), snap[th])
      BY <3>1, <3>2, <3>4 DEF CacheExact
    <3> QED
      BY <1>2, <3>1, <3>5
         DEF query_partitions, View, Visible, Select, get_table, get_table_id, dbVars, Name
  <2> QED
    BY <1>2, <2>1, <2>2, <2>3, ReadEffect
<1> QED
  BY <1>1, <1>2

-----------------------------------------------------------------------------
(* What clients are told *)

\* A step of the server with its queries is a step of a handler, a restart, or
\* leaves everything alone that answers are made of.
LEMMA QueryCases ==
    ASSUME SafetyInv, OneRequest, [QueryNext]_allVars
    PROVE  \/ \E th \in Threads : ThreadStep(th)
           \/ Restart
           \/ UNCHANGED <<dbVars, cache, pc, localVars>>
<1>0. TypeOK
  BY DEF SafetyInv
<1>1. ASSUME NEW th \in Threads, StartQuery(th) \/ QueryStep(th)
      PROVE  UNCHANGED <<dbVars, cache, pc, localVars>>
  BY <1>0, <1>1, QueryTouches DEF QueryEffect
<1>2. CASE CommitTransaction \/ Quiet \/ UNCHANGED allVars
  BY <1>2 DEF CommitTransaction, Quiet, allVars, vars, serverVars
<1> QED
  BY <1>1, <1>2 DEF QueryNext, ThreadStep

\* All threads are idle and nothing is cached, at the start and after a restart.
LEMMA Fresh ==
    /\ QueryInit => /\ SafetyInv /\ OneRequest
                    /\ \A th \in Threads : pc[th] = "idle"
                    /\ DOMAIN cache = {}
    /\ Restart => DOMAIN cache' = {} /\ \A th \in Threads : pc'[th] = "idle"
<1>1. QueryInit => SafetyInv /\ OneRequest
  BY InitSafe DEF QueryInit, OneRequest, Asking, Each, NoQuery
<1>2. QueryInit => DOMAIN cache = {} /\ \A th \in Threads : pc[th] = "idle"
  BY DEF QueryInit, Init, ThreadInit, Each, CacheInit
<1>3. Restart => DOMAIN cache' = {} /\ \A th \in Threads : pc'[th] = "idle"
  BY DEF Restart, Without, ThreadReset, Each
<1> QED
  BY <1>1, <1>2, <1>3

\* An acknowledged commit is the table's current snapshot and is in its
\* history, beside any number of commits, drops, renames, reads and restarts.
\* COMMIT itself must not fail: its result is not looked at.
THEOREM AcknowledgedIsCurrent ==
    ASSUME "commit" \notin Faults
    PROVE  QuerySpec => []AckedCommitIsCurrent
<1> DEFINE I == SafetyInv /\ OneRequest /\ AckInv
<1>1. QueryInit => I
  BY Fresh DEF AckInv, At
<1>2. I /\ [QueryNext]_allVars => I'
  <2> SUFFICES ASSUME I, [QueryNext]_allVars PROVE I'
    OBVIOUS
  <2>1. SafetyInv' /\ OneRequest'
    BY QueryNextSafe
  <2>2. ASSUME NEW th \in Threads, ThreadStep(th) PROVE AckInv'
    BY <2>2, AckStep
  <2>3. CASE Restart
    BY <2>1, <2>3, Fresh DEF AckInv, At
  <2>4. CASE UNCHANGED <<dbVars, cache, pc, localVars>>
    BY <2>1, <2>4 DEF AckInv, At, Name, Parent, get_table, get_table_id, get_current_snapshot,
       dbVars, localVars
  <2> QED
    BY <2>1, <2>2, <2>3, <2>4, QueryCases
<1>3. I => AckedCommitIsCurrent
  <2> SUFFICES ASSUME I, NEW th \in Threads, At(th, "reply"), req[th].op = "commit",
                      status[th] = "ok"
               PROVE  /\ get_current_snapshot(Name(th)) = snap[th]
                      /\ insert_snapshot(get_table_id(Name(th)), snap[th], Parent(th)) = snapshots
    BY DEF AckedCommitIsCurrent
  <2>1. /\ get_current_snapshot(Name(th)) = snap[th]
        /\ [snapshot_id |-> snap[th], table_id |-> get_table_id(Name(th)),
            parent_snapshot_id |-> Parent(th)] \in snapshots
    BY DEF AckInv
  <2> QED
    BY <2>1 DEF insert_snapshot
<1> QED
  BY <1>1, <1>2, <1>3, PTL DEF QuerySpec

\* The invariant of reads, where no table is dropped or renamed.
ReadInv == FillInv /\ RewriteInv /\ CacheExact /\ ReplyInv /\ ReportInv

\* ReadInv is inductive beside SafetyInv.
LEMMA ReadNext ==
    ASSUME NoRewrites, SafetyInv, OneRequest, ReadInv, [QueryNext]_allVars
    PROVE  ReadInv'
<1> USE DEF ReadInv
<1>1. ASSUME NEW th \in Threads, ThreadStep(th) PROVE ReadInv'
  BY <1>1, FillStep, RewriteStep, ExactStep, ReplyStep, ReportStep
<1>2. CASE Restart
  BY <1>2, Fresh
     DEF FillInv, RewriteInv, CacheExact, ReplyInv, ReportInv, ReadLabels, At
<1>3. CASE UNCHANGED <<dbVars, cache, pc, localVars>>
  <2> USE <1>3 DEF dbVars, localVars, At, Name, query_partitions, View, Visible, Select,
      get_table_id, get_table
  <2>1. FillInv' /\ RewriteInv' /\ ReportInv'
    BY DEF FillInv, RewriteInv, ReportInv
  <2>2. CacheExact'
    BY DEF CacheExact
  <2>3. ReplyInv'
    <3>1. ASSUME NEW t \in Threads, pc'[t] = "reply", status'[t] = "ok"
          PROVE  /\ req'[t].op = "get" => /\ get_table(Name(t))' # {}
                                          /\ rows'[t] = query_partitions(Name(t), snap[t])'
                 /\ req'[t].op = "meta" /\ get_table(Name(t))' # {}
                       /\ "statement" \notin Faults
                    => rows'[t] = query_partitions(Name(t), snap[t])'
      BY <3>1 DEF ReplyInv
    <3> QED
      BY <3>1 DEF ReplyInv
  <2> QED
    BY <2>1, <2>2, <2>3
<1> QED
  BY <1>1, <1>2, <1>3, QueryCases

\* ReadInv holds in every state of the server with its queries.
LEMMA ReadsAlways == ASSUME NoRewrites PROVE QuerySpec => [](SafetyInv /\ ReadInv)
<1>1. QueryInit => SafetyInv /\ OneRequest /\ ReadInv
  BY Fresh DEF ReadInv, FillInv, RewriteInv, CacheExact, ReplyInv, ReportInv, ReadLabels, At
<1>2. SafetyInv /\ OneRequest /\ ReadInv /\ [QueryNext]_allVars =>
         SafetyInv' /\ OneRequest' /\ ReadInv'
  BY QueryNextSafe, ReadNext
<1> QED
  BY <1>1, <1>2, PTL DEF QuerySpec

\* GetPartitions returns the partitions of the snapshot it settled on, from the
\* cache and from the database alike, under every fault.  No table may be
\* dropped or renamed meanwhile: those invalidate the cache after unlocking.
THEOREM ReadsAlwaysExact ==
    ASSUME NoRewrites
    PROVE  QuerySpec => []ReadsExact
<1>1. SafetyInv /\ ReadInv => ReadsExact
  BY DEF ReadInv, ReplyInv, ReadsExact
<1> QED
  BY <1>1, ReadsAlways, PTL

\* GetTableMetadata describes one snapshot, whatever is committed between its
\* two locks.  A failed query must not be answered as an empty table.
THEOREM MetadataAlwaysOneSnapshot ==
    ASSUME NoRewrites, "statement" \notin Faults
    PROVE  QuerySpec => []MetadataIsOneSnapshot
<1>1. SafetyInv /\ ReadInv => MetadataIsOneSnapshot
  BY DEF ReadInv, ReplyInv, ReportInv, MetadataIsOneSnapshot, At
<1> QED
  BY <1>1, ReadsAlways, PTL

-----------------------------------------------------------------------------
(* Connections and locks *)

\* What a step does to the pool and to the locks: a connection is kept only
\* past the labels that have none, and a lock past the entry of a call; both
\* are given back on the way to the labels outside.
LEMMA HoldEffect ==
    ASSUME SafetyInv, NEW th \in Threads, ThreadStep(th)
    PROVE  /\ \/ UNCHANGED poolVars \/ acquire_fails \/ release(th)
              \/ acquire(th) /\ pc[th] \in NoConnection
           /\ \/ pc'[th] \notin NoConnection \/ release(th)
              \/ pc[th] \in NoConnection /\ UNCHANGED conns
           /\ \/ release_all(th)
              \/ UNCHANGED lockVars /\ (pc'[th] \in EntryLabels => pc[th] \in EntryLabels)
              \/ /\ pc'[th] \notin EntryLabels
                 /\ \E n \in Names : acquire_shared(th, n) \/ acquire_exclusive(th, n)
<1> USE DEF ThreadStep, At, Goto, Outcome, Return, poolVars, NoConnection, EntryLabels
<1>a. pc \in [Threads -> Labels]
  BY DEF SafetyInv, TypeOK, ThreadTypeOK
<1>b. pc[th] # "idle" => Name(th) \in Names /\ req[th].to \in Names
  BY DEF SafetyInv, TypeOK, ThreadTypeOK, Request, Name
<1>1. CASE LockForRead(th)
  BY <1>1, <1>a, <1>b DEF LockForRead
<1>2. CASE ResolveInMemory(th)
  BY <1>2, <1>a, <1>b DEF ResolveInMemory
<1>3. CASE ResolveFromDb(th)
  BY <1>3, <1>a, <1>b DEF ResolveFromDb, acquire_briefly
<1>4. CASE CacheHit(th)
  BY <1>4, <1>a, <1>b DEF CacheHit
<1>5. CASE CacheMiss(th)
  BY <1>5, <1>a, <1>b DEF CacheMiss
<1>6. CASE QueryRows(th)
  BY <1>6, <1>a, <1>b DEF QueryRows, acquire
<1>7. CASE QueryNothing(th)
  BY <1>7, <1>a, <1>b DEF QueryNothing, acquire
<1>8. CASE FillCache(th)
  BY <1>8, <1>a, <1>b DEF FillCache
<1>9. CASE LockForCommit(th)
  BY <1>9, <1>a, <1>b DEF LockForCommit
<1>10. CASE ValidateParent(th)
  BY <1>10, <1>a, <1>b DEF ValidateParent, acquire
<1>11. CASE DrawSnapshot(th)
  BY <1>11, <1>a, <1>b DEF DrawSnapshot
<1>12. CASE DrawNothing(th)
  BY <1>12, <1>a, <1>b DEF DrawNothing
<1>13. CASE WriteSnapshot(th)
  BY <1>13, <1>a, <1>b DEF WriteSnapshot
<1>14. CASE RollbackSnapshot(th)
  BY <1>14, <1>a, <1>b DEF RollbackSnapshot
<1>15. CASE LoseSnapshot(th)
  BY <1>15, <1>a, <1>b DEF LoseSnapshot
<1>16. CASE InvalidateAfterCommit(th)
  BY <1>16, <1>a, <1>b DEF InvalidateAfterCommit
<1>17. CASE LockForCreate(th)
  BY <1>17, <1>a, <1>b DEF LockForCreate, LockForMutation
<1>18. CASE CreateTable(th)
  BY <1>18, <1>a, <1>b DEF CreateTable, acquire
<1>19. CASE CreateFails(th)
  BY <1>19, <1>a, <1>b DEF CreateFails, StatementFails, acquire
<1>20. CASE LockForGet(th)
  BY <1>20, <1>a, <1>b DEF LockForGet, LockForQuery
<1>21. CASE ReadTable(th)
  BY <1>21, <1>a, <1>b DEF ReadTable, acquire_briefly
<1>22. CASE LockForSchema(th)
  BY <1>22, <1>a, <1>b DEF LockForSchema, LockForQuery
<1>23. CASE CheckSchema(th)
  BY <1>23, <1>a, <1>b DEF CheckSchema, acquire_briefly
<1>24. CASE LockForAlter(th)
  BY <1>24, <1>a, <1>b DEF LockForAlter, LockForMutation
<1>25. CASE ReadVersion(th)
  BY <1>25, <1>a, <1>b DEF ReadVersion, acquire
<1>26. CASE AlterSchema(th)
  BY <1>26, <1>a, <1>b DEF AlterSchema
<1>27. CASE AlterFails(th)
  BY <1>27, <1>a, <1>b DEF AlterFails, StatementFails, CommitLost
<1>28. CASE LockForRename(th)
  BY <1>28, <1>a, <1>b DEF LockForRename, LockForMutation
<1>29. CASE LockNewName(th)
  BY <1>29, <1>a, <1>b DEF LockNewName
<1>30. CASE LockSameName(th)
  BY <1>30, <1>a, <1>b DEF LockSameName
<1>31. CASE RenameTable(th)
  BY <1>31, <1>a, <1>b DEF RenameTable, acquire
<1>32. CASE RenameFails(th)
  BY <1>32, <1>a, <1>b DEF RenameFails, StatementFails, acquire
<1>33. CASE LockForDrop(th)
  BY <1>33, <1>a, <1>b DEF LockForDrop, LockForMutation
<1>34. CASE DropTable(th)
  BY <1>34, <1>a, <1>b DEF DropTable, acquire
<1>35. CASE DropFails(th)
  BY <1>35, <1>a, <1>b DEF DropFails, StatementFails, CommitLost, acquire
<1>36. CASE Start(th)
  <2>1. PICK r \in Requests : pc' = [pc EXCEPT ![th] = Entry[r.op]]
    BY <1>36 DEF Start
  <2>2. r.op \in Ops
    BY ServerAssumption DEF Request
  <2>3. Entry[r.op] \in EntryLabels
    BY <2>2 DEF Entry, Ops
  <2>4. pc'[th] \in EntryLabels /\ pc[th] = "idle" /\ UNCHANGED <<poolVars, lockVars>>
    BY <1>36, <1>a, <2>1, <2>3 DEF Start
  <2> QED
    BY <2>4
<1>37. CASE PickSnapshot(th)
  BY <1>37, <1>a, <1>b DEF PickSnapshot
<1>38. CASE Release(th)
  BY <1>38, <1>a, <1>b DEF Release
<1>39. CASE InvalidateAfterUnlock(th)
  BY <1>39, <1>a, <1>b DEF InvalidateAfterUnlock
<1>40. CASE AcquireThrows(th)
  BY <1>40, <1>a, <1>b DEF AcquireThrows, NeedsConnection, acquire_fails
<1> QED
  BY <1>1, <1>2, <1>3, <1>4, <1>5, <1>6, <1>7, <1>8, <1>9, <1>10, <1>11,
     <1>12, <1>13, <1>14, <1>15, <1>16, <1>17, <1>18, <1>19, <1>20,
     <1>21, <1>22, <1>23, <1>24, <1>25, <1>26, <1>27, <1>28, <1>29,
     <1>30, <1>31, <1>32, <1>33, <1>34, <1>35, <1>36, <1>37, <1>38,
     <1>39, <1>40
     DEF HandlerStep, RegistryStep, CatalogStep

\* HoldInv is inductive beside SafetyInv.
LEMMA HoldStep ==
    ASSUME SafetyInv, HoldInv, NEW th \in Threads, ThreadStep(th)
    PROVE  HoldInv'
<1>a. /\ TypeOK /\ LockTypeOK /\ available \in Nat /\ PoolSize \in Nat
      /\ IsFiniteSet(conns) /\ Cardinality(conns) \in Nat
      /\ available + Cardinality(conns) <= PoolSize
  BY FS_CardinalityType, PoolAssumption DEF SafetyInv, TypeOK, ThreadTypeOK, HoldInv
<1>b. \A t \in Threads \ {th} : pc'[t] = pc[t]
  BY <1>a, LocalsFrame
<1>1. IsFiniteSet(conns)' /\ (available + Cardinality(conns) <= PoolSize)'
  <2>1. CASE UNCHANGED poolVars
    BY <1>a, <2>1 DEF poolVars
  <2>2. CASE acquire_fails
    BY <1>a, <2>2 DEF acquire_fails
  <2>3. CASE acquire(th)
    <3>1. /\ IsFiniteSet(conns \cup {th})
          /\ Cardinality(conns \cup {th}) \in Nat
          /\ Cardinality(conns \cup {th}) <= Cardinality(conns) + 1
      BY <1>a, FS_AddElement
    <3> QED
      BY <1>a, <2>3, <3>1 DEF acquire
  <2>4. CASE release(th)
    <3>1. /\ IsFiniteSet(conns \ {th})
          /\ Cardinality(conns \ {th}) = IF th \in conns THEN Cardinality(conns) - 1
                                                          ELSE Cardinality(conns)
      BY <1>a, FS_RemoveElement
    <3> QED
      BY <1>a, <2>4, <3>1 DEF release
  <2> QED
    BY <2>1, <2>2, <2>3, <2>4, HoldEffect
<1>2. ASSUME NEW t \in Threads, pc'[t] \in NoConnection PROVE t \notin conns'
  <2>1. CASE t = th
    BY <1>2, <2>1, HoldEffect DEF release, HoldInv
  <2>2. CASE t # th
    BY <1>b, <1>2, <2>2, HoldEffect DEF release, acquire, acquire_fails, poolVars, HoldInv
  <2> QED
    BY <2>1, <2>2
<1>3. ASSUME NEW t \in Threads, pc'[t] \in EntryLabels, NEW n \in Names
      PROVE  t \notin readers'[n] /\ writer'[n] # t
  <2>1. CASE t = th
    BY <1>a, <1>3, <2>1, HoldEffect, NoThreadAssumption
       DEF release_all, lockVars, HoldInv, LockTypeOK
  <2>2. CASE t # th
    <3>1. t \notin readers[n] /\ writer[n] # t
      BY <1>b, <1>3, <2>2 DEF HoldInv
    <3>2. CASE release_all(th)
      BY <2>2, <3>1, <3>2, NoThreadAssumption DEF release_all
    <3>3. CASE UNCHANGED lockVars
      BY <3>1, <3>3 DEF lockVars
    <3>4. ASSUME NEW m \in Names, acquire_shared(th, m) \/ acquire_exclusive(th, m)
          PROVE  t \notin readers'[n] /\ writer'[n] # t
      BY <1>a, <2>2, <3>1, <3>4 DEF acquire_shared, acquire_exclusive, LockTypeOK
    <3> QED
      BY <3>2, <3>3, <3>4, HoldEffect
  <2> QED
    BY <2>1, <2>2
<1> QED
  BY <1>1, <1>2, <1>3 DEF HoldInv

\* No path through a handler, with every fault, keeps a connection or a lock
\* that its guard should have given back, and the pool never has more
\* connections than it opened.
THEOREM NothingEverLeaked == Spec => []NothingLeaked
<1>1. Init => SafetyInv /\ HoldInv
  BY InitSafe, FS_EmptySet, PoolAssumption, NoThreadAssumption
     DEF Init, ThreadInit, LockInit, HoldInv
<1>2. SafetyInv /\ HoldInv /\ [Next]_vars => SafetyInv' /\ HoldInv'
  <2> SUFFICES ASSUME SafetyInv, HoldInv, [Next]_vars PROVE SafetyInv' /\ HoldInv'
    OBVIOUS
  <2>0. SafetyInv'
    BY NextSafe
  <2>1. ASSUME NEW th \in Threads, Start(th) \/ HandlerStep(th) PROVE HoldInv'
    BY <2>1, HoldStep DEF ThreadStep
  <2>2. CASE Restart
    BY <2>0, <2>2, FS_EmptySet, PoolAssumption, NoThreadAssumption
       DEF Restart, ThreadReset, HoldInv
  <2>3. CASE CommitTransaction \/ Quiet \/ UNCHANGED vars
    BY <2>0, <2>3 DEF CommitTransaction, Quiet, vars, serverVars, poolVars, lockVars, HoldInv
  <2> QED
    BY <2>0, <2>1, <2>2, <2>3 DEF Next
<1>3. HoldInv => NothingLeaked
  BY DEF HoldInv, NothingLeaked, NoConnection, EntryLabels
<1> QED
  BY <1>1, <1>2, <1>3, PTL DEF Spec

=============================================================================
