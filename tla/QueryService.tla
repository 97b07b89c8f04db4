---------------------------- MODULE QueryService ----------------------------
(***************************************************************************)
(* The handlers that only read, running beside those of MetadataServer:    *)
(* GetPartitions page by page, GetPartitionStats, GetSnapshot and          *)
(* ListSnapshots.  They use the tables, locks and connections of           *)
(* MetadataServer and change none of its relations.                        *)
(*                                                                         *)
(* A page is a request of its own: its lock is gone before the client asks *)
(* for the next one.  A query with op "walk" is a client that asks for all *)
(* of them, until a page is empty.                                         *)
(***************************************************************************)
EXTENDS MetadataServer, SnapshotChain, Ordering, SequencesExt, FiniteSetsExt

CONSTANT Queries   \* the queries clients may send

QueryOps == {"walk", "stats", "snapshot", "list"}

\* size: page_size of a walk, limit of a listing.
QueryRequest == [op : QueryOps, name : Names, snap : Nat, size : Nat \ {0}]

\* GetPartitionStats has no snapshot_id.
ASSUME QueryAssumption ==
    /\ Queries \subseteq QueryRequest
    /\ \A r \in Queries : r.op = "stats" => r.snap = 0

VARIABLE query   \* query[th]: the query th serves

allVars == <<vars, query>>

\* at: the next step.  snap: read_snap.  rows: the partitions returned so far.
\* tid: table_id between two statements.  list: the snapshots returned.
\* seen: the table's id and current snapshot when the client asked.
NoQuery == [at |-> "idle"]

Query == [at : {"lock", "resolve", "select", "identify", "history", "done"},
          ask : Queries, snap : Nat, rows : SUBSET PartitionRow,
          tid : Nat \cup {-1}, list : Seq(SnapshotRow),
          seen : [id : Nat \cup {-1}, current : Nat]]

QueryInit == Init /\ query = Each(NoQuery)

-----------------------------------------------------------------------------
(* Statements of PgClient *)

\* partition_id > last ORDER BY partition_id LIMIT size.
query_partitions_paged(n, s, size, last) ==
    LET after == {r \in query_partitions(n, s) : r.partition_id > last}
    IN  {r \in after : Cardinality({x \in after : x.partition_id <= r.partition_id}) <= size}

SnapshotsOf(id) == {a \in snapshots : a.table_id = id}

IdsOf(id) == {a.snapshot_id : a \in SnapshotsOf(id)}

RowOf(id, s) == CHOOSE a \in SnapshotsOf(id) : a.snapshot_id = s

get_snapshot(id, s) == IF s \in IdsOf(id) THEN <<RowOf(id, s)>> ELSE <<>>

\* LIMIT size: how many rows there are at most.
Limited(id, size) ==
    IF size < Cardinality(IdsOf(id)) THEN size ELSE Cardinality(IdsOf(id))

\* Variant: the oldest snapshots first.
list_oldest(id, size) ==
    [i \in 1 .. Limited(id, size) |-> RowOf(id, Nth(IdsOf(id), i))]

\* ORDER BY committed_at DESC LIMIT size.  committed_at is the time of BEGIN,
\* which the commits of a table run one after the other under its lock: it
\* orders them as their ids do.
list_snapshots(id, size) ==
    [i \in 1 .. Limited(id, size) |->
       RowOf(id, Nth(IdsOf(id), Cardinality(IdsOf(id)) + 1 - i))]

-----------------------------------------------------------------------------
Asking(th, label) == query[th].at = label

Q(th) == query[th].ask

Advance(th, q) == query' = [query EXCEPT ![th] = q]

\* GetSnapshot and ListSnapshots take no lock.
FirstStep(op) == IF op \in {"walk", "stats"} THEN "lock" ELSE "identify"

StartQuery(th) ==
    /\ At(th, "idle") /\ Asking(th, "idle")
    /\ issued < MaxRequests
    /\ \E r \in Queries :
          Advance(th, [at |-> FirstStep(r.op), ask |-> r, snap |-> r.snap, rows |-> {},
                       tid |-> -1, list |-> <<>>,
                       seen |-> [id |-> get_table_id(r.name),
                                 current |-> get_current_snapshot(r.name)]])
    /\ issued' = issued + 1
    /\ UNCHANGED serverVars

-----------------------------------------------------------------------------
(* get_partitions_paged and get_stats *)

LockForPage(th) ==
    /\ Asking(th, "lock")
    /\ acquire_shared(th, Q(th).name)
    /\ Advance(th, [query[th] EXCEPT !.at = "resolve"])
    /\ UNCHANGED <<dbVars, cache, pc, localVars, poolVars, latest, issued>>

\* Variant: a page is read at the newest snapshot, whatever the client sent.
PageSnapshotNewest(th) == {get_current_snapshot(Q(th).name)}

\* The snapshot of the next page: what the client sent, the commit counter, or
\* what the table points to.
PageSnapshot(th) ==
    IF Q(th).snap # 0 THEN {Q(th).snap}
    ELSE IF latest # 0 THEN {latest}
    ELSE CurrentSnapshotRead(Q(th).name)

ResolvePage(th) ==
    /\ Asking(th, "resolve") /\ Q(th).op = "walk"
    /\ Q(th).snap # 0 \/ latest # 0 \/ available > 0
    /\ \E s \in PageSnapshot(th) :
          Advance(th, [query[th] EXCEPT !.at = "select", !.snap = s])
    /\ UNCHANGED <<dbVars, lockVars, cache, pc, localVars, poolVars, latest, issued>>

LastId(th) == Max({0} \cup {r.partition_id : r \in query[th].rows})

\* The connection and the lock go when the call returns; the client asks again
\* with the last partition_id it got, until it gets nothing.
SelectPage(th) ==
    LET page == query_partitions_paged(Q(th).name, query[th].snap, Q(th).size, LastId(th))
    IN  /\ Asking(th, "select") /\ Q(th).op = "walk"
        /\ get_table(Q(th).name) # {}
        /\ acquire_briefly
        /\ release_all(th)
        /\ Advance(th, [query[th] EXCEPT !.at = IF page = {} THEN "done" ELSE "lock",
                                         !.rows = @ \cup page])
        /\ UNCHANGED <<dbVars, cache, pc, localVars, latest, issued>>

\* get_stats asks the commit counter before it has a connection.
ResolveStats(th) ==
    /\ Asking(th, "resolve") /\ Q(th).op = "stats"
    /\ Advance(th, [query[th] EXCEPT !.at = "select", !.snap = latest])
    /\ UNCHANGED <<dbVars, lockVars, cache, pc, localVars, poolVars, latest, issued>>

\* The rows whose number and sizes get_stats adds up.
SelectStats(th) ==
    /\ Asking(th, "select") /\ Q(th).op = "stats"
    /\ get_table(Q(th).name) # {}
    /\ acquire_briefly
    /\ release_all(th)
    /\ \E s \in IF query[th].snap = 0 THEN CurrentSnapshotRead(Q(th).name)
                                        ELSE {query[th].snap} :
          Advance(th, [query[th] EXCEPT !.at = "done",
                                        !.rows = query_partitions(Q(th).name, s)])
    /\ UNCHANGED <<dbVars, cache, pc, localVars, latest, issued>>

\* NOT_FOUND to a walk, all zeros from get_stats; a statement may also fail.
SelectNothing(th) ==
    /\ Asking(th, "select")
    /\ get_table(Q(th).name) = {} \/ "statement" \in Faults
    /\ acquire_briefly
    /\ release_all(th)
    /\ Advance(th, NoQuery)
    /\ UNCHANGED <<dbVars, cache, pc, localVars, latest, issued>>

-----------------------------------------------------------------------------
(* get_snapshot and list_snapshots: two statements on one connection *)

\* What a read returns: its value, or what stands for nothing when it fails.
OrNothing(value, nothing) ==
    {value} \cup (IF "statement" \in Faults THEN {nothing} ELSE {})

Identify(th) ==
    /\ Asking(th, "identify")
    /\ acquire(th)
    /\ \E id \in OrNothing(get_table_id(Q(th).name), -1) :
          Advance(th, [query[th] EXCEPT !.at = "history", !.tid = id])
    /\ UNCHANGED <<dbVars, lockVars, cache, pc, localVars, latest, issued>>

SelectHistory(th) ==
    /\ Asking(th, "history")
    /\ release(th)
    /\ \E found \in OrNothing(IF Q(th).op = "list"
                                 THEN list_snapshots(query[th].tid, Q(th).size)
                                 ELSE get_snapshot(query[th].tid, Q(th).snap), <<>>) :
          Advance(th, [query[th] EXCEPT !.at = "done", !.list = found])
    /\ UNCHANGED <<dbVars, lockVars, cache, pc, localVars, latest, issued>>

-----------------------------------------------------------------------------
\* acquire throws and the exception ends the handler.
QueryThrows(th) ==
    /\ "connect" \in Faults
    /\ \/ Asking(th, "select") \/ Asking(th, "identify")
       \/ Asking(th, "resolve") /\ Q(th).op = "walk" /\ Q(th).snap = 0 /\ latest = 0
    /\ acquire_fails
    /\ release_all(th)
    /\ Advance(th, NoQuery)
    /\ UNCHANGED <<dbVars, cache, pc, localVars, latest, issued>>

Answer(th) ==
    /\ Asking(th, "done")
    /\ Advance(th, NoQuery)
    /\ UNCHANGED vars

QueryStep(th) ==
    \/ LockForPage(th)   \/ ResolvePage(th)  \/ SelectPage(th)
    \/ ResolveStats(th)  \/ SelectStats(th)  \/ SelectNothing(th)
    \/ Identify(th)      \/ SelectHistory(th)
    \/ QueryThrows(th)   \/ Answer(th)

\* A thread serves one request at a time; a restart ends the queries too.
QueryNext ==
    \/ \E th \in Threads :
          \/ Start(th) /\ Asking(th, "idle") /\ UNCHANGED query
          \/ HandlerStep(th) /\ UNCHANGED query
          \/ StartQuery(th)
          \/ QueryStep(th)
    \/ CommitTransaction /\ UNCHANGED query
    \/ Restart /\ query' = Each(NoQuery)
    \/ Quiet /\ query = Each(NoQuery) /\ UNCHANGED query

QuerySpec == QueryInit /\ [][QueryNext]_allVars

-----------------------------------------------------------------------------
(* Properties *)

Done(th, ops) == Asking(th, "done") /\ Q(th).op \in ops

\* The table of the query is still the one the client asked about.
SameTable(th) == query[th].seen.id # -1 /\ get_table_id(Q(th).name) = query[th].seen.id

\* The snapshots a query at snapshot s may answer for: s itself, or, when it is
\* 0, those current between the question and now.
Between(th) ==
    IF Q(th).snap # 0 THEN {Q(th).snap}
    ELSE query[th].seen.current .. get_current_snapshot(Q(th).name)

\* A walk over the pages, and get_stats, miss nothing and invent nothing,
\* whatever is committed between two pages: every partition that was there all
\* the time is returned, and every partition returned was there at some time.
\* At an explicit snapshot, of those committed when the client asked, that is
\* exactly the snapshot.  (While no transaction has committed: the commit
\* counter is not a snapshot of this table.)
WalkIsComplete ==
    \A th \in Threads :
       LET views == {View(query[th].seen.id, s) : s \in Between(th)} IN
       /\ Done(th, {"walk", "stats"})
       /\ SameTable(th) /\ Q(th).snap <= query[th].seen.current
       /\ latest = 0
       =>
          /\ \A r \in UNION views : (\A V \in views : r \in V) => r \in query[th].rows
          /\ query[th].rows \subseteq UNION views

\* ListSnapshots, which takes no lock, returns the newest part of one history:
\* each row is the parent of the row before it, up to the first snapshot or the
\* limit, and build_snapshot_chain and is_ancestor_of, applied to the rows, give
\* that order back.
ListIsChain ==
    \A th \in Threads :
       LET list == query[th].list IN
       Done(th, {"list"}) /\ list # <<>> =>
          /\ build_snapshot_chain(list, list[1].snapshot_id) = list
          /\ Len(list) = Q(th).size \/ Last(list).parent_snapshot_id = 0
          /\ \A i, j \in DOMAIN list :
                is_ancestor_of(list[j], list[i].parent_snapshot_id) <=> j > i

\* GetSnapshot and ListSnapshots show every snapshot that was committed before
\* they were called: the table's snapshot at the call, or a newer one, comes
\* first in the listing.  The name must have stood for that table when it was
\* looked up, the table may be dropped later but not purged, and no statement
\* may fail.
CommittedIsListed ==
    \A th \in Threads :
       LET list == query[th].list
           was  == query[th].seen.current
       IN  /\ Done(th, {"list", "snapshot"}) /\ "statement" \notin Faults
           /\ query[th].tid = query[th].seen.id /\ was # 0
           /\ \E t \in tables : t.table_id = query[th].seen.id
           =>
              /\ Q(th).op = "list" => list # <<>> /\ list[1].snapshot_id >= was
              /\ Q(th).snap = was => list # <<>>

-----------------------------------------------------------------------------
(* The inductive invariant, beside SafetyInv *)

\* A thread serves a query or another request, never both.
OneRequest ==
    /\ DOMAIN query = Threads
    /\ \A th \in Threads : Asking(th, "idle") \/ At(th, "idle")

QueryTypeOK == query \in [Threads -> Query \cup {NoQuery}]

\* A snapshot belongs to a table: purging one deletes its snapshots.
OwnedInv == \A a \in snapshots : \E t \in tables : t.table_id = a.table_id

\* What a query has seen when it was asked is still there, as long as the table
\* is: the pointer of a table only moves forward, and its snapshots stay.
SeenInv ==
    \A th \in Threads : ~Asking(th, "idle") =>
       LET seen == query[th].seen IN
       /\ seen.id <= table_seq
       /\ \A t \in tables : t.table_id = seen.id =>
             /\ seen.current <= t.current_snapshot_id
             /\ seen.current # 0 =>
                   \E a \in snapshots : a.table_id = seen.id /\ a.snapshot_id = seen.current

\* Partition ids are drawn from a sequence: they tell partitions apart and are
\* bounded, so that a table has finitely many partitions to walk through.
NumberedInv ==
    /\ \A p \in partitions : p.partition_id \in 1 .. partition_seq
    /\ \A p, r \in partitions : p.partition_id = r.partition_id => p = r
    /\ \A th \in Threads : ~Asking(th, "idle") =>
          \A r \in query[th].rows : r.partition_id <= partition_seq

\* What the snapshots a query may answer for contain, and the partitions in some
\* and in all of them.
Views(th) == [s \in Between(th) |-> View(query[th].seen.id, s)]

Sometime(views) == UNION {views[s] : s \in DOMAIN views}

Throughout(views) == {r \in Sometime(views) : \A s \in DOMAIN views : r \in views[s]}

\* A walk has no gaps: it has all there is up to the last partition it has.
Gapless(q, views) ==
    /\ q.at = "select" => q.snap \in IF q.ask.op = "stats" THEN {0} ELSE DOMAIN views
    /\ q.rows \subseteq Sometime(views)
    /\ \A r \in Throughout(views) : \A x \in q.rows :
          q.ask.op = "walk" /\ r.partition_id <= x.partition_id => r \in q.rows
    /\ q.at = "done" => Throughout(views) \subseteq q.rows

\* The table of the query is still there, and has only moved forward.
Stands(th) ==
    /\ get_table(Q(th).name) # {}
    /\ SameTable(th)
    /\ query[th].seen.current <= get_current_snapshot(Q(th).name)

\* The queries WalkIsComplete is about.
Claimed(th) ==
    /\ Q(th).op \in {"walk", "stats"}
    /\ SameTable(th) /\ Q(th).snap <= query[th].seen.current
    /\ latest = 0

\* Where no table is renamed, one that does not stand for its name any more never
\* will again.
NoRenames == \A r \in Requests : r.op # "rename"

RenameInv == \A th \in Threads : pc[th] # "idle" => req[th].op # "rename"

WalkInv ==
    \A th \in Threads : ~Asking(th, "idle") =>
       /\ query[th].at \in {"identify", "history"} => Q(th).op \in {"list", "snapshot"}
       /\ SameTable(th) => Stands(th)
       /\ Claimed(th) => Gapless(query[th], Views(th))

=============================================================================
