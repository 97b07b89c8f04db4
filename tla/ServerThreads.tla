--------------------------- MODULE ServerThreads ----------------------------
(***************************************************************************)
(* The state the handlers share: the thread-local variables of a request   *)
(* in progress, the connection pool and the MVCC commit counter.           *)
(*                                                                         *)
(* gRPC's synchronous server runs each handler on one thread, so a request *)
(* is a sequence of steps of its thread.  pc names the next one.  A step   *)
(* touches shared state once: one statement or transaction of the          *)
(* database, one cache call, one lock or one atomic counter.               *)
(***************************************************************************)
EXTENDS PgClient, TableLocks, PartitionCache, PooledConnections

CONSTANTS
    Requests,  \* the requests clients may send
    Faults     \* which failures of the environment are considered

\* AlterTable has three: "alter" changes the schema, "rename" the name, and
\* "spec" is any other alteration, which the handler does not carry out.
Ops == {"create", "alter", "rename", "spec", "drop", "get", "meta", "commit"}

\* A request of any kind; a handler reads the fields of its own message.
Request == [op : Ops, name : Names, to : Names, snap : Nat,
            adds : Seq(Keys), dels : SUBSET Keys, purge : BOOLEAN,
            schema : AnySchema]

\* current_read: the SELECT of get_current_snapshot fails.  statement: another
\* statement fails.  commit: COMMIT fails.  connect: a connection is broken and
\* cannot be replaced.  crash: the server process dies and is restarted.
FaultKinds == {"current_read", "statement", "commit", "connect", "crash"}

ASSUME ServerAssumption ==
    /\ Requests \subseteq Request
    /\ Faults \subseteq FaultKinds

VARIABLES
    pc,         \* pc[th]: the next step of thread th
    req,        \* req[th]: the request it serves
    snap,       \* snap[th]: snapshot_id argument, read_snap or new_snap
    reported,   \* reported[th]: read_snapshot of GetTableMetadata
    rows,       \* rows[th]: the partitions it returns
    version,    \* version[th]: new_version of alter_table_schema
    status,     \* status[th]: the outcome it is about to report
    latest      \* latest_committed_snapshot_ of the MVCC manager

localVars  == <<req, snap, reported, rows, version, status>>
serverVars == <<dbVars, lockVars, cache, pc, localVars, poolVars, latest>>

NoRequest == [op |-> "none"]

Labels == {"idle", "getPartitions", "resolve", "lookup", "query", "put",
           "commitSnapshot", "validate", "insertSnapshot", "write",
           "invalidate", "createTable", "create", "getTable", "readTable",
           "pick", "getCurrentSchema", "checkSchema", "alterTable",
           "readVersion", "alter", "renameTable", "lockNew", "rename",
           "dropTable", "drop", "reply", "trailing"}

ThreadTypeOK ==
    /\ pc \in [Threads -> Labels]
    /\ \A th \in Threads : IF pc[th] = "idle" THEN req[th] = NoRequest
                                              ELSE req[th] \in Request
    /\ DOMAIN req = Threads
    /\ snap \in [Threads -> Nat]
    /\ reported \in [Threads -> Nat]
    /\ rows \in [Threads -> SUBSET PartitionRow]
    /\ version \in [Threads -> Nat]
    /\ status \in [Threads -> {"none", "ok", "failed", "notfound"}]
    /\ conns \in SUBSET Threads
    /\ available \in Nat
    /\ latest \in Nat

Each(x) == [th \in Threads |-> x]

ThreadInit ==
    /\ pc = Each("idle")
    /\ req = Each(NoRequest)
    /\ snap = Each(0) /\ reported = Each(0) /\ version = Each(0)
    /\ rows = Each({})
    /\ status = Each("none")
    /\ conns = {}
    /\ available = PoolSize
    /\ latest = 0

\* The state of a new process.
ThreadReset ==
    /\ pc' = Each("idle")
    /\ req' = Each(NoRequest)
    /\ snap' = Each(0) /\ reported' = Each(0) /\ version' = Each(0)
    /\ rows' = Each({})
    /\ status' = Each("none")
    /\ conns' = {}
    /\ available' = PoolSize
    /\ latest' = 0

-----------------------------------------------------------------------------
At(th, label) == pc[th] = label

Goto(th, label) == pc' = [pc EXCEPT ![th] = label]

Name(th) == req[th].name

\* The handler of th has nothing left to do: its variables go out of scope.
Return(th) ==
    /\ Goto(th, "idle")
    /\ req' = [req EXCEPT ![th] = NoRequest]
    /\ snap' = [snap EXCEPT ![th] = 0]
    /\ reported' = [reported EXCEPT ![th] = 0]
    /\ rows' = [rows EXCEPT ![th] = {}]
    /\ version' = [version EXCEPT ![th] = 0]
    /\ status' = [status EXCEPT ![th] = "none"]

\* The outcome s is known; the guards have yet to release what they hold.
Outcome(th, s) ==
    /\ Goto(th, "reply")
    /\ status' = [status EXCEPT ![th] = s]

=============================================================================
