------------------------- MODULE PooledConnections --------------------------
(***************************************************************************)
(* What ConnectionPool promises: a number of connections, each of them     *)
(* free or in the hands of one thread.  A thread that needs one waits      *)
(* until one is free; a connection that breaks and cannot be replaced is   *)
(* gone for good.                                                          *)
(***************************************************************************)
EXTENDS CatalogBase, Integers

CONSTANT PoolSize   \* connections the pool opens

ASSUME PoolAssumption == PoolSize \in Nat \ {0}

VARIABLES
    conns,      \* the threads that hold a pooled connection
    available   \* available_connections_.size()

poolVars == <<conns, available>>

\* The constructor keeps the connections it could open.
PoolInit ==
    /\ conns = {}
    /\ available \in 0 .. PoolSize

\* acquire() waits for a free connection.  The handle keeps it.
acquire(th) ==
    /\ available > 0
    /\ available' = available - 1
    /\ conns' = conns \cup {th}

\* A handle that is acquired, used for one query and destroyed.
acquire_briefly == available > 0 /\ UNCHANGED poolVars

\* The connection taken is broken, cannot be reset and cannot be replaced.
acquire_fails ==
    /\ available > 0
    /\ available' = available - 1
    /\ UNCHANGED conns

release(th) ==
    /\ available' = IF th \in conns THEN available + 1 ELSE available
    /\ conns' = conns \ {th}

PoolNext == \E th \in Threads : acquire(th) \/ acquire_fails \/ release(th)

PoolSpec == PoolInit /\ [][PoolNext]_poolVars

=============================================================================
