--------------------------- MODULE ConnectionPool ---------------------------
(***************************************************************************)
(* ConnectionPool: the queue of free connections and the condition         *)
(* variable its callers wait on.                                           *)
(*                                                                         *)
(* A section under mutex_ is one step.  A waiter is asleep until a release *)
(* notifies it, its time is up or it wakes for no reason; it then competes *)
(* for mutex_ with threads that have just called acquire, and looks at the *)
(* queue again.                                                            *)
(***************************************************************************)
EXTENDS CatalogBase, Integers, Sequences, FiniteSets

CONSTANTS
    PoolSize,    \* pool_size_
    Unreliable   \* connections break, and replacing one may fail

ASSUME ConnectionPoolAssumption == PoolSize \in Nat \ {0} /\ Unreliable \in BOOLEAN

VARIABLES
    available_connections,  \* available_connections_
    handle,                 \* handle[th]: the connection of its handle, or 0
    ppc,                    \* ppc[th]: where th is inside the pool
    timed                   \* the threads inside acquire_with_timeout

connectionVars == <<available_connections, handle, ppc, timed>>

ConnectionTypeOK ==
    /\ available_connections \in Seq(1 .. PoolSize)
    /\ handle \in [Threads -> 0 .. PoolSize]
    /\ ppc \in [Threads -> {"out", "enter", "asleep", "woken", "expired"}]
    /\ timed \subseteq Threads

\* The constructor skips connections it cannot open.
ConnectionInit ==
    /\ \E opened \in 0 .. PoolSize :
          /\ ~Unreliable => opened = PoolSize
          /\ available_connections = [i \in 1 .. opened |-> i]
    /\ handle = [th \in Threads |-> 0]
    /\ ppc = [th \in Threads |-> "out"]
    /\ timed = {}

-----------------------------------------------------------------------------
Asleep == {th \in Threads : ppc[th] = "asleep"}
Woken  == {th \in Threads : ppc[th] \in {"woken", "expired"}}

\* acquire and acquire_with_timeout are called.
Call(th, isTimed) ==
    /\ ppc[th] = "out"
    /\ ppc' = [ppc EXCEPT ![th] = "enter"]
    /\ timed' = IF isTimed THEN timed \cup {th} ELSE timed
    /\ UNCHANGED <<available_connections, handle>>

\* The call of th returns.
LeavePool(th) ==
    /\ ppc' = [ppc EXCEPT ![th] = "out"]
    /\ timed' = timed \ {th}

\* th has mutex_ and finds a connection.
Finds(th) == ppc[th] \in {"enter", "woken", "expired"} /\ available_connections # <<>>

\* Variant: the connection is looked at and not taken out.
TakeWithoutPop(th) ==
    /\ Finds(th)
    /\ handle' = [handle EXCEPT ![th] = Head(available_connections)]
    /\ LeavePool(th)
    /\ UNCHANGED available_connections

\* It is sound, or it could be reset or replaced.
TakeConnection(th) ==
    /\ Finds(th)
    /\ available_connections' = Tail(available_connections)
    /\ handle' = [handle EXCEPT ![th] = Head(available_connections)]
    /\ LeavePool(th)

\* It is broken and closed, and no other can be opened: acquire throws,
\* acquire_with_timeout returns a handle without a connection.
LoseConnection(th) ==
    /\ Unreliable
    /\ Finds(th)
    /\ available_connections' = Tail(available_connections)
    /\ LeavePool(th)
    /\ UNCHANGED handle

\* cv_.wait and cv_.wait_for find the queue empty.
Sleep(th) ==
    /\ ppc[th] \in {"enter", "woken"}
    /\ available_connections = <<>>
    /\ ppc' = [ppc EXCEPT ![th] = "asleep"]
    /\ UNCHANGED <<available_connections, handle, timed>>

WakeSpuriously(th) ==
    /\ ppc[th] = "asleep"
    /\ ppc' = [ppc EXCEPT ![th] = "woken"]
    /\ UNCHANGED <<available_connections, handle, timed>>

\* The time of wait_for is up; it looks at the queue once more.
TimeIsUp(th) ==
    /\ ppc[th] = "asleep" /\ th \in timed
    /\ ppc' = [ppc EXCEPT ![th] = "expired"]
    /\ UNCHANGED <<available_connections, handle, timed>>

\* acquire_with_timeout returns an empty handle.
TimesOut(th) ==
    /\ ppc[th] = "expired"
    /\ available_connections = <<>>
    /\ LeavePool(th)
    /\ UNCHANGED <<available_connections, handle>>

-----------------------------------------------------------------------------
\* cv_.notify_one
notify_one ==
    \/ \E th \in Asleep : ppc' = [ppc EXCEPT ![th] = "woken"]
    \/ Asleep = {} /\ UNCHANGED ppc

\* Variant: nobody is notified.
ReleaseSilently(th) ==
    /\ handle[th] # 0
    /\ available_connections' = Append(available_connections, handle[th])
    /\ handle' = [handle EXCEPT ![th] = 0]
    /\ UNCHANGED <<ppc, timed>>

\* The destructor of a handle with a connection.
release(th) ==
    /\ handle[th] # 0
    /\ available_connections' = Append(available_connections, handle[th])
    /\ handle' = [handle EXCEPT ![th] = 0]
    /\ notify_one
    /\ UNCHANGED timed

-----------------------------------------------------------------------------
(* Properties *)

\* No wake-up is lost: while someone sleeps, every free connection has a woken
\* thread on its way to it.  Releases in quick succession, threads that take a
\* connection before the notified one does, time-outs, spurious wake-ups and
\* lost connections do not leave a sleeper beside a free connection.
NoLostWakeup ==
    Asleep # {} => Len(available_connections) <= Cardinality(Woken)

Promised == INSTANCE PooledConnections WITH
    conns     <- {th \in Threads : handle[th] # 0},
    available <- Len(available_connections)

\* The queue and the handles implement the counter the server model uses.
PoolImplemented == Promised!PoolSpec

=============================================================================
