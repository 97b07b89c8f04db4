----------------------------- MODULE TableLocks -----------------------------
(***************************************************************************)
(* What LockManager promises: one reader/writer lock per table name.       *)
(* A shared lock is granted whenever no writer holds the name (the         *)
(* std::shared_mutex of libstdc++ is a pthread_rwlock_t with its default,  *)
(* reader-preferring, attributes); an exclusive one when nobody holds it.  *)
(* The guards of lock_manager.h release everything when a handler returns. *)
(***************************************************************************)
EXTENDS CatalogBase

VARIABLES
    readers,   \* readers[n]: the threads that hold n shared
    writer     \* writer[n]: the thread that holds n exclusively, or NoThread

lockVars == <<readers, writer>>

LockTypeOK ==
    /\ readers \in [Names -> SUBSET Threads]
    /\ writer \in [Names -> Threads \cup {NoThread}]

LockInit ==
    /\ readers = [n \in Names |-> {}]
    /\ writer = [n \in Names |-> NoThread]

acquire_shared(th, n) ==
    /\ writer[n] = NoThread
    /\ readers' = [readers EXCEPT ![n] = @ \cup {th}]
    /\ UNCHANGED writer

acquire_exclusive(th, n) ==
    /\ writer[n] = NoThread
    /\ readers[n] = {}
    /\ writer' = [writer EXCEPT ![n] = th]
    /\ UNCHANGED readers

\* The destructors of every SharedGuard and ExclusiveGuard of the handler.
release_all(th) ==
    /\ readers' = [n \in Names |-> readers[n] \ {th}]
    /\ writer' = [n \in Names |-> IF writer[n] = th THEN NoThread ELSE writer[n]]

-----------------------------------------------------------------------------
(* The promise as a specification of its own, for LockManager to implement *)

release_shared(th, n) ==
    /\ th \in readers[n]
    /\ readers' = [readers EXCEPT ![n] = @ \ {th}]
    /\ UNCHANGED writer

release_exclusive(th, n) ==
    /\ writer[n] = th
    /\ writer' = [writer EXCEPT ![n] = NoThread]
    /\ UNCHANGED readers

LockNext ==
    \E th \in Threads, n \in Names :
       \/ acquire_shared(th, n)  \/ release_shared(th, n)
       \/ acquire_exclusive(th, n) \/ release_exclusive(th, n)

LockSpec == LockInit /\ [][LockNext]_lockVars

=============================================================================
