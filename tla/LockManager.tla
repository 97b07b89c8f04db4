---------------------------- MODULE LockManager -----------------------------
(***************************************************************************)
(* LockManager: the registry of the tables' shared mutexes.                *)
(*                                                                         *)
(* A mutex is made when a name is first locked.  acquire_* looks it up     *)
(* under registry_mutex_ and locks it after it has let the registry go;    *)
(* release_* looks the name up again and unlocks what it finds there.  A   *)
(* section under registry_mutex_ does not block and is one step.           *)
(***************************************************************************)
EXTENDS CatalogBase, Integers, Sequences, SequencesExt

VARIABLES
    table_locks,  \* table_locks_: name -> index of its mutex
    mutexes,      \* the std::shared_mutex objects made so far
    lpc,          \* lpc[th]: where th is inside the lock manager
    mtx,          \* mtx[th]: the mutex get_or_create returned
    want,         \* want[th]: the guard th asks for
    guards        \* guards[th]: the guards th keeps, in order of construction

lockManagerVars == <<table_locks, mutexes, lpc, mtx, want, guards>>

Modes == {"shared", "exclusive"}
Guard == [name : Names, mode : Modes]
NoGuard == [name |-> "none", mode |-> "none"]

LockManagerTypeOK ==
    /\ table_locks \in [DOMAIN table_locks -> DOMAIN mutexes]
    /\ DOMAIN table_locks \subseteq Names
    /\ mutexes \in Seq([readers : SUBSET Threads, writer : Threads \cup {NoThread}])
    /\ lpc \in [Threads -> {"out", "lock", "poll"}]
    /\ mtx \in [Threads -> Nat]
    /\ want \in [Threads -> Guard \cup {NoGuard}]
    /\ guards \in [Threads -> Seq(Guard)]

LockManagerInit ==
    /\ table_locks = [n \in {} |-> 0]
    /\ mutexes = <<>>
    /\ lpc = [th \in Threads |-> "out"]
    /\ mtx = [th \in Threads |-> 0]
    /\ want = [th \in Threads |-> NoGuard]
    /\ guards = [th \in Threads |-> <<>>]

-----------------------------------------------------------------------------
FreeMutex == [readers |-> {}, writer |-> NoThread]

CanShare(m) == mutexes[m].writer = NoThread

IsFree(m) == CanShare(m) /\ mutexes[m].readers = {}

Register(n) ==
    /\ mutexes' = Append(mutexes, FreeMutex)
    /\ table_locks' = [k \in DOMAIN table_locks \cup {n} |->
                          IF k = n THEN Len(mutexes) + 1 ELSE table_locks[k]]

\* Variant: the entry is assigned without looking for one.
GetOrCreateAnew(th, g, next) ==
    /\ lpc[th] = "out"
    /\ Register(g.name)
    /\ mtx' = [mtx EXCEPT ![th] = Len(mutexes) + 1]
    /\ want' = [want EXCEPT ![th] = g]
    /\ lpc' = [lpc EXCEPT ![th] = next]
    /\ UNCHANGED guards

\* A call of acquire_* or try_acquire_exclusive finds or makes the mutex.
get_or_create(th, g, next) ==
    /\ lpc[th] = "out"
    /\ \/ /\ g.name \in DOMAIN table_locks
          /\ mtx' = [mtx EXCEPT ![th] = table_locks[g.name]]
          /\ UNCHANGED <<table_locks, mutexes>>
       \/ /\ g.name \notin DOMAIN table_locks
          /\ Register(g.name)
          /\ mtx' = [mtx EXCEPT ![th] = Len(mutexes) + 1]
    /\ want' = [want EXCEPT ![th] = g]
    /\ lpc' = [lpc EXCEPT ![th] = next]
    /\ UNCHANGED guards

\* The call of th returns; the reference to the mutex is gone.
Leave(th) ==
    /\ lpc' = [lpc EXCEPT ![th] = "out"]
    /\ mtx' = [mtx EXCEPT ![th] = 0]
    /\ want' = [want EXCEPT ![th] = NoGuard]
    /\ UNCHANGED table_locks

\* th has locked the mutex and keeps a guard.
Granted(th) ==
    /\ guards' = [guards EXCEPT ![th] = Append(@, want[th])]
    /\ Leave(th)

lock_shared(th) ==
    /\ lpc[th] = "lock" /\ want[th].mode = "shared"
    /\ CanShare(mtx[th])
    /\ mutexes' = [mutexes EXCEPT ![mtx[th]].readers = @ \cup {th}]
    /\ Granted(th)

lock(th) ==
    /\ lpc[th] = "lock" /\ want[th].mode = "exclusive"
    /\ IsFree(mtx[th])
    /\ mutexes' = [mutexes EXCEPT ![mtx[th]].writer = th]
    /\ Granted(th)

\* th holds the mutex exclusively and locks it again: libstdc++ throws.
LockThrows(th) ==
    /\ lpc[th] = "lock"
    /\ mutexes[mtx[th]].writer = th
    /\ Leave(th)
    /\ UNCHANGED <<mutexes, guards>>

\* One round of try_acquire_exclusive finds the mutex free.
try_lock(th) ==
    /\ lpc[th] = "poll"
    /\ IsFree(mtx[th])
    /\ mutexes' = [mutexes EXCEPT ![mtx[th]].writer = th]
    /\ Granted(th)

\* The deadline passes.  A round that fails before that changes nothing.
TryGivesUp(th) ==
    /\ lpc[th] = "poll"
    /\ Leave(th)
    /\ UNCHANGED <<mutexes, guards>>

-----------------------------------------------------------------------------
Unlocked(th, g) ==
    IF g.mode = "shared" THEN [mutexes EXCEPT ![table_locks[g.name]].readers = @ \ {th}]
                         ELSE [mutexes EXCEPT ![table_locks[g.name]].writer = NoThread]

\* Variant: a writer takes the mutex out of the registry.
ReleaseErasing(th) ==
    /\ lpc[th] = "out"
    /\ guards[th] # <<>>
    /\ Last(guards[th]).name \in DOMAIN table_locks
    /\ mutexes' = Unlocked(th, Last(guards[th]))
    /\ table_locks' = [k \in DOMAIN table_locks \ {Last(guards[th]).name} |-> table_locks[k]]
    /\ guards' = [guards EXCEPT ![th] = Front(@)]
    /\ UNCHANGED <<lpc, mtx, want>>

\* The destructor of the last guard: release_shared or release_exclusive.
release_guard(th) ==
    /\ lpc[th] = "out"
    /\ guards[th] # <<>>
    /\ Last(guards[th]).name \in DOMAIN table_locks
    /\ mutexes' = Unlocked(th, Last(guards[th]))
    /\ guards' = [guards EXCEPT ![th] = Front(@)]
    /\ UNCHANGED <<table_locks, lpc, mtx, want>>

-----------------------------------------------------------------------------
(* Properties *)

Holds(th, n, mode) ==
    \E i \in DOMAIN guards[th] : guards[th][i] = [name |-> n, mode |-> mode]

\* A guard unlocks the mutex it locked: the registry still leads from its name
\* to a mutex that its thread holds in its mode.  If a release found no entry
\* it would throw in a destructor, and if it found another mutex it would
\* unlock what another thread may hold.
UnlockLegal ==
    \A th \in Threads : \A i \in DOMAIN guards[th] :
       LET g == guards[th][i] IN
       /\ g.name \in DOMAIN table_locks
       /\ IF g.mode = "shared" THEN th \in mutexes[table_locks[g.name]].readers
                               ELSE mutexes[table_locks[g.name]].writer = th

\* Who holds a name is who keeps a guard of it, whatever mutex is behind it.
Promise == INSTANCE TableLocks WITH
    readers <- [n \in Names |-> {th \in Threads : Holds(th, n, "shared")}],
    writer  <- [n \in Names |->
                  IF \E th \in Threads : Holds(th, n, "exclusive")
                    THEN CHOOSE th \in Threads : Holds(th, n, "exclusive")
                    ELSE NoThread]

\* The registry implements one reader/writer lock per table name: a guard is
\* granted only when the guards of the same name allow it, although each name
\* is looked up anew, mutexes are made on demand and a thread may wait on a
\* mutex it looked up long ago.
LocksImplemented == Promise!LockSpec

-----------------------------------------------------------------------------
(* The inductive invariant *)

\* Different names have different mutexes, a mutex excludes, and a thread on its
\* way to a mutex still goes to the one its name leads to.
RegistryInv ==
    /\ \A n, m \in DOMAIN table_locks : table_locks[n] = table_locks[m] => n = m
    /\ \A m \in DOMAIN mutexes : mutexes[m].writer # NoThread => mutexes[m].readers = {}
    /\ \A th \in Threads : lpc[th] # "out" =>
          /\ want[th] \in Guard
          /\ want[th].name \in DOMAIN table_locks
          /\ mtx[th] = table_locks[want[th].name]
          /\ lpc[th] = "poll" => want[th].mode = "exclusive"

\* The mutexes and the guards agree on who holds what, and no guard is kept twice.
GuardInv ==
    \A th \in Threads :
       /\ \A i \in DOMAIN guards[th] : guards[th][i].name \in DOMAIN table_locks
       /\ \A i, j \in DOMAIN guards[th] : guards[th][i] = guards[th][j] => i = j
       /\ \A n \in DOMAIN table_locks :
             /\ th \in mutexes[table_locks[n]].readers <=> Holds(th, n, "shared")
             /\ mutexes[table_locks[n]].writer = th <=> Holds(th, n, "exclusive")

LocksInv == LockManagerTypeOK /\ RegistryInv /\ GuardInv

=============================================================================
