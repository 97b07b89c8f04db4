-------------------------- MODULE HandlerResources --------------------------
(***************************************************************************)
(* The handlers seen by what they hold: table locks, then connections.     *)
(*                                                                         *)
(* A handler is the sequence of its calls to LockManager and               *)
(* ConnectionPool; what it does with the database between them is left     *)
(* out.  At its end, or when a call throws, its destructors run: the       *)
(* connection goes back first, then the guards in reverse order.           *)
(***************************************************************************)
EXTENDS LockManager, ConnectionPool

CONSTANTS
    Handlers,     \* the handlers clients call, each a sequence of Calls
    MaxRequests   \* bound: requests accepted in one behaviour

\* poll is try_acquire_exclusive; free: the handle of an inner scope is
\* destroyed.
Calls == [do : {"lock"}, guard : Guard] \cup
         [do : {"poll"}, guard : [name : Names, mode : {"exclusive"}]] \cup
         [do : {"acquire", "acquire_with_timeout", "free"}]

\* Locking a std::shared_mutex shared twice on one thread is undefined; no
\* handler asks for the same table shared while it has it.
SharesOnce(h) ==
    \A i, j \in DOMAIN h :
       h[i].do = "lock" /\ h[i].guard.mode = "shared" /\ h[j] = h[i] => i = j

ASSUME HandlersAssumption ==
    /\ Handlers \subseteq Seq(Calls)
    /\ \A h \in Handlers : SharesOnce(h)
    /\ MaxRequests \in Nat

VARIABLES
    stage,    \* stage[th]: idle, run, or unwind
    todo,     \* todo[th]: the calls it has yet to make
    issued    \* requests accepted so far

resourceVars == <<lockManagerVars, connectionVars, stage, todo, issued>>

ResourcesInit ==
    /\ LockManagerInit
    /\ ConnectionInit
    /\ stage = [th \in Threads |-> "idle"]
    /\ todo = [th \in Threads |-> <<>>]
    /\ issued = 0

-----------------------------------------------------------------------------
Ready(th) == stage[th] = "run" /\ lpc[th] = "out" /\ ppc[th] = "out"

\* th makes the next call of its handler.
Calling(th, what) ==
    /\ Ready(th)
    /\ todo[th] # <<>> /\ Head(todo[th]).do = what
    /\ todo' = [todo EXCEPT ![th] = Tail(@)]
    /\ UNCHANGED <<stage, issued>>

Start(th) ==
    /\ stage[th] = "idle"
    /\ issued < MaxRequests
    /\ \E h \in Handlers : todo' = [todo EXCEPT ![th] = h]
    /\ stage' = [stage EXCEPT ![th] = "run"]
    /\ issued' = issued + 1
    /\ UNCHANGED <<lockManagerVars, connectionVars>>

CallLock(th) ==
    \E next \in {"lock", "poll"} :
       /\ Calling(th, next)
       /\ get_or_create(th, Head(todo[th]).guard, next)
       /\ UNCHANGED connectionVars

CallAcquire(th) ==
    /\ \/ Calling(th, "acquire") /\ Call(th, FALSE)
       \/ Calling(th, "acquire_with_timeout") /\ Call(th, TRUE)
    /\ UNCHANGED lockManagerVars

\* A timed call may have returned no connection.
Free(th) ==
    /\ Calling(th, "free")
    /\ \/ release(th)
       \/ handle[th] = 0 /\ UNCHANGED connectionVars
    /\ UNCHANGED lockManagerVars

\* Variant: locks are released by hand, and not when an exception passes.
GiveUpHolding(th) ==
    /\ stage' = [stage EXCEPT ![th] = "idle"]
    /\ todo' = [todo EXCEPT ![th] = <<>>]
    /\ UNCHANGED issued

\* An exception, or a lock that was not granted, ends the handler.
GiveUp(th) ==
    /\ stage' = [stage EXCEPT ![th] = "unwind"]
    /\ todo' = [todo EXCEPT ![th] = <<>>]
    /\ UNCHANGED issued

Unlucky(th) ==
    \/ (LockThrows(th) \/ TryGivesUp(th)) /\ GiveUp(th) /\ UNCHANGED connectionVars
    \/ /\ LoseConnection(th)
       /\ \/ th \notin timed /\ GiveUp(th)
          \/ th \in timed /\ UNCHANGED <<stage, todo, issued>>
       /\ UNCHANGED lockManagerVars

\* A step inside the lock manager or the pool.
Inside(th) ==
    /\ \/ (lock_shared(th) \/ lock(th) \/ try_lock(th)) /\ UNCHANGED connectionVars
       \/ /\ TakeConnection(th) \/ Sleep(th) \/ TimeIsUp(th) \/ TimesOut(th)
          /\ UNCHANGED lockManagerVars
    /\ UNCHANGED <<stage, todo, issued>>

\* The destructors, and the reply.
Finish(th) ==
    /\ stage[th] = "unwind" \/ (Ready(th) /\ todo[th] = <<>>)
    /\ \/ /\ release(th)
          /\ stage' = [stage EXCEPT ![th] = "unwind"]
          /\ UNCHANGED lockManagerVars
       \/ /\ handle[th] = 0
          /\ release_guard(th)
          /\ stage' = [stage EXCEPT ![th] = "unwind"]
          /\ UNCHANGED connectionVars
       \/ /\ handle[th] = 0 /\ guards[th] = <<>>
          /\ stage' = [stage EXCEPT ![th] = "idle"]
          /\ UNCHANGED <<lockManagerVars, connectionVars>>
    /\ UNCHANGED <<todo, issued>>

Spurious(th) == WakeSpuriously(th) /\ UNCHANGED <<lockManagerVars, stage, todo, issued>>

ResourcesQuiet ==
    /\ issued = MaxRequests
    /\ \A th \in Threads : stage[th] = "idle"
    /\ UNCHANGED resourceVars

-----------------------------------------------------------------------------
ThreadStep(th) ==
    \/ CallLock(th) \/ CallAcquire(th) \/ Free(th)
    \/ Inside(th) \/ Unlucky(th) \/ Finish(th)

ResourcesNext ==
    \/ \E th \in Threads : Start(th) \/ ThreadStep(th) \/ Spurious(th)
    \/ ResourcesQuiet

ResourcesSpec == ResourcesInit /\ [][ResourcesNext]_resourceVars

\* A thread that can go on does.  Spurious wake-ups need not happen.
ResourcesFairSpec ==
    ResourcesSpec /\ \A th \in Threads : WF_resourceVars(ThreadStep(th))

-----------------------------------------------------------------------------
(* Properties *)

\* The connections that are still open.
Open == Len(available_connections) + Cardinality({th \in Threads : handle[th] # 0})

\* As long as one connection is left every handler ends: handlers that hold a
\* table lock and wait for a connection, and handlers that hold a connection,
\* never wait for each other in a circle, and no wake-up goes to nobody.
HandlersFinish ==
    [](Open > 0) => \A th \in Threads : stage[th] # "idle" ~> stage[th] = "idle"

-----------------------------------------------------------------------------
(* The inductive invariant *)

\* A handler is in the lock manager or in the pool, not in both, and only while
\* it runs; idle threads keep no guard.
StageInv ==
    /\ stage \in [Threads -> {"idle", "run", "unwind"}]
    /\ todo \in [Threads -> Seq(Calls)]
    /\ \A th \in Threads :
          /\ lpc[th] # "out" => stage[th] = "run" /\ ppc[th] = "out"
          /\ stage[th] = "idle" => guards[th] = <<>>

\* What a thread has yet to lock shared it does not hold shared.
OnceInv ==
    \A th \in Threads :
       /\ lpc[th] # "out" /\ want[th].mode = "shared" => ~Holds(th, want[th].name, "shared")
       /\ \A i \in DOMAIN todo[th] :
             todo[th][i].do = "lock" /\ todo[th][i].guard.mode = "shared" =>
                /\ ~Holds(th, todo[th][i].guard.name, "shared")
                /\ lpc[th] = "out" \/ want[th] # todo[th][i].guard
       /\ SharesOnce(todo[th])

ResourcesInv == LocksInv /\ ConnectionTypeOK /\ StageInv /\ OnceInv

=============================================================================
