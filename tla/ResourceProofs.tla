--------------------------- MODULE ResourceProofs ---------------------------
(***************************************************************************)
(* The lock manager and the connection pool keep their promises to any     *)
(* handlers, any number of threads, tables and connections: the registry   *)
(* implements one reader/writer lock per table, the pool a counter of free *)
(* connections, and no wake-up is lost.                                    *)
(***************************************************************************)
EXTENDS HandlerResources, SequenceTheorems, FiniteSetTheorems, TLAPS

-----------------------------------------------------------------------------
(* The pool *)

\* A step of the server seen from the pool: one of its operations, or nothing.
PoolStep(th) ==
    \/ Call(th, TRUE) \/ Call(th, FALSE)
    \/ TakeConnection(th) \/ LoseConnection(th) \/ Sleep(th)
    \/ WakeSpuriously(th) \/ TimeIsUp(th) \/ TimesOut(th) \/ release(th)

\* Every step of the handlers is one of the pool or leaves it alone.
LEMMA PoolSteps ==
    ASSUME [ResourcesNext]_resourceVars
    PROVE  UNCHANGED connectionVars \/ \E th \in Threads : PoolStep(th)
<1>1. ASSUME NEW th \in Threads, Start(th) \/ ThreadStep(th) \/ Spurious(th)
      PROVE  UNCHANGED connectionVars \/ PoolStep(th)
  BY <1>1 DEF PoolStep, Start, ThreadStep, Spurious, CallLock, CallAcquire, Free, Inside,
     Unlucky, Finish
<1>2. CASE ResourcesQuiet \/ UNCHANGED resourceVars
  BY <1>2 DEF ResourcesQuiet, resourceVars
<1> QED
  BY <1>1, <1>2 DEF ResourcesNext

\* Connections go from the queue to a handle and back.
LEMMA PoolTypes ==
    ASSUME ConnectionTypeOK, NEW th \in Threads, PoolStep(th)
    PROVE  ConnectionTypeOK'
<1> USE DEF ConnectionTypeOK, LeavePool
<1>1. CASE TakeConnection(th) \/ LoseConnection(th)
  <2>1. /\ available_connections' = Tail(available_connections)
        /\ Tail(available_connections) \in Seq(1 .. PoolSize)
        /\ Head(available_connections) \in 1 .. PoolSize
    BY <1>1, HeadTailProperties DEF TakeConnection, LoseConnection, Finds
  <2>2. handle' \in [Threads -> 0 .. PoolSize]
    <3>1. Head(available_connections) \in 0 .. PoolSize
      BY <2>1, ConnectionPoolAssumption
    <3>2. \/ handle' = [handle EXCEPT ![th] = Head(available_connections)]
          \/ handle' = handle
      BY <1>1 DEF TakeConnection, LoseConnection
    <3> HIDE DEF LeavePool
    <3> QED
      BY <3>1, <3>2
  <2>3. /\ ppc' \in [Threads -> {"out", "enter", "asleep", "woken", "expired"}]
        /\ timed' \subseteq Threads
    BY <1>1 DEF TakeConnection, LoseConnection
  <2> QED
    BY <2>1, <2>2, <2>3
<1>2. CASE release(th)
  <2>1. Append(available_connections, handle[th]) \in Seq(1 .. PoolSize)
    BY <1>2, AppendProperties DEF release
  <2>2. ppc' \in [Threads -> {"out", "enter", "asleep", "woken", "expired"}]
    <3>1. CASE UNCHANGED ppc
      BY <3>1
    <3>2. ASSUME NEW t \in Asleep, ppc' = [ppc EXCEPT ![t] = "woken"]
          PROVE  ppc' \in [Threads -> {"out", "enter", "asleep", "woken", "expired"}]
      BY <3>2 DEF Asleep
    <3> QED
      BY <1>2, <3>1, <3>2 DEF release, notify_one
  <2>3. handle' \in [Threads -> 0 .. PoolSize] /\ timed' \subseteq Threads
    BY <1>2, ConnectionPoolAssumption DEF release
  <2> QED
    BY <1>2, <2>1, <2>2, <2>3 DEF release
<1>3. CASE \/ Call(th, TRUE) \/ Call(th, FALSE) \/ Sleep(th)
           \/ WakeSpuriously(th) \/ TimeIsUp(th) \/ TimesOut(th)
  BY <1>3 DEF Call, Sleep, WakeSpuriously, TimeIsUp, TimesOut
<1> QED
  BY <1>1, <1>2, <1>3 DEF PoolStep

\* What a step does to the length of the queue and to who holds a connection.
LEMMA PoolEffect ==
    ASSUME ConnectionTypeOK, NEW th \in Threads, PoolStep(th)
    PROVE  \/ UNCHANGED <<available_connections, handle>>
           \/ /\ TakeConnection(th) \/ LoseConnection(th)
              /\ Len(available_connections) > 0
              /\ Len(available_connections') = Len(available_connections) - 1
           \/ /\ release(th)
              /\ Len(available_connections') = Len(available_connections) + 1
<1>1. CASE TakeConnection(th) \/ LoseConnection(th)
  <2>1. available_connections # <<>> /\ available_connections' = Tail(available_connections)
    BY <1>1 DEF TakeConnection, LoseConnection, Finds
  <2> QED
    BY <1>1, <2>1, HeadTailProperties DEF ConnectionTypeOK
<1>2. CASE release(th)
  BY <1>2, AppendProperties DEF release, ConnectionTypeOK
<1> QED
  BY <1>1, <1>2 DEF PoolStep, Call, Sleep, WakeSpuriously, TimeIsUp, TimesOut

\* The constructor opens some of the connections; nobody holds one yet.
LEMMA PoolInitial ==
    ASSUME ConnectionInit
    PROVE  ConnectionTypeOK /\ Promised!PoolInit
<1>1. PICK opened \in 0 .. PoolSize : available_connections = [i \in 1 .. opened |-> i]
  BY DEF ConnectionInit
<1>2. available_connections \in Seq(1 .. PoolSize) /\ Len(available_connections) = opened
  BY <1>1, ConnectionPoolAssumption
<1> QED
  BY <1>2, ConnectionPoolAssumption DEF ConnectionInit, ConnectionTypeOK, Promised!PoolInit

\* The connections in the queue and in the handles are the numbers the server
\* model counts, and acquire, a failed acquire and release are its steps.
THEOREM PoolAlwaysImplemented == ResourcesSpec => PoolImplemented
<1> DEFINE held == {t \in Threads : handle[t] # 0}
<1>1. ResourcesInit => ConnectionTypeOK /\ Promised!PoolInit
  BY PoolInitial DEF ResourcesInit
<1>2. ConnectionTypeOK /\ [ResourcesNext]_resourceVars => ConnectionTypeOK'
  <2>1. ConnectionTypeOK /\ UNCHANGED connectionVars => ConnectionTypeOK'
    BY DEF ConnectionTypeOK, connectionVars
  <2> QED
    BY <2>1, PoolSteps, PoolTypes
<1>3. ConnectionTypeOK /\ [ResourcesNext]_resourceVars =>
         [Promised!PoolNext]_Promised!poolVars
  <2> SUFFICES ASSUME ConnectionTypeOK, NEW th \in Threads, PoolStep(th)
               PROVE  [Promised!PoolNext]_Promised!poolVars
    BY PoolSteps DEF connectionVars, Promised!poolVars
  <2>1. CASE UNCHANGED <<available_connections, handle>>
    BY <2>1 DEF Promised!poolVars
  <2>2. CASE /\ TakeConnection(th) \/ LoseConnection(th)
             /\ Len(available_connections) > 0
             /\ Len(available_connections') = Len(available_connections) - 1
    <3>1. CASE TakeConnection(th)
      <4>1. available_connections # <<>> /\ available_connections \in Seq(1 .. PoolSize)
        BY <3>1 DEF TakeConnection, Finds, ConnectionTypeOK
      <4>2. Head(available_connections) \in 1 .. PoolSize
        BY <4>1, HeadTailProperties
      <4>3. Head(available_connections) # 0
        BY <4>2, ConnectionPoolAssumption
      <4>4. held' = held \cup {th}
        BY <3>1, <4>3 DEF TakeConnection, ConnectionTypeOK
      <4> QED
        BY <2>2, <4>4 DEF Promised!PoolNext, Promised!acquire
    <3>2. CASE LoseConnection(th)
      <4>1. held' = held
        BY <3>2 DEF LoseConnection
      <4> QED
        BY <2>2, <4>1 DEF Promised!PoolNext, Promised!acquire_fails
    <3> QED
      BY <2>2, <3>1, <3>2
  <2>3. CASE /\ release(th)
             /\ Len(available_connections') = Len(available_connections) + 1
    <3>1. th \in held /\ held' = held \ {th}
      BY <2>3 DEF release, ConnectionTypeOK
    <3> QED
      BY <2>3, <3>1 DEF Promised!PoolNext, Promised!release
  <2> QED
    BY <2>1, <2>2, <2>3, PoolEffect
<1> QED
  BY <1>1, <1>2, <1>3, PTL DEF ResourcesSpec, PoolImplemented, Promised!PoolSpec

\* What a step does to the waiting threads.
LEMMA WaitEffect ==
    ASSUME ConnectionTypeOK, NEW th \in Threads, PoolStep(th)
    PROVE  \/ available_connections' = <<>>
              /\ (Woken' = Woken \/ Woken' = Woken \ {th})
           \/ /\ Asleep' \subseteq Asleep
              /\ \/ Woken' = Woken /\ Len(available_connections') <= Len(available_connections)
                 \/ Woken' = Woken \ {th} /\ Len(available_connections') = Len(available_connections) - 1
                 \/ \E t \in Asleep : /\ Woken' = Woken \cup {t}
                                      /\ Len(available_connections') <= Len(available_connections) + 1
                 \/ Asleep' = {} /\ Woken' = Woken
<1> USE DEF Asleep, Woken, ConnectionTypeOK
<1>l. Len(available_connections) \in Nat
  OBVIOUS
<1>1. CASE Call(th, TRUE) \/ Call(th, FALSE)
  BY <1>1, <1>l DEF Call
<1>2. CASE TakeConnection(th) \/ LoseConnection(th)
  <2>1. Len(available_connections') = Len(available_connections) - 1
    BY <1>2, PoolEffect DEF TakeConnection, LoseConnection, Finds
  <2>2. /\ ppc[th] \in {"enter", "woken", "expired"}
        /\ ppc' = [ppc EXCEPT ![th] = "out"]
    BY <1>2 DEF TakeConnection, LoseConnection, Finds, LeavePool
  <2>3. Asleep' \subseteq Asleep
    BY <2>2
  <2>4. CASE ppc[th] = "enter"
    <3>1. Woken' = Woken
      BY <2>2, <2>4
    <3> QED
      BY <1>l, <2>1, <2>3, <3>1
  <2>5. CASE ppc[th] # "enter"
    <3>1. Woken' = Woken \ {th}
      BY <2>2, <2>5
    <3> QED
      BY <2>1, <2>3, <3>1
  <2> QED
    BY <2>4, <2>5
<1>3. CASE Sleep(th)
  <2>1. available_connections' = <<>> /\ ppc' = [ppc EXCEPT ![th] = "asleep"]
    BY <1>3 DEF Sleep
  <2>2. Woken' = Woken \ {th}
    BY <2>1
  <2> QED
    BY <2>1, <2>2
<1>4. CASE WakeSpuriously(th) \/ TimeIsUp(th)
  <2>1. Woken' = Woken \cup {th} /\ Asleep' \subseteq Asleep /\ th \in Asleep
    BY <1>4 DEF WakeSpuriously, TimeIsUp
  <2> QED
    BY <1>4, <1>l, <2>1 DEF WakeSpuriously, TimeIsUp
<1>5. CASE TimesOut(th)
  <2>1. available_connections' = <<>> /\ ppc' = [ppc EXCEPT ![th] = "out"]
    BY <1>5 DEF TimesOut, LeavePool
  <2>2. Woken' = Woken \ {th}
    BY <2>1
  <2> QED
    BY <2>1, <2>2
<1>6. CASE release(th)
  <2>1. Len(available_connections') = Len(available_connections) + 1
    BY <1>6, AppendProperties DEF release
  <2>2. CASE Asleep = {} /\ UNCHANGED ppc
    BY <2>2
  <2>3. ASSUME NEW t \in Asleep, ppc' = [ppc EXCEPT ![t] = "woken"]
        PROVE  Asleep' \subseteq Asleep /\ Woken' = Woken \cup {t}
    BY <2>3
  <2>4. \/ Asleep = {} /\ UNCHANGED ppc
        \/ \E t \in Asleep : ppc' = [ppc EXCEPT ![t] = "woken"]
    BY <1>6 DEF release, notify_one
  <2>5. CASE \E t \in Asleep : ppc' = [ppc EXCEPT ![t] = "woken"]
    <3>1. PICK t \in Asleep : ppc' = [ppc EXCEPT ![t] = "woken"]
      BY <2>5
    <3>2. Asleep' \subseteq Asleep /\ Woken' = Woken \cup {t}
      BY <2>3, <3>1
    <3> HIDE DEF Asleep, Woken
    <3> QED
      BY <1>l, <2>1, <3>1, <3>2
  <2> QED
    BY <2>2, <2>4, <2>5
<1> QED
  BY <1>1, <1>2, <1>3, <1>4, <1>5, <1>6 DEF PoolStep

\* However many threads wait, time out or are overtaken, no free connection is
\* left beside a sleeper with nobody on the way to it.
THEOREM NoWakeupEverLost == ResourcesSpec => []NoLostWakeup
<1> DEFINE I == ConnectionTypeOK /\ IsFiniteSet(Woken) /\ NoLostWakeup
<1>1. ResourcesInit => I
  <2> SUFFICES ASSUME ConnectionInit PROVE I
    BY DEF ResourcesInit
  <2>1. ConnectionTypeOK
    BY PoolInitial
  <2>2. Asleep = {} /\ Woken = {}
    BY DEF ConnectionInit, Asleep, Woken
  <2> QED
    BY <2>1, <2>2, FS_EmptySet DEF NoLostWakeup
<1>2. I /\ [ResourcesNext]_resourceVars => I'
  <2>1. I /\ UNCHANGED connectionVars => I'
    BY DEF ConnectionTypeOK, connectionVars, NoLostWakeup, Asleep, Woken
  <2>2. ASSUME I, NEW th \in Threads, PoolStep(th) PROVE I'
    <3>0. /\ ConnectionTypeOK' /\ Len(available_connections) \in Nat
          /\ Len(available_connections') \in Nat
      BY <2>2, PoolTypes DEF ConnectionTypeOK
    <3>1. /\ IsFiniteSet(Woken \ {th})
          /\ Cardinality(Woken) \in Nat /\ Cardinality(Woken \ {th}) \in Nat
          /\ Cardinality(Woken \ {th}) >= Cardinality(Woken) - 1
      <4>1. IsFiniteSet(Woken \ {th})
        BY <2>2, FS_RemoveElement
      <4>2. Cardinality(Woken) \in Nat /\ Cardinality(Woken \ {th}) \in Nat
        BY <2>2, <4>1, FS_CardinalityType
      <4>3. Cardinality(Woken \ {th}) \in {Cardinality(Woken), Cardinality(Woken) - 1}
        BY <2>2, FS_RemoveElement
      <4> QED
        BY <4>1, <4>2, <4>3
    <3>2. \A t \in Asleep : /\ IsFiniteSet(Woken \cup {t})
                            /\ Cardinality(Woken \cup {t}) = Cardinality(Woken) + 1
      BY <2>2, FS_AddElement DEF Asleep, Woken
    <3>3. IsFiniteSet(Woken')
      BY <2>2, <3>1, <3>2, WaitEffect
    <3>4. Cardinality(Woken') \in Nat
      BY <3>3, FS_CardinalityType
    <3>5. Asleep' # {} => Len(available_connections') <= Cardinality(Woken')
      <4>1. CASE available_connections' = <<>>
        BY <3>4, <4>1
      <4>2. CASE Asleep' \subseteq Asleep /\ Woken' = Woken
                    /\ Len(available_connections') <= Len(available_connections)
        BY <2>2, <3>0, <3>1, <4>2 DEF NoLostWakeup
      <4>3. CASE Asleep' \subseteq Asleep /\ Woken' = Woken \ {th}
                    /\ Len(available_connections') = Len(available_connections) - 1
        BY <2>2, <3>0, <3>1, <4>3 DEF NoLostWakeup
      <4>4. ASSUME NEW t \in Asleep, Woken' = Woken \cup {t},
                   Len(available_connections') <= Len(available_connections) + 1
            PROVE  Len(available_connections') <= Cardinality(Woken')
        <5>1. Len(available_connections) <= Cardinality(Woken)
          BY <2>2, <4>4 DEF NoLostWakeup
        <5>2. Cardinality(Woken') = Cardinality(Woken) + 1
          BY <3>2, <4>4
        <5> QED
          BY <3>0, <3>1, <4>4, <5>1, <5>2
      <4> QED
        BY <2>2, <4>1, <4>2, <4>3, <4>4, WaitEffect
    <3> QED
      BY <3>0, <3>3, <3>5 DEF NoLostWakeup
  <2> QED
    BY <2>1, <2>2, PoolSteps
<1> QED
  BY <1>1, <1>2, PTL DEF ResourcesSpec


-----------------------------------------------------------------------------
(* Guards *)

Mutex == [readers : SUBSET Threads, writer : Threads \cup {NoThread}]

\* No guard twice.
Distinct(s) == \A i, j \in DOMAIN s : s[i] = s[j] => i = j

\* A guard that is granted joins the guards of its thread.
LEMMA Pushed ==
    ASSUME NEW th \in Threads, guards \in [Threads -> Seq(Guard)], NEW g \in Guard,
           guards' = [guards EXCEPT ![th] = Append(@, g)]
    PROVE  /\ guards' \in [Threads -> Seq(Guard)]
           /\ \A t \in Threads \ {th} : guards'[t] = guards[t]
           /\ \A t \in Threads \ {th} : \A n, m : Holds(t, n, m)' <=> Holds(t, n, m)
           /\ \A n, m : Holds(th, n, m)' <=> Holds(th, n, m) \/ g = [name |-> n, mode |-> m]
           /\ \A i \in DOMAIN guards'[th] :
                 guards'[th][i] = g \/ \E j \in DOMAIN guards[th] : guards'[th][i] = guards[th][j]
           /\ Distinct(guards[th]) /\ (\A i \in DOMAIN guards[th] : guards[th][i] # g) =>
                 Distinct(guards'[th])
<1> DEFINE s == guards[th]
           u == guards'[th]
<1>1. s \in Seq(Guard) /\ u = Append(s, g) /\ Len(s) \in Nat
  OBVIOUS
<1>2. /\ u \in Seq(Guard) /\ DOMAIN s = 1 .. Len(s) /\ DOMAIN u = 1 .. Len(s) + 1
      /\ \A i \in 1 .. Len(s) : u[i] = s[i]
      /\ u[Len(s) + 1] = g
  BY <1>1, AppendProperties
<1>3. guards' \in [Threads -> Seq(Guard)] /\ \A t \in Threads \ {th} : guards'[t] = guards[t]
  BY <1>2
<1>4. \A t \in Threads \ {th} : \A n, m : Holds(t, n, m)' <=> Holds(t, n, m)
  BY <1>3 DEF Holds
<1> HIDE DEF s, u
<1>5. \A x : (\E i \in DOMAIN u : u[i] = x) <=> (\E i \in DOMAIN s : s[i] = x) \/ g = x
  <2>1. \A i \in DOMAIN u : u[i] = g \/ (i \in DOMAIN s /\ u[i] = s[i])
    BY <1>1, <1>2
  <2>2. \A i \in DOMAIN s : i \in DOMAIN u /\ u[i] = s[i]
    BY <1>1, <1>2
  <2>3. Len(s) + 1 \in DOMAIN u /\ u[Len(s) + 1] = g
    BY <1>1, <1>2
  <2> QED
    BY <2>1, <2>2, <2>3
<1>6. \A n, m : Holds(th, n, m)' <=> Holds(th, n, m) \/ g = [name |-> n, mode |-> m]
  BY <1>5 DEF Holds, s, u
<1>7. \A i \in DOMAIN u : u[i] = g \/ \E j \in DOMAIN s : u[i] = s[j]
  BY <1>1, <1>2
<1>8. Distinct(s) /\ (\A i \in DOMAIN s : s[i] # g) => Distinct(u)
  BY <1>1, <1>2 DEF Distinct
<1> QED
  BY <1>3, <1>4, <1>6, <1>7, <1>8 DEF s, u

\* The last guard is the one that goes.
LEMMA Popped ==
    ASSUME NEW th \in Threads, guards \in [Threads -> Seq(Guard)], guards[th] # <<>>,
           NEW g \in Guard, g = guards[th][Len(guards[th])], Distinct(guards[th]),
           guards' = [guards EXCEPT ![th] = Front(guards[th])]
    PROVE  /\ guards' \in [Threads -> Seq(Guard)]
           /\ \A t \in Threads \ {th} : guards'[t] = guards[t]
           /\ \A t \in Threads \ {th} : \A n, m : Holds(t, n, m)' <=> Holds(t, n, m)
           /\ \A n, m : Holds(th, n, m)' <=> Holds(th, n, m) /\ g # [name |-> n, mode |-> m]
           /\ \A i \in DOMAIN guards'[th] : i \in DOMAIN guards[th] /\ guards'[th][i] = guards[th][i]
           /\ Holds(th, g.name, g.mode)
           /\ Distinct(guards'[th])
<1> DEFINE s == guards[th]
           u == guards'[th]
<1>1. s \in Seq(Guard) /\ u = SubSeq(s, 1, Len(s) - 1) /\ Len(s) \in Nat /\ Len(s) # 0
  BY DEF Front
<1>2. /\ u \in Seq(Guard) /\ DOMAIN s = 1 .. Len(s) /\ DOMAIN u = 1 .. Len(s) - 1
      /\ \A i \in 1 .. Len(s) - 1 : u[i] = s[i]
      /\ s[Len(s)] = g
  <2>1. \A i \in 1 .. Len(s) - 1 : s[i] \in Guard
    BY <1>1
  <2> QED
    BY <1>1, <2>1
<1>3. guards' \in [Threads -> Seq(Guard)] /\ \A t \in Threads \ {th} : guards'[t] = guards[t]
  BY <1>2
<1>4. \A t \in Threads \ {th} : \A n, m : Holds(t, n, m)' <=> Holds(t, n, m)
  BY <1>3 DEF Holds
<1>d. Distinct(s)
  OBVIOUS
<1> HIDE DEF s, u
<1>5. \A x : (\E i \in DOMAIN u : u[i] = x) <=> (\E i \in DOMAIN s : s[i] = x) /\ g # x
  <2>1. \A i \in DOMAIN u : i \in DOMAIN s /\ u[i] = s[i] /\ u[i] # g
    BY <1>1, <1>2, <1>d DEF Distinct
  <2>2. \A i \in DOMAIN s : s[i] = g \/ (i \in DOMAIN u /\ u[i] = s[i])
    BY <1>1, <1>2
  <2> QED
    BY <2>1, <2>2
<1>6. \A n, m : Holds(th, n, m)' <=> Holds(th, n, m) /\ g # [name |-> n, mode |-> m]
  BY <1>5 DEF Holds, s, u
<1>7. \A i \in DOMAIN u : i \in DOMAIN s /\ u[i] = s[i]
  BY <1>1, <1>2
<1>8. Distinct(u)
  BY <1>7, <1>d DEF Distinct
<1>9. g = [name |-> g.name, mode |-> g.mode]
  BY <1>2 DEF Guard
<1>10. Holds(th, g.name, g.mode)
  BY <1>1, <1>2, <1>9 DEF Holds, s
<1> QED
  BY <1>2, <1>3, <1>4, <1>6, <1>7, <1>8, <1>10 DEF s, u

\* Changing one mutex.
LEMMA MutexChange ==
    ASSUME mutexes \in Seq(Mutex), NEW k \in DOMAIN mutexes, NEW x \in Mutex,
           mutexes' = [mutexes EXCEPT ![k] = x]
    PROVE  /\ mutexes' \in Seq(Mutex) /\ DOMAIN mutexes' = DOMAIN mutexes
           /\ mutexes'[k] = x
           /\ \A m \in DOMAIN mutexes : m # k => mutexes'[m] = mutexes[m]
  OBVIOUS


-----------------------------------------------------------------------------
(* The registry *)

\* A lookup finds the mutex of the name, or makes one nobody holds.
LEMMA LookupStep ==
    ASSUME LocksInv, NEW th \in Threads, NEW g \in Guard, NEW next \in {"lock", "poll"},
           next = "poll" => g.mode = "exclusive", get_or_create(th, g, next)
    PROVE  LocksInv'
<1>a. /\ LockManagerTypeOK /\ RegistryInv /\ GuardInv
      /\ mutexes \in Seq(Mutex) /\ Len(mutexes) \in Nat /\ DOMAIN mutexes = 1 .. Len(mutexes)
      /\ table_locks \in [DOMAIN table_locks -> DOMAIN mutexes]
      /\ DOMAIN table_locks \subseteq Names
      /\ lpc \in [Threads -> {"out", "lock", "poll"}] /\ mtx \in [Threads -> Nat]
      /\ want \in [Threads -> Guard \cup {NoGuard}] /\ guards \in [Threads -> Seq(Guard)]
  BY DEF LocksInv, LockManagerTypeOK, Mutex
<1>b. /\ want' = [want EXCEPT ![th] = g] /\ lpc' = [lpc EXCEPT ![th] = next]
      /\ UNCHANGED guards /\ g.name \in Names
  BY DEF get_or_create, Guard
<1>c. \A t, n, m : Holds(t, n, m)' <=> Holds(t, n, m)
  BY <1>b DEF Holds
<1>1. CASE g.name \in DOMAIN table_locks
  <2>1. mtx' = [mtx EXCEPT ![th] = table_locks[g.name]] /\ UNCHANGED <<table_locks, mutexes>>
    BY <1>1 DEF get_or_create
  <2>2. LockManagerTypeOK'
    BY <1>a, <1>b, <1>1, <2>1 DEF LockManagerTypeOK, Mutex
  <2>3. RegistryInv'
    BY <1>a, <1>b, <1>1, <2>1 DEF RegistryInv
  <2>4. GuardInv'
    BY <1>a, <1>b, <1>c, <2>1 DEF GuardInv
  <2> QED
    BY <2>2, <2>3, <2>4 DEF LocksInv
<1>2. CASE g.name \notin DOMAIN table_locks
  <2> DEFINE k == Len(mutexes) + 1
  <2>1. /\ mutexes' = Append(mutexes, FreeMutex)
        /\ table_locks' = [n \in DOMAIN table_locks \cup {g.name} |->
                             IF n = g.name THEN k ELSE table_locks[n]]
        /\ mtx' = [mtx EXCEPT ![th] = k]
    BY <1>2 DEF get_or_create, Register
  <2>2. FreeMutex \in Mutex /\ FreeMutex.readers = {} /\ FreeMutex.writer = NoThread
    BY DEF FreeMutex, Mutex
  <2>3. /\ mutexes' \in Seq(Mutex) /\ DOMAIN mutexes' = 1 .. k /\ k \in Nat
        /\ \A m \in DOMAIN mutexes : mutexes'[m] = mutexes[m]
        /\ mutexes'[k] = FreeMutex /\ k \notin DOMAIN mutexes
    BY <1>a, <2>1, <2>2, AppendProperties
  <2> HIDE DEF k
  <2>4. /\ DOMAIN table_locks' = DOMAIN table_locks \cup {g.name}
        /\ \A n \in DOMAIN table_locks : /\ table_locks'[n] = table_locks[n]
                                         /\ table_locks'[n] \in DOMAIN mutexes
        /\ table_locks'[g.name] = k
    BY <1>a, <1>2, <2>1
  <2>5. DOMAIN mutexes \subseteq DOMAIN mutexes' /\ k \in DOMAIN mutexes'
    BY <1>a, <2>3 DEF k
  <2>6. LockManagerTypeOK'
    <3>1. table_locks' \in [DOMAIN table_locks' -> DOMAIN mutexes']
      BY <2>1, <2>4, <2>5
    <3> QED
      BY <1>a, <1>b, <2>1, <2>3, <2>4, <3>1 DEF LockManagerTypeOK, Mutex
  <2>7. RegistryInv'
    <3>1. \A n, m \in DOMAIN table_locks' : table_locks'[n] = table_locks'[m] => n = m
      BY <1>a, <2>3, <2>4 DEF RegistryInv
    <3>2. \A m \in DOMAIN mutexes' : mutexes'[m].writer # NoThread => mutexes'[m].readers = {}
      <4>1. \A m \in DOMAIN mutexes' : m = k \/ m \in DOMAIN mutexes
        BY <1>a, <2>3 DEF k
      <4> QED
        BY <1>a, <2>2, <2>3, <4>1 DEF RegistryInv
    <3>3. ASSUME NEW t \in Threads, lpc'[t] # "out"
          PROVE  /\ want'[t] \in Guard /\ want'[t].name \in DOMAIN table_locks'
                 /\ mtx'[t] = table_locks'[want'[t].name]
                 /\ lpc'[t] = "poll" => want'[t].mode = "exclusive"
      <4>1. CASE t = th
        BY <1>a, <1>b, <2>1, <2>4, <4>1
      <4>2. CASE t # th
        BY <1>a, <1>b, <2>1, <2>4, <3>3, <4>2 DEF RegistryInv
      <4> QED
        BY <4>1, <4>2
    <3> QED
      BY <3>1, <3>2, <3>3 DEF RegistryInv
  <2>8. GuardInv'
    <3>1. \A t \in Threads : \A m : ~Holds(t, g.name, m)
      BY <1>a, <1>2 DEF GuardInv, Holds
    <3>2. \A n \in DOMAIN table_locks : mutexes'[table_locks'[n]] = mutexes[table_locks[n]]
      BY <2>3, <2>4
    <3>3. mutexes'[table_locks'[g.name]] = FreeMutex
      BY <2>3, <2>4
    <3> QED
      BY <1>a, <1>b, <1>c, <2>2, <2>4, <3>1, <3>2, <3>3, NoThreadAssumption DEF GuardInv
  <2> QED
    BY <2>6, <2>7, <2>8 DEF LocksInv
<1> QED
  BY <1>1, <1>2

\* The mutex th waits for becomes x, and th has its guard.
Grants(th, x) ==
    /\ mutexes' = [mutexes EXCEPT ![mtx[th]] = x]
    /\ Granted(th)

\* A guard is granted on the mutex of its name, shared beside other readers or
\* exclusively beside nobody.
LEMMA GrantStep ==
    ASSUME LocksInv, NEW th \in Threads, lpc[th] # "out", NEW x \in Mutex, Grants(th, x),
           mutexes[mtx[th]].writer = NoThread,
           \/ /\ want[th].mode = "shared" /\ ~Holds(th, want[th].name, "shared")
              /\ x.readers = mutexes[mtx[th]].readers \cup {th} /\ x.writer = NoThread
           \/ /\ want[th].mode = "exclusive" /\ mutexes[mtx[th]].readers = {}
              /\ x.readers = {} /\ x.writer = th
    PROVE  LocksInv'
<1>a. /\ LockManagerTypeOK /\ RegistryInv /\ GuardInv
      /\ mutexes \in Seq(Mutex)
      /\ table_locks \in [DOMAIN table_locks -> DOMAIN mutexes]
      /\ DOMAIN table_locks \subseteq Names
      /\ lpc \in [Threads -> {"out", "lock", "poll"}] /\ mtx \in [Threads -> Nat]
      /\ want \in [Threads -> Guard \cup {NoGuard}] /\ guards \in [Threads -> Seq(Guard)]
  BY DEF LocksInv, LockManagerTypeOK, Mutex
<1>g. PICK g : g = want[th]
  OBVIOUS
<1>k. PICK k : k = mtx[th]
  OBVIOUS
<1>b. /\ g \in Guard /\ g.name \in DOMAIN table_locks /\ k = table_locks[g.name]
      /\ k \in DOMAIN mutexes /\ g = [name |-> g.name, mode |-> g.mode]
      /\ g.mode \in {"shared", "exclusive"}
  BY <1>a, <1>g, <1>k DEF RegistryInv, Guard, Modes
<1>c. /\ guards' = [guards EXCEPT ![th] = Append(@, g)]
      /\ mutexes' = [mutexes EXCEPT ![k] = x]
      /\ lpc' = [lpc EXCEPT ![th] = "out"] /\ mtx' = [mtx EXCEPT ![th] = 0]
      /\ want' = [want EXCEPT ![th] = NoGuard] /\ UNCHANGED table_locks
  BY <1>g, <1>k DEF Grants, Granted, Leave
<1>x. /\ mutexes[k].writer = NoThread
      /\ \/ /\ g.mode = "shared"
            /\ x.readers = mutexes[k].readers \cup {th} /\ x.writer = NoThread
         \/ /\ g.mode = "exclusive" /\ mutexes[k].readers = {}
            /\ x.readers = {} /\ x.writer = th
  BY <1>g, <1>k
<1>1. /\ mutexes' \in Seq(Mutex) /\ DOMAIN mutexes' = DOMAIN mutexes
      /\ mutexes'[k] = x
      /\ \A m \in DOMAIN mutexes : m # k => mutexes'[m] = mutexes[m]
  BY <1>a, <1>b, <1>c, MutexChange
<1>2. ~Holds(th, g.name, g.mode)
  BY <1>a, <1>b, <1>g, <1>k, NoThreadAssumption DEF GuardInv
<1>3. /\ guards' \in [Threads -> Seq(Guard)]
      /\ \A t \in Threads \ {th} : guards'[t] = guards[t]
      /\ \A t \in Threads \ {th} : \A n, m : Holds(t, n, m)' <=> Holds(t, n, m)
      /\ \A n, m : Holds(th, n, m)' <=> Holds(th, n, m) \/ g = [name |-> n, mode |-> m]
      /\ \A i \in DOMAIN guards'[th] :
            guards'[th][i] = g \/ \E j \in DOMAIN guards[th] : guards'[th][i] = guards[th][j]
      /\ Distinct(guards[th]) /\ (\A i \in DOMAIN guards[th] : guards[th][i] # g) =>
            Distinct(guards'[th])
  BY <1>a, <1>b, <1>c, Pushed
<1>4. Distinct(guards'[th])
  <2>1. \A i \in DOMAIN guards[th] : guards[th][i] # g
    BY <1>b, <1>2 DEF Holds
  <2> QED
    BY <1>a, <1>3, <2>1 DEF GuardInv, Distinct
<1>5. LockManagerTypeOK'
  BY <1>a, <1>c, <1>1, <1>3 DEF LockManagerTypeOK, Mutex
<1>6. RegistryInv'
  <2>1. \A m \in DOMAIN mutexes' : mutexes'[m].writer # NoThread => mutexes'[m].readers = {}
    BY <1>a, <1>1 DEF RegistryInv
  <2> QED
    BY <1>a, <1>c, <2>1 DEF RegistryInv
<1>7. GuardInv'
  <2>1. ASSUME NEW t \in Threads, NEW n \in DOMAIN table_locks
        PROVE  /\ t \in mutexes'[table_locks[n]].readers <=> Holds(t, n, "shared")'
               /\ mutexes'[table_locks[n]].writer = t <=> Holds(t, n, "exclusive")'
    <3>1. /\ t \in mutexes[table_locks[n]].readers <=> Holds(t, n, "shared")
          /\ mutexes[table_locks[n]].writer = t <=> Holds(t, n, "exclusive")
      BY <1>a DEF GuardInv
    <3>2. CASE n # g.name
      <4>1. table_locks[n] # k /\ table_locks[n] \in DOMAIN mutexes
        BY <1>a, <1>b, <3>2 DEF RegistryInv
      <4>2. \A m : Holds(t, n, m)' <=> Holds(t, n, m)
        <5>1. \A m : g # [name |-> n, mode |-> m]
          BY <3>2
        <5> QED
          BY <1>3, <5>1
      <4> QED
        BY <1>1, <3>1, <4>1, <4>2
    <3>3. CASE n = g.name
      <4>1. mutexes'[table_locks[n]] = x
        BY <1>b, <1>1, <3>3
      <4>2. CASE t = th
        <5>1. \A m : Holds(t, n, m)' <=> Holds(t, n, m) \/ m = g.mode
          <6>1. \A m : g = [name |-> n, mode |-> m] <=> m = g.mode
            BY <1>b, <3>3
          <6>2. \A m : Holds(th, n, m)' <=> Holds(th, n, m) \/ g = [name |-> n, mode |-> m]
            BY <1>3
          <6> QED
            BY <4>2, <6>1, <6>2
        <5>2. mutexes[table_locks[n]].writer # t /\ mutexes[k].writer # t
          BY <1>b, <1>x, <3>3, NoThreadAssumption
        <5>3. ~Holds(t, n, "exclusive")
          BY <3>1, <5>2
        <5>4. CASE g.mode = "shared"
          <6>1. t \in x.readers /\ x.writer # t
            BY <1>x, <4>2, <5>4, NoThreadAssumption
          <6>2. Holds(t, n, "shared")' /\ ~Holds(t, n, "exclusive")'
            BY <5>1, <5>3, <5>4
          <6> QED
            BY <4>1, <6>1, <6>2
        <5>5. CASE g.mode = "exclusive"
          <6>1. t \notin x.readers /\ x.writer = t /\ ~Holds(t, n, "shared")
            BY <1>b, <1>x, <3>1, <3>3, <4>2, <5>5
          <6>2. ~Holds(t, n, "shared")' /\ Holds(t, n, "exclusive")'
            BY <5>1, <5>5, <6>1
          <6> QED
            BY <4>1, <6>1, <6>2
        <5> QED
          BY <1>b, <5>4, <5>5
      <4>3. CASE t # th
        <5>1. \A m : Holds(t, n, m)' <=> Holds(t, n, m)
          BY <1>3, <4>3
        <5>2. /\ t \in x.readers <=> t \in mutexes[k].readers
              /\ x.writer = t <=> mutexes[k].writer = t
          BY <1>x, <4>3, NoThreadAssumption
        <5>3. table_locks[n] = k
          BY <1>b, <3>3
        <5> QED
          BY <3>1, <4>1, <5>1, <5>2, <5>3
      <4> QED
        BY <4>2, <4>3
    <3> QED
      BY <3>2, <3>3
  <2>2. ASSUME NEW t \in Threads
        PROVE  /\ \A i \in DOMAIN guards'[t] : guards'[t][i].name \in DOMAIN table_locks
               /\ Distinct(guards'[t])
    <3>1. /\ \A i \in DOMAIN guards[t] : guards[t][i].name \in DOMAIN table_locks
          /\ Distinct(guards[t])
      BY <1>a DEF GuardInv, Distinct
    <3>2. CASE t = th
      BY <1>b, <1>3, <1>4, <3>1, <3>2
    <3>3. CASE t # th
      <4>1. guards'[t] = guards[t]
        BY <1>3, <3>3
      <4> QED
        BY <3>1, <4>1
    <3> QED
      BY <3>2, <3>3
  <2> QED
    BY <1>c, <2>1, <2>2 DEF GuardInv, Distinct
<1> QED
  BY <1>5, <1>6, <1>7 DEF LocksInv

\* A thread in the lock manager that gets its guard gets it beside other readers,
\* or alone.
Fits(th, x) ==
    /\ lpc[th] # "out" /\ Grants(th, x)
    /\ mutexes[mtx[th]].writer = NoThread
    /\ \/ /\ want[th].mode = "shared" /\ ~Holds(th, want[th].name, "shared")
          /\ x.readers = mutexes[mtx[th]].readers \cup {th} /\ x.writer = NoThread
       \/ /\ want[th].mode = "exclusive" /\ mutexes[mtx[th]].readers = {}
          /\ x.readers = {} /\ x.writer = th

\* The three ways a mutex is locked.
LEMMA LockGrants ==
    ASSUME LocksInv, OnceInv, NEW th \in Threads, lock_shared(th) \/ lock(th) \/ try_lock(th)
    PROVE  \E x \in Mutex : Fits(th, x)
<1>1. PICK k : k = mtx[th]
  OBVIOUS
<1>2. lpc[th] # "out" /\ k \in DOMAIN mutexes /\ mutexes[k] \in Mutex
  <2>1. lpc[th] # "out"
    BY DEF lock_shared, lock, try_lock
  <2>2. /\ mutexes \in Seq(Mutex) /\ table_locks \in [DOMAIN table_locks -> DOMAIN mutexes]
        /\ want[th].name \in DOMAIN table_locks /\ k = table_locks[want[th].name]
    BY <1>1, <2>1 DEF LocksInv, LockManagerTypeOK, RegistryInv, Mutex
  <2>3. k \in DOMAIN mutexes
    BY <2>2
  <2> QED
    BY <2>1, <2>2, <2>3
<1>3. mutexes[k] = [readers |-> mutexes[k].readers, writer |-> mutexes[k].writer]
  BY <1>2 DEF Mutex
<1>4. CASE lock_shared(th)
  <2> DEFINE x == [readers |-> mutexes[k].readers \cup {th}, writer |-> NoThread]
  <2>1. x \in Mutex /\ x.readers = mutexes[k].readers \cup {th} /\ x.writer = NoThread
    BY <1>2 DEF Mutex
  <2>2. mutexes[k].writer = NoThread /\ want[th].mode = "shared"
    BY <1>1, <1>4 DEF lock_shared, CanShare
  <2>3. mutexes' = [mutexes EXCEPT ![k] = x] /\ Granted(th)
    <3>1. mutexes' = [mutexes EXCEPT ![k].readers = mutexes[k].readers \cup {th}] /\ Granted(th)
      BY <1>1, <1>4 DEF lock_shared
    <3>2. [mutexes[k] EXCEPT !.readers = mutexes[k].readers \cup {th}] = x
      BY <1>2, <2>2 DEF Mutex
    <3> HIDE DEF x
    <3> QED
      BY <1>2, <3>1, <3>2
  <2>4. ~Holds(th, want[th].name, "shared")
    BY <1>2, <2>2 DEF OnceInv
  <2> QED
    BY <1>1, <1>2, <2>1, <2>2, <2>3, <2>4 DEF Fits, Grants
<1>5. CASE lock(th) \/ try_lock(th)
  <2> DEFINE x == [readers |-> {}, writer |-> th]
  <2>1. x \in Mutex /\ x.readers = {} /\ x.writer = th
    BY DEF Mutex
  <2>2. mutexes[k].writer = NoThread /\ mutexes[k].readers = {} /\ want[th].mode = "exclusive"
    BY <1>1, <1>5 DEF lock, try_lock, IsFree, CanShare, LocksInv, RegistryInv
  <2>3. mutexes' = [mutexes EXCEPT ![k] = x] /\ Granted(th)
    BY <1>1, <1>2, <1>3, <1>5, <2>2 DEF lock, try_lock
  <2> QED
    BY <1>1, <1>2, <2>1, <2>2, <2>3 DEF Fits, Grants
<1> QED
  BY <1>4, <1>5

\* A call that returns without a guard.
LEMMA LeaveStep ==
    ASSUME LocksInv, NEW th \in Threads, LockThrows(th) \/ TryGivesUp(th)
    PROVE  LocksInv'
<1>1. Leave(th) /\ UNCHANGED <<mutexes, guards>>
  BY DEF LockThrows, TryGivesUp
<1>2. \A t, n, m : Holds(t, n, m)' <=> Holds(t, n, m)
  BY <1>1 DEF Holds
<1>3. LockManagerTypeOK'
  BY <1>1 DEF LocksInv, LockManagerTypeOK, Leave
<1>4. RegistryInv'
  BY <1>1 DEF LocksInv, LockManagerTypeOK, RegistryInv, Leave
<1>5. GuardInv'
  BY <1>1, <1>2 DEF LocksInv, GuardInv, Leave
<1> QED
  BY <1>3, <1>4, <1>5 DEF LocksInv

\* A destructor unlocks the mutex its guard locked.
LEMMA ReleaseStep ==
    ASSUME LocksInv, NEW th \in Threads, release_guard(th)
    PROVE  LocksInv'
<1>a. /\ LockManagerTypeOK /\ RegistryInv /\ GuardInv
      /\ mutexes \in Seq(Mutex)
      /\ table_locks \in [DOMAIN table_locks -> DOMAIN mutexes]
      /\ guards \in [Threads -> Seq(Guard)] /\ guards[th] # <<>> /\ Distinct(guards[th])
  BY DEF LocksInv, LockManagerTypeOK, Mutex, GuardInv, Distinct, release_guard
<1>g. PICK g : g = Last(guards[th])
  OBVIOUS
<1>k. PICK k : k = table_locks[g.name]
  OBVIOUS
<1>b. /\ g.name \in DOMAIN table_locks /\ k \in DOMAIN mutexes /\ mutexes[k] \in Mutex
      /\ UNCHANGED <<table_locks, lpc, mtx, want>>
      /\ guards' = [guards EXCEPT ![th] = Front(@)]
  BY <1>a, <1>g, <1>k DEF release_guard
<1>x. PICK x : x = IF g.mode = "shared"
                     THEN [readers |-> mutexes[k].readers \ {th}, writer |-> mutexes[k].writer]
                     ELSE [readers |-> mutexes[k].readers, writer |-> NoThread]
  OBVIOUS
<1>c. x \in Mutex /\ mutexes' = [mutexes EXCEPT ![k] = x]
  <2>1. mutexes[k] = [readers |-> mutexes[k].readers, writer |-> mutexes[k].writer]
    BY <1>b DEF Mutex
  <2>2. x \in Mutex
    BY <1>b, <1>x DEF Mutex
  <2> QED
    <3>1. CASE g.mode = "shared"
      <4>1. mutexes' = [mutexes EXCEPT ![k].readers = mutexes[k].readers \ {th}]
        BY <1>g, <1>k, <3>1 DEF release_guard, Unlocked
      <4>2. [mutexes[k] EXCEPT !.readers = mutexes[k].readers \ {th}] = x
        BY <1>b, <1>x, <3>1 DEF Mutex
      <4> QED
        BY <1>b, <2>2, <4>1, <4>2
    <3>2. CASE g.mode # "shared"
      <4>1. mutexes' = [mutexes EXCEPT ![k].writer = NoThread]
        BY <1>g, <1>k, <3>2 DEF release_guard, Unlocked
      <4>2. [mutexes[k] EXCEPT !.writer = NoThread] = x
        BY <1>b, <1>x, <3>2 DEF Mutex
      <4> QED
        BY <1>b, <2>2, <4>1, <4>2
    <3> QED
      BY <3>1, <3>2
<1>1. /\ mutexes' \in Seq(Mutex) /\ DOMAIN mutexes' = DOMAIN mutexes
      /\ mutexes'[k] = x
      /\ \A m \in DOMAIN mutexes : m # k => mutexes'[m] = mutexes[m]
  BY <1>a, <1>b, <1>c, MutexChange
<1>3. /\ guards' \in [Threads -> Seq(Guard)]
      /\ \A t \in Threads \ {th} : guards'[t] = guards[t]
      /\ \A t \in Threads \ {th} : \A n, m : Holds(t, n, m)' <=> Holds(t, n, m)
      /\ \A n, m : Holds(th, n, m)' <=> Holds(th, n, m) /\ g # [name |-> n, mode |-> m]
      /\ \A i \in DOMAIN guards'[th] : i \in DOMAIN guards[th] /\ guards'[th][i] = guards[th][i]
      /\ g \in Guard /\ Holds(th, g.name, g.mode)
      /\ Distinct(guards'[th])
  <2>1. /\ guards \in [Threads -> Seq(Guard)] /\ guards[th] # <<>>
        /\ g = guards[th][Len(guards[th])] /\ Distinct(guards[th])
        /\ guards' = [guards EXCEPT ![th] = Front(guards[th])]
    BY <1>a, <1>b, <1>g DEF Last
  <2>2. g \in Guard
    BY <2>1
  <2> QED
    BY <2>1, <2>2, Popped
<1>4. g = [name |-> g.name, mode |-> g.mode] /\ g.mode \in {"shared", "exclusive"}
  BY <1>3 DEF Guard, Modes
<1>5. LockManagerTypeOK'
  BY <1>a, <1>b, <1>1, <1>3 DEF LockManagerTypeOK, Mutex
<1>6. RegistryInv'
  <2>1. x.writer # NoThread => x.readers = {}
    BY <1>a, <1>b, <1>x DEF RegistryInv
  <2>2. \A m \in DOMAIN mutexes' : mutexes'[m].writer # NoThread => mutexes'[m].readers = {}
    BY <1>a, <1>1, <2>1 DEF RegistryInv
  <2> QED
    BY <1>a, <1>b, <2>2 DEF RegistryInv
<1>7. GuardInv'
  <2>1. ASSUME NEW t \in Threads, NEW n \in DOMAIN table_locks
        PROVE  /\ t \in mutexes'[table_locks[n]].readers <=> Holds(t, n, "shared")'
               /\ mutexes'[table_locks[n]].writer = t <=> Holds(t, n, "exclusive")'
    <3>1. /\ t \in mutexes[table_locks[n]].readers <=> Holds(t, n, "shared")
          /\ mutexes[table_locks[n]].writer = t <=> Holds(t, n, "exclusive")
      BY <1>a DEF GuardInv
    <3>2. CASE n # g.name
      <4>1. table_locks[n] # k /\ table_locks[n] \in DOMAIN mutexes
        BY <1>a, <1>b, <1>k, <3>2 DEF RegistryInv
      <4>2. \A m : Holds(t, n, m)' <=> Holds(t, n, m)
        <5>1. \A m : g # [name |-> n, mode |-> m]
          BY <3>2
        <5> QED
          BY <1>3, <5>1
      <4> QED
        BY <1>1, <3>1, <4>1, <4>2
    <3>3. CASE n = g.name
      <4>1. mutexes'[table_locks[n]] = x
        BY <1>k, <1>1, <3>3
      <4>0. mutexes[k].writer # NoThread => mutexes[k].readers = {}
        BY <1>a, <1>b DEF RegistryInv
      <4>5. g.mode = "exclusive" => mutexes[k].writer = th
        BY <1>a, <1>b, <1>k, <1>3 DEF GuardInv
      <4>6. /\ g.mode = "shared" => /\ x.readers = mutexes[k].readers \ {th}
                                    /\ x.writer = mutexes[k].writer
            /\ g.mode = "exclusive" => /\ x.readers = mutexes[k].readers
                                       /\ x.writer = NoThread
        BY <1>x
      <4>2. CASE t = th
        <5>1. \A m : Holds(t, n, m)' <=> Holds(t, n, m) /\ m # g.mode
          <6>1. \A m : g = [name |-> n, mode |-> m] <=> m = g.mode
            BY <1>4, <3>3
          <6>2. \A m : Holds(th, n, m)' <=> Holds(th, n, m) /\ g # [name |-> n, mode |-> m]
            BY <1>3
          <6> QED
            BY <4>2, <6>1, <6>2
        <5> QED
          BY <1>4, <1>k, <3>1, <3>3, <4>1, <4>2, <4>6, <5>1, NoThreadAssumption
      <4>3. CASE t # th
        BY <1>4, <1>k, <1>3, <3>1, <3>3, <4>1, <4>3, <4>5, <4>6, NoThreadAssumption
      <4> QED
        BY <4>2, <4>3
    <3> QED
      BY <3>2, <3>3
  <2>2. ASSUME NEW t \in Threads
        PROVE  /\ \A i \in DOMAIN guards'[t] : guards'[t][i].name \in DOMAIN table_locks
               /\ Distinct(guards'[t])
    <3>1. /\ \A i \in DOMAIN guards[t] : guards[t][i].name \in DOMAIN table_locks
          /\ Distinct(guards[t])
      BY <1>a DEF GuardInv, Distinct
    <3>2. CASE t = th
      BY <1>3, <3>1, <3>2
    <3>3. CASE t # th
      <4>1. guards'[t] = guards[t]
        BY <1>3, <3>3
      <4> QED
        BY <3>1, <4>1
    <3> QED
      BY <3>2, <3>3
  <2> QED
    BY <1>b, <2>1, <2>2 DEF GuardInv, Distinct
<1> QED
  BY <1>5, <1>6, <1>7 DEF LocksInv

-----------------------------------------------------------------------------
(* The handlers *)

HandlerStep(th) == Start(th) \/ ThreadStep(th) \/ Spurious(th)

\* The calls that are left after one was made.
LEMMA CallsLeft ==
    ASSUME NEW s \in Seq(Calls), s # <<>>
    PROVE  /\ Head(s) \in Calls /\ Head(s) = s[1] /\ 1 \in DOMAIN s
           /\ Tail(s) \in Seq(Calls)
           /\ \A i \in DOMAIN Tail(s) : /\ i + 1 \in DOMAIN s /\ i + 1 # 1
                                        /\ Tail(s)[i] = s[i + 1]
           /\ SharesOnce(s) => SharesOnce(Tail(s))
<1>1. /\ Len(s) \in Nat /\ Len(s) # 0 /\ DOMAIN s = 1 .. Len(s)
      /\ Tail(s) \in Seq(Calls) /\ Head(s) = s[1] /\ Head(s) \in Calls
      /\ Len(Tail(s)) = Len(s) - 1 /\ DOMAIN Tail(s) = 1 .. Len(s) - 1
      /\ \A i \in 1 .. Len(s) - 1 : Tail(s)[i] = s[i + 1]
  BY HeadTailProperties
<1>2. /\ 1 \in DOMAIN s
      /\ \A i \in DOMAIN Tail(s) : i \in Nat /\ i + 1 \in DOMAIN s /\ i + 1 # 1
                                   /\ Tail(s)[i] = s[i + 1]
  BY <1>1
<1>3. SharesOnce(s) => SharesOnce(Tail(s))
  <2> SUFFICES ASSUME SharesOnce(s), NEW i \in DOMAIN Tail(s), NEW j \in DOMAIN Tail(s),
                      Tail(s)[i].do = "lock", Tail(s)[i].guard.mode = "shared",
                      Tail(s)[j] = Tail(s)[i]
               PROVE  i = j
    BY DEF SharesOnce
  <2>1. i + 1 = j + 1
    BY <1>2 DEF SharesOnce
  <2> QED
    BY <1>2, <2>1
<1> QED
  BY <1>1, <1>2, <1>3

\* What a call to the lock manager asks for.
LEMMA CallsLock ==
    ASSUME NEW c \in Calls, c.do \in {"lock", "poll"}
    PROVE  /\ c.guard \in Guard /\ c = [do |-> c.do, guard |-> c.guard]
           /\ c.do = "poll" => c.guard.mode = "exclusive"
  BY DEF Calls, Guard, Modes

\* A step of th leaves the other threads alone, except that it may wake one in
\* the pool.
LEMMA OthersKept ==
    ASSUME LockManagerTypeOK, ConnectionTypeOK, StageInv,
           NEW th \in Threads, HandlerStep(th), NEW t \in Threads, t # th
    PROVE  /\ stage'[t] = stage[t] /\ todo'[t] = todo[t]
           /\ lpc'[t] = lpc[t] /\ want'[t] = want[t] /\ guards'[t] = guards[t]
           /\ ppc'[t] = ppc[t] \/ ppc[t] # "out"
<1> USE DEF StageInv, LockManagerTypeOK, ConnectionTypeOK, LeavePool, Leave, Granted, Calling,
        lockManagerVars, connectionVars
<1>n. notify_one => ppc'[t] = ppc[t] \/ ppc[t] # "out"
  BY DEF notify_one, Asleep
<1>r. release(th) => ppc'[t] = ppc[t] \/ ppc[t] # "out"
  BY <1>n DEF release
<1>1. CASE Start(th)
  BY <1>1 DEF Start
<1>2. CASE CallLock(th)
  BY <1>2 DEF CallLock, get_or_create
<1>3. CASE CallAcquire(th)
  BY <1>3 DEF CallAcquire, Call
<1>4. CASE Free(th)
  BY <1>4, <1>r DEF Free
<1>5. CASE Inside(th)
  <2>1. CASE lock_shared(th) \/ lock(th) \/ try_lock(th)
    BY <1>5, <2>1 DEF Inside, lock_shared, lock, try_lock, TakeConnection, Sleep, TimeIsUp, TimesOut
  <2>2. CASE UNCHANGED lockManagerVars
    BY <1>5, <2>2 DEF Inside, TakeConnection, Sleep, TimeIsUp, TimesOut, lock_shared, lock, try_lock
  <2> QED
    BY <1>5, <2>1, <2>2 DEF Inside
<1>6. CASE Unlucky(th)
  BY <1>6 DEF Unlucky, LockThrows, TryGivesUp, GiveUp, LoseConnection
<1>7. CASE Finish(th)
  BY <1>7, <1>r DEF Finish, release_guard
<1>8. CASE Spurious(th)
  BY <1>8 DEF Spurious, WakeSpuriously
<1> QED
  BY <1>1, <1>2, <1>3, <1>4, <1>5, <1>6, <1>7, <1>8 DEF HandlerStep, ThreadStep

\* Every step of a handler keeps the mutexes and the guards in agreement.
LEMMA LocksKept ==
    ASSUME ResourcesInv, NEW th \in Threads, HandlerStep(th)
    PROVE  LocksInv'
<1>1. CASE UNCHANGED lockManagerVars
  BY <1>1 DEF ResourcesInv, LocksInv, LockManagerTypeOK, RegistryInv, GuardInv, Holds,
     lockManagerVars
<1>2. CASE CallLock(th)
  <2>1. PICK next \in {"lock", "poll"} :
           Calling(th, next) /\ get_or_create(th, Head(todo[th]).guard, next)
    BY <1>2 DEF CallLock
  <2>2. /\ todo[th] \in Seq(Calls) /\ todo[th] # <<>> /\ Head(todo[th]) \in Calls
        /\ Head(todo[th]).do = next
    BY <2>1, CallsLeft DEF Calling, ResourcesInv, StageInv
  <2>3. PICK g : g = Head(todo[th]).guard
    OBVIOUS
  <2>4. g \in Guard /\ (next = "poll" => g.mode = "exclusive")
    BY <2>2, <2>3, CallsLock
  <2> QED
    BY <2>1, <2>3, <2>4, LookupStep DEF ResourcesInv
<1>3. CASE lock_shared(th) \/ lock(th) \/ try_lock(th)
  <2>1. PICK x \in Mutex : Fits(th, x)
    BY <1>3, LockGrants DEF ResourcesInv
  <2> QED
    BY <2>1, GrantStep DEF ResourcesInv, Fits
<1>4. CASE LockThrows(th) \/ TryGivesUp(th)
  BY <1>4, LeaveStep DEF ResourcesInv
<1>5. CASE release_guard(th)
  BY <1>5, ReleaseStep DEF ResourcesInv
<1> QED
  BY <1>1, <1>2, <1>3, <1>4, <1>5 DEF HandlerStep, ThreadStep, Start, CallAcquire, Free,
     Inside, Unlucky, Finish, Spurious

\* Where the handlers are.
LEMMA StageKept ==
    ASSUME ResourcesInv, NEW th \in Threads, HandlerStep(th)
    PROVE  StageInv'
<1>a. LockManagerTypeOK /\ ConnectionTypeOK /\ StageInv
  BY DEF ResourcesInv, LocksInv
<1>1. \A t \in Threads \ {th} :
         /\ lpc'[t] # "out" => stage'[t] = "run" /\ ppc'[t] = "out"
         /\ stage'[t] = "idle" => guards'[t] = <<>>
  BY <1>a, OthersKept DEF StageInv
<1>2. stage' \in [Threads -> {"idle", "run", "unwind"}]
  BY <1>a DEF StageInv, HandlerStep, ThreadStep, Start, CallLock, CallAcquire, Free, Inside,
     Unlucky, Finish, Spurious, Calling, GiveUp
<1>3. todo' \in [Threads -> Seq(Calls)]
  <2>1. /\ todo \in [Threads -> Seq(Calls)] /\ <<>> \in Seq(Calls) /\ Handlers \subseteq Seq(Calls)
        /\ todo[th] # <<>> => Tail(todo[th]) \in Seq(Calls)
    BY <1>a, CallsLeft, HandlersAssumption DEF StageInv
  <2>2. \/ UNCHANGED todo \/ (\E h \in Handlers : todo' = [todo EXCEPT ![th] = h])
        \/ todo' = [todo EXCEPT ![th] = <<>>]
        \/ todo[th] # <<>> /\ todo' = [todo EXCEPT ![th] = Tail(todo[th])]
    BY DEF HandlerStep, ThreadStep, Start, CallLock, CallAcquire, Free, Inside,
       Unlucky, Finish, Spurious, Calling, GiveUp
  <2> QED
    BY <2>1, <2>2
<1>4. /\ lpc'[th] # "out" => stage'[th] = "run" /\ ppc'[th] = "out"
      /\ stage'[th] = "idle" => guards'[th] = <<>>
  <2> USE <1>a DEF StageInv, LockManagerTypeOK, ConnectionTypeOK, LeavePool, Leave, Granted,
          Calling, Ready, lockManagerVars, connectionVars
  <2>1. CASE Start(th)
    BY <2>1 DEF Start
  <2>2. CASE CallLock(th)
    BY <2>2 DEF CallLock, get_or_create
  <2>3. CASE CallAcquire(th)
    BY <2>3 DEF CallAcquire
  <2>4. CASE Free(th)
    BY <2>4 DEF Free
  <2>5. CASE Inside(th)
    <3>1. CASE lock_shared(th) \/ lock(th) \/ try_lock(th)
      BY <2>5, <3>1 DEF Inside, lock_shared, lock, try_lock, TakeConnection, Sleep, TimeIsUp,
         TimesOut
    <3>2. CASE UNCHANGED lockManagerVars
      BY <2>5, <3>2 DEF Inside, lock_shared, lock, try_lock, TakeConnection, Finds, Sleep,
         TimeIsUp, TimesOut
    <3> QED
      BY <2>5, <3>1, <3>2 DEF Inside
  <2>6. CASE Unlucky(th)
    BY <2>6 DEF Unlucky, LockThrows, TryGivesUp, GiveUp, LoseConnection, Finds
  <2>7. CASE Finish(th)
    BY <2>7 DEF Finish, release_guard
  <2>8. CASE Spurious(th)
    BY <2>8 DEF Spurious, WakeSpuriously
  <2> QED
    BY <2>1, <2>2, <2>3, <2>4, <2>5, <2>6, <2>7, <2>8 DEF HandlerStep, ThreadStep
<1> QED
  BY <1>1, <1>2, <1>3, <1>4 DEF StageInv

\* OnceInv of one thread.
OnceOf(t) ==
    /\ lpc[t] # "out" /\ want[t].mode = "shared" => ~Holds(t, want[t].name, "shared")
    /\ \A i \in DOMAIN todo[t] :
          todo[t][i].do = "lock" /\ todo[t][i].guard.mode = "shared" =>
             /\ ~Holds(t, todo[t][i].guard.name, "shared")
             /\ lpc[t] = "out" \/ want[t] # todo[t][i].guard
    /\ SharesOnce(todo[t])

\* No thread comes to ask for what it holds shared.
LEMMA OnceKept ==
    ASSUME ResourcesInv, NEW th \in Threads, HandlerStep(th)
    PROVE  OnceInv'
<1>a. /\ LocksInv /\ LockManagerTypeOK /\ ConnectionTypeOK /\ StageInv /\ OnceOf(th)
      /\ lpc \in [Threads -> {"out", "lock", "poll"}]
      /\ want \in [Threads -> Guard \cup {NoGuard}] /\ guards \in [Threads -> Seq(Guard)]
      /\ todo \in [Threads -> Seq(Calls)]
  BY DEF ResourcesInv, LocksInv, LockManagerTypeOK, StageInv, OnceInv, OnceOf
<1>1. ASSUME NEW t \in Threads, t # th PROVE OnceOf(t)'
  <2>1. todo'[t] = todo[t] /\ lpc'[t] = lpc[t] /\ want'[t] = want[t] /\ guards'[t] = guards[t]
    BY <1>a, <1>1, OthersKept
  <2>2. OnceOf(t)
    BY DEF ResourcesInv, OnceInv, OnceOf
  <2> QED
    BY <2>1, <2>2 DEF OnceOf, Holds, SharesOnce
<1>2. OnceOf(th)'
  <2>0. CASE UNCHANGED <<todo, lpc, want, guards>>
    BY <1>a, <2>0 DEF OnceOf, Holds, SharesOnce
  <2>1. CASE Start(th)
    <3>1. PICK h \in Handlers : todo' = [todo EXCEPT ![th] = h]
      BY <2>1 DEF Start
    <3>2. todo'[th] = h /\ SharesOnce(h)
      BY <1>a, <3>1, HandlersAssumption
    <3>3. lpc'[th] = "out" /\ guards'[th] = <<>>
      BY <1>a, <2>1 DEF Start, StageInv, lockManagerVars
    <3>4. \A n, m : ~Holds(th, n, m)'
      BY <3>3 DEF Holds
    <3>5. SharesOnce(todo[th])'
      BY <3>2 DEF SharesOnce
    <3> QED
      BY <3>3, <3>4, <3>5 DEF OnceOf
  <2>2. CASE \/ CallLock(th)
             \/ (\E what : Calling(th, what)) /\ UNCHANGED lockManagerVars
    <3>1. /\ todo[th] # <<>> /\ todo[th] \in Seq(Calls) /\ todo'[th] = Tail(todo[th])
          /\ lpc[th] = "out"
      BY <1>a, <2>2 DEF CallLock, Calling, Ready
    <3>2. /\ Head(todo[th]) \in Calls /\ Head(todo[th]) = todo[th][1] /\ 1 \in DOMAIN todo[th]
          /\ \A i \in DOMAIN todo'[th] : /\ i + 1 \in DOMAIN todo[th] /\ i + 1 # 1
                                         /\ todo'[th][i] = todo[th][i + 1]
          /\ SharesOnce(todo'[th])
      BY <1>a, <3>1, CallsLeft DEF OnceOf
    <3>3. SharesOnce(todo[th])'
      BY <3>2 DEF SharesOnce
    <3>4. CASE UNCHANGED lockManagerVars
      <4>1. lpc'[th] = "out" /\ \A n, m : Holds(th, n, m)' <=> Holds(th, n, m)
        BY <3>1, <3>4 DEF lockManagerVars, Holds
      <4> QED
        BY <1>a, <3>2, <3>3, <4>1 DEF OnceOf
    <3>5. CASE CallLock(th)
      <4>1. PICK next \in {"lock", "poll"} :
               Calling(th, next) /\ get_or_create(th, Head(todo[th]).guard, next)
        BY <3>5 DEF CallLock
      <4>2. PICK c : c = todo[th][1]
        OBVIOUS
      <4>3. /\ c \in Calls /\ c.do = next /\ want'[th] = c.guard /\ UNCHANGED guards
        BY <1>a, <3>2, <4>1, <4>2 DEF Calling, get_or_create
      <4>4. /\ c.guard \in Guard /\ c = [do |-> c.do, guard |-> c.guard]
            /\ c.do = "poll" => c.guard.mode = "exclusive"
        BY <4>3, CallsLock
      <4>5. \A n, m : Holds(th, n, m)' <=> Holds(th, n, m)
        BY <4>3 DEF Holds
      <4>6. want'[th].mode = "shared" => ~Holds(th, want[th].name, "shared")'
        BY <1>a, <3>2, <4>2, <4>3, <4>4, <4>5 DEF OnceOf
      <4>7. ASSUME NEW i \in DOMAIN todo'[th],
                   todo'[th][i].do = "lock", todo'[th][i].guard.mode = "shared"
            PROVE  /\ ~Holds(th, todo[th][i].guard.name, "shared")'
                   /\ want'[th] # todo'[th][i].guard
        <5>1. PICK d : d = todo[th][i + 1]
          OBVIOUS
        <5>2. /\ d = todo'[th][i] /\ d \in Calls /\ i + 1 \in DOMAIN todo[th] /\ i + 1 # 1
              /\ d.do = "lock" /\ d.guard.mode = "shared"
          BY <1>a, <3>2, <4>7, <5>1
        <5>3. ~Holds(th, d.guard.name, "shared")
          BY <1>a, <5>1, <5>2 DEF OnceOf
        <5>4. d # c
          BY <1>a, <3>2, <4>2, <5>1, <5>2 DEF OnceOf, SharesOnce
        <5>5. d = [do |-> d.do, guard |-> d.guard]
          BY <5>2, CallsLock
        <5>6. c.guard # d.guard
          BY <4>3, <4>4, <5>2, <5>4, <5>5
        <5> QED
          BY <4>3, <4>5, <5>2, <5>3, <5>6
      <4> QED
        BY <3>3, <4>6, <4>7 DEF OnceOf
    <3> QED
      BY <2>2, <3>4, <3>5
  <2>3. CASE (lock_shared(th) \/ lock(th) \/ try_lock(th)) /\ UNCHANGED todo
    <3>1. PICK x \in Mutex : Fits(th, x)
      BY <2>3, LockGrants DEF ResourcesInv
    <3>2. PICK g : g = want[th]
      OBVIOUS
    <3>3. g \in Guard /\ g = [name |-> g.name, mode |-> g.mode] /\ lpc[th] # "out"
      BY <1>a, <3>1, <3>2 DEF Fits, LocksInv, RegistryInv, Guard
    <3>4. guards' = [guards EXCEPT ![th] = Append(@, g)] /\ lpc'[th] = "out"
      BY <1>a, <3>1, <3>2 DEF Fits, Grants, Granted, Leave
    <3>5. \A n, m : Holds(th, n, m)' <=> Holds(th, n, m) \/ g = [name |-> n, mode |-> m]
      BY <1>a, <3>3, <3>4, Pushed
    <3>6. ASSUME NEW i \in DOMAIN todo[th],
                 todo[th][i].do = "lock", todo[th][i].guard.mode = "shared"
          PROVE  ~Holds(th, todo[th][i].guard.name, "shared")'
      <4>1. PICK c : c = todo[th][i]
        OBVIOUS
      <4>2. c \in Calls /\ c.do = "lock" /\ c.guard.mode = "shared"
        BY <1>a, <3>6, <4>1
      <4>3. c.guard \in Guard /\ c.guard = [name |-> c.guard.name, mode |-> c.guard.mode]
        BY <4>2, CallsLock DEF Guard
      <4>4. ~Holds(th, c.guard.name, "shared") /\ g # c.guard
        BY <1>a, <3>2, <3>3, <3>6, <4>1 DEF OnceOf
      <4>5. ~Holds(th, c.guard.name, "shared")'
        BY <3>5, <4>2, <4>3, <4>4
      <4> QED
        BY <2>3, <4>1, <4>5
    <3> QED
      BY <1>a, <2>3, <3>4, <3>6 DEF OnceOf, SharesOnce
  <2>4. CASE /\ GiveUp(th)
             /\ LockThrows(th) \/ TryGivesUp(th) \/ (LoseConnection(th) /\ UNCHANGED lockManagerVars)
    <3>1. todo'[th] = <<>> /\ lpc'[th] = "out"
      BY <1>a, <2>4 DEF GiveUp, LockThrows, TryGivesUp, Leave, LoseConnection, Finds,
         StageInv, lockManagerVars, ConnectionTypeOK
    <3> QED
      BY <3>1 DEF OnceOf, SharesOnce
  <2>5. CASE release_guard(th) /\ UNCHANGED todo
    <3>1. /\ guards[th] # <<>> /\ lpc'[th] = "out" /\ Distinct(guards[th])
          /\ guards' = [guards EXCEPT ![th] = Front(guards[th])]
      BY <1>a, <2>5 DEF release_guard, LocksInv, GuardInv, Distinct
    <3>2. PICK g : g = guards[th][Len(guards[th])]
      OBVIOUS
    <3>3. g \in Guard
      BY <1>a, <3>1, <3>2
    <3>4. \A n, m : Holds(th, n, m)' => Holds(th, n, m)
      BY <1>a, <3>1, <3>2, <3>3, Popped
    <3> QED
      BY <1>a, <2>5, <3>1, <3>4 DEF OnceOf, SharesOnce
  <2> QED
    BY <2>0, <2>1, <2>2, <2>3, <2>4, <2>5 DEF HandlerStep, ThreadStep, CallLock, CallAcquire,
       Free, Inside, Unlucky, Finish, Spurious, lockManagerVars
<1> QED
  BY <1>1, <1>2 DEF OnceInv, OnceOf

\* The inductive invariant of the handlers and what they hold.
THEOREM ResourcesAlwaysInv == ResourcesSpec => []ResourcesInv
<1>1. ResourcesInit => ResourcesInv
  <2> SUFFICES ASSUME ResourcesInit PROVE ResourcesInv
    OBVIOUS
  <2>1. ConnectionTypeOK
    BY PoolInitial DEF ResourcesInit
  <2>2. LockManagerTypeOK
    BY DEF ResourcesInit, LockManagerInit, LockManagerTypeOK
  <2>3. RegistryInv /\ GuardInv
    BY DEF ResourcesInit, LockManagerInit, RegistryInv, GuardInv
  <2>4. StageInv
    BY DEF ResourcesInit, LockManagerInit, StageInv
  <2>5. OnceInv
    BY DEF ResourcesInit, LockManagerInit, OnceInv, SharesOnce
  <2> QED
    BY <2>1, <2>2, <2>3, <2>4, <2>5 DEF ResourcesInv, LocksInv
<1>2. ResourcesInv /\ [ResourcesNext]_resourceVars => ResourcesInv'
  <2> SUFFICES ASSUME ResourcesInv, [ResourcesNext]_resourceVars PROVE ResourcesInv'
    OBVIOUS
  <2>1. CASE UNCHANGED resourceVars
    <3>1. LocksInv' /\ ConnectionTypeOK'
      BY <2>1 DEF ResourcesInv, LocksInv, LockManagerTypeOK, RegistryInv, GuardInv, Holds,
         ConnectionTypeOK, resourceVars, lockManagerVars, connectionVars
    <3>2. StageInv' /\ OnceInv'
      BY <2>1 DEF ResourcesInv, StageInv, OnceInv, Holds, SharesOnce, resourceVars,
         lockManagerVars, connectionVars
    <3> QED
      BY <3>1, <3>2 DEF ResourcesInv
  <2>2. ASSUME NEW th \in Threads, HandlerStep(th) PROVE ResourcesInv'
    <3>1. ConnectionTypeOK'
      <4>1. ConnectionTypeOK /\ UNCHANGED connectionVars => ConnectionTypeOK'
        BY DEF ConnectionTypeOK, connectionVars
      <4> QED
        BY <4>1, PoolSteps, PoolTypes DEF ResourcesInv
    <3> QED
      BY <2>2, <3>1, LocksKept, StageKept, OnceKept DEF ResourcesInv
  <2> QED
    BY <2>1, <2>2 DEF ResourcesNext, ResourcesQuiet, HandlerStep
<1> QED
  BY <1>1, <1>2, PTL DEF ResourcesSpec

\* A destructor always finds its guard's mutex in the registry, and finds it
\* locked by its own thread in its own mode: no release throws or unlocks what
\* another thread holds.
THEOREM UnlockAlwaysLegal == ResourcesSpec => []UnlockLegal
<1>1. ResourcesInv => UnlockLegal
  <2> SUFFICES ASSUME ResourcesInv, NEW th \in Threads, NEW i \in DOMAIN guards[th],
                      NEW g, g = guards[th][i]
               PROVE  /\ g.name \in DOMAIN table_locks
                      /\ IF g.mode = "shared"
                           THEN th \in mutexes[table_locks[g.name]].readers
                           ELSE mutexes[table_locks[g.name]].writer = th
    BY DEF UnlockLegal
  <2>1. g \in Guard /\ g.name \in DOMAIN table_locks
    BY DEF ResourcesInv, LocksInv, LockManagerTypeOK, GuardInv
  <2>2. g = [name |-> g.name, mode |-> g.mode] /\ g.mode \in {"shared", "exclusive"}
    BY <2>1 DEF Guard, Modes
  <2>3. Holds(th, g.name, g.mode)
    BY <2>2 DEF Holds
  <2> QED
    BY <2>1, <2>2, <2>3 DEF ResourcesInv, LocksInv, GuardInv
<1> QED
  BY <1>1, ResourcesAlwaysInv, PTL

-----------------------------------------------------------------------------
(* One reader/writer lock per table *)

ReadersOf(n) == {t \in Threads : Holds(t, n, "shared")}
WriterOf(n) == IF \E t \in Threads : Holds(t, n, "exclusive")
                 THEN CHOOSE t \in Threads : Holds(t, n, "exclusive")
                 ELSE NoThread

\* The mutex behind a name has at most one writer, so there is nothing to choose.
LEMMA WriterIs ==
    ASSUME LocksInv, NEW n
    PROVE  /\ \A t \in Threads : Holds(t, n, "exclusive") <=> WriterOf(n) = t
           /\ WriterOf(n) \in Threads \cup {NoThread}
           /\ (\A t \in Threads : ~Holds(t, n, "exclusive")) => WriterOf(n) = NoThread
<1>1. \A t, u \in Threads : Holds(t, n, "exclusive") /\ Holds(u, n, "exclusive") => t = u
  <2> SUFFICES ASSUME NEW t \in Threads, NEW u \in Threads,
                      Holds(t, n, "exclusive"), Holds(u, n, "exclusive")
               PROVE  t = u
    OBVIOUS
  <2>1. n \in DOMAIN table_locks
    BY DEF Holds, LocksInv, GuardInv
  <2> QED
    BY <2>1 DEF LocksInv, GuardInv
<1>2. CASE \E t \in Threads : Holds(t, n, "exclusive")
  <2>1. WriterOf(n) \in Threads /\ Holds(WriterOf(n), n, "exclusive")
    BY <1>2, Zenon DEF WriterOf
  <2> QED
    BY <1>1, <1>2, <2>1
<1>3. CASE ~ \E t \in Threads : Holds(t, n, "exclusive")
  <2>1. WriterOf(n) = NoThread
    BY <1>3, Zenon DEF WriterOf
  <2> QED
    BY <1>3, <2>1, NoThreadAssumption
<1> QED
  BY <1>2, <1>3

LEMMA WriterIsNext ==
    ASSUME LocksInv', NEW n
    PROVE  /\ \A t \in Threads : Holds(t, n, "exclusive")' <=> WriterOf(n)' = t
           /\ WriterOf(n)' \in Threads \cup {NoThread}
           /\ (\A t \in Threads : ~Holds(t, n, "exclusive")') => WriterOf(n)' = NoThread
<1>1. \A t, u \in Threads : Holds(t, n, "exclusive")' /\ Holds(u, n, "exclusive")' => t = u
  <2> SUFFICES ASSUME NEW t \in Threads, NEW u \in Threads,
                      Holds(t, n, "exclusive")', Holds(u, n, "exclusive")'
               PROVE  t = u
    OBVIOUS
  <2>1. n \in DOMAIN table_locks'
    BY DEF Holds, LocksInv, GuardInv
  <2> QED
    BY <2>1 DEF LocksInv, GuardInv
<1>2. CASE \E t \in Threads : Holds(t, n, "exclusive")'
  <2>1. WriterOf(n)' \in Threads /\ \E t \in Threads : t = WriterOf(n)' /\ Holds(t, n, "exclusive")'
    BY <1>2, Zenon DEF WriterOf
  <2> QED
    BY <1>1, <1>2, <2>1
<1>3. CASE ~ \E t \in Threads : Holds(t, n, "exclusive")'
  <2>1. WriterOf(n)' = NoThread
    BY <1>3, Zenon DEF WriterOf
  <2> QED
    BY <1>3, <2>1, NoThreadAssumption
<1> QED
  BY <1>2, <1>3

\* Nobody's guards change: nothing happens to the locks.
LEMMA LocksStutter ==
    ASSUME UNCHANGED guards
    PROVE  UNCHANGED Promise!lockVars
  BY DEF Promise!lockVars, Holds

\* A guard that is granted is an acquisition of the lock of its name.
LEMMA GrantAcquires ==
    ASSUME LocksInv, LocksInv', NEW th \in Threads, NEW x \in Mutex, Fits(th, x)
    PROVE  \E n \in Names : Promise!acquire_shared(th, n) \/ Promise!acquire_exclusive(th, n)
<1>g. PICK g : g = want[th]
  OBVIOUS
<1>1. /\ g \in Guard /\ g.name \in Names /\ g.mode \in {"shared", "exclusive"}
      /\ g = [name |-> g.name, mode |-> g.mode] /\ g.name \in DOMAIN table_locks
      /\ mtx[th] = table_locks[g.name]
  BY <1>g DEF LocksInv, RegistryInv, Fits, Guard, Modes
<1>2. /\ guards \in [Threads -> Seq(Guard)] /\ guards' = [guards EXCEPT ![th] = Append(@, g)]
  BY <1>g DEF LocksInv, LockManagerTypeOK, Fits, Grants, Granted
<1>3. /\ \A t \in Threads \ {th} : \A n, m : Holds(t, n, m)' <=> Holds(t, n, m)
      /\ \A n, m : Holds(th, n, m)' <=> Holds(th, n, m) \/ g = [name |-> n, mode |-> m]
  BY <1>1, <1>2, Pushed
<1>4. \A t \in Threads : \A n, m :
         Holds(t, n, m)' <=> Holds(t, n, m) \/ (t = th /\ n = g.name /\ m = g.mode)
  <2>1. \A n, m : g = [name |-> n, mode |-> m] <=> n = g.name /\ m = g.mode
    BY <1>1
  <2> QED
    BY <1>3, <2>1
<1>5. \A t \in Threads : ~Holds(t, g.name, "exclusive")
  BY <1>1, NoThreadAssumption DEF Fits, LocksInv, GuardInv
<1>6. WriterOf(g.name) = NoThread
  BY <1>5, WriterIs
<1>7. CASE g.mode = "shared"
  <2>1. \A n \in Names : WriterOf(n)' = WriterOf(n)
    <3> SUFFICES ASSUME NEW n \in Names PROVE WriterOf(n)' = WriterOf(n)
      OBVIOUS
    <3>1. \A t \in Threads : Holds(t, n, "exclusive")' <=> Holds(t, n, "exclusive")
      BY <1>4, <1>7
    <3> QED
      BY <3>1, WriterIs, WriterIsNext
  <2>2. \A n \in Names : ReadersOf(n)' = IF n = g.name THEN ReadersOf(n) \cup {th} ELSE ReadersOf(n)
    BY <1>4, <1>7 DEF ReadersOf
  <2>3. /\ [n \in Names |-> WriterOf(n)]' = [n \in Names |-> WriterOf(n)]
        /\ [n \in Names |-> ReadersOf(n)]' =
              [[n \in Names |-> ReadersOf(n)] EXCEPT ![g.name] = ReadersOf(g.name) \cup {th}]
        /\ [n \in Names |-> WriterOf(n)][g.name] = NoThread
    BY <1>1, <1>6, <2>1, <2>2
  <2>4. Promise!acquire_shared(th, g.name)
    BY <1>1, <2>3 DEF Promise!acquire_shared, ReadersOf, WriterOf
  <2> QED
    BY <1>1, <2>4
<1>8. CASE g.mode = "exclusive"
  <2>1. \A n \in Names : ReadersOf(n)' = ReadersOf(n)
    BY <1>4, <1>8 DEF ReadersOf
  <2>2. ReadersOf(g.name) = {}
    <3>1. mutexes[table_locks[g.name]].readers = {}
      BY <1>g, <1>1, <1>8 DEF Fits
    <3> QED
      BY <1>1, <3>1 DEF ReadersOf, LocksInv, GuardInv
  <2>3. \A n \in Names : WriterOf(n)' = IF n = g.name THEN th ELSE WriterOf(n)
    <3> SUFFICES ASSUME NEW n \in Names
                 PROVE  WriterOf(n)' = IF n = g.name THEN th ELSE WriterOf(n)
      OBVIOUS
    <3>1. CASE n = g.name
      <4>1. Holds(th, n, "exclusive")'
        BY <1>4, <1>8, <3>1
      <4> QED
        BY <3>1, <4>1, WriterIsNext
    <3>2. CASE n # g.name
      <4>1. \A t \in Threads : Holds(t, n, "exclusive")' <=> Holds(t, n, "exclusive")
        BY <1>4, <3>2
      <4> QED
        BY <3>2, <4>1, WriterIs, WriterIsNext
    <3> QED
      BY <3>1, <3>2
  <2>4. /\ [n \in Names |-> ReadersOf(n)]' = [n \in Names |-> ReadersOf(n)]
        /\ [n \in Names |-> WriterOf(n)]' = [[n \in Names |-> WriterOf(n)] EXCEPT ![g.name] = th]
        /\ [n \in Names |-> WriterOf(n)][g.name] = NoThread
        /\ [n \in Names |-> ReadersOf(n)][g.name] = {}
    BY <1>1, <1>6, <2>1, <2>2, <2>3
  <2>5. Promise!acquire_exclusive(th, g.name)
    BY <2>4 DEF Promise!acquire_exclusive, ReadersOf, WriterOf
  <2> QED
    BY <1>1, <2>5
<1> QED
  BY <1>1, <1>7, <1>8

\* The destructor of a guard releases the lock of its name.
LEMMA ReleaseReleases ==
    ASSUME LocksInv, LocksInv', NEW th \in Threads, release_guard(th)
    PROVE  \E n \in Names : Promise!release_shared(th, n) \/ Promise!release_exclusive(th, n)
<1>1. /\ guards \in [Threads -> Seq(Guard)] /\ guards[th] # <<>> /\ Distinct(guards[th])
      /\ guards' = [guards EXCEPT ![th] = Front(guards[th])]
  BY DEF release_guard, LocksInv, LockManagerTypeOK, GuardInv, Distinct
<1>g. PICK g : g = guards[th][Len(guards[th])]
  OBVIOUS
<1>2. /\ g \in Guard /\ g.name \in Names /\ g.mode \in {"shared", "exclusive"}
      /\ g = [name |-> g.name, mode |-> g.mode]
  <2>1. g \in Guard
    BY <1>1, <1>g
  <2> QED
    BY <2>1 DEF Guard, Modes
<1>3. /\ \A t \in Threads \ {th} : \A n, m : Holds(t, n, m)' <=> Holds(t, n, m)
      /\ \A n, m : Holds(th, n, m)' <=> Holds(th, n, m) /\ g # [name |-> n, mode |-> m]
      /\ Holds(th, g.name, g.mode)
  BY <1>1, <1>2, <1>g, Popped
<1>4. \A t \in Threads : \A n, m :
         Holds(t, n, m)' <=> Holds(t, n, m) /\ ~(t = th /\ n = g.name /\ m = g.mode)
  <2>1. \A n, m : g = [name |-> n, mode |-> m] <=> n = g.name /\ m = g.mode
    BY <1>2
  <2> QED
    BY <1>3, <2>1
<1>5. CASE g.mode = "shared"
  <2>1. \A n \in Names : WriterOf(n)' = WriterOf(n)
    <3> SUFFICES ASSUME NEW n \in Names PROVE WriterOf(n)' = WriterOf(n)
      OBVIOUS
    <3>1. \A t \in Threads : Holds(t, n, "exclusive")' <=> Holds(t, n, "exclusive")
      BY <1>4, <1>5
    <3> QED
      BY <3>1, WriterIs, WriterIsNext
  <2>2. \A n \in Names : ReadersOf(n)' = IF n = g.name THEN ReadersOf(n) \ {th} ELSE ReadersOf(n)
    BY <1>4, <1>5 DEF ReadersOf
  <2>3. /\ [n \in Names |-> WriterOf(n)]' = [n \in Names |-> WriterOf(n)]
        /\ [n \in Names |-> ReadersOf(n)]' =
              [[n \in Names |-> ReadersOf(n)] EXCEPT ![g.name] = ReadersOf(g.name) \ {th}]
        /\ th \in [n \in Names |-> ReadersOf(n)][g.name]
    BY <1>2, <1>3, <1>5, <2>1, <2>2 DEF ReadersOf
  <2>4. Promise!release_shared(th, g.name)
    BY <1>2, <2>3 DEF Promise!release_shared, ReadersOf, WriterOf
  <2> QED
    BY <1>2, <2>4
<1>6. CASE g.mode = "exclusive"
  <2>1. \A n \in Names : ReadersOf(n)' = ReadersOf(n)
    BY <1>4, <1>6 DEF ReadersOf
  <2>2. WriterOf(g.name) = th
    BY <1>3, <1>6, WriterIs
  <2>3. \A n \in Names : WriterOf(n)' = IF n = g.name THEN NoThread ELSE WriterOf(n)
    <3> SUFFICES ASSUME NEW n \in Names
                 PROVE  WriterOf(n)' = IF n = g.name THEN NoThread ELSE WriterOf(n)
      OBVIOUS
    <3>1. CASE n = g.name
      <4>1. \A t \in Threads : ~Holds(t, n, "exclusive")'
        BY <1>4, <1>6, <2>2, <3>1, WriterIs
      <4> QED
        BY <3>1, <4>1, WriterIsNext
    <3>2. CASE n # g.name
      <4>1. \A t \in Threads : Holds(t, n, "exclusive")' <=> Holds(t, n, "exclusive")
        BY <1>4, <3>2
      <4> QED
        BY <3>2, <4>1, WriterIs, WriterIsNext
    <3> QED
      BY <3>1, <3>2
  <2>4. /\ [n \in Names |-> ReadersOf(n)]' = [n \in Names |-> ReadersOf(n)]
        /\ [n \in Names |-> WriterOf(n)]' =
              [[n \in Names |-> WriterOf(n)] EXCEPT ![g.name] = NoThread]
        /\ [n \in Names |-> WriterOf(n)][g.name] = th
    BY <1>2, <2>1, <2>2, <2>3
  <2>5. Promise!release_exclusive(th, g.name)
    BY <2>4 DEF Promise!release_exclusive, ReadersOf, WriterOf
  <2> QED
    BY <1>2, <2>5
<1> QED
  BY <1>2, <1>5, <1>6

\* The registry of mutexes implements one reader/writer lock per table name: a
\* guard is granted only beside the guards of its name that allow it, and its
\* destructor gives back exactly that hold.  This is the lock the model of the
\* server's handlers (MetadataServer) is written with.
THEOREM LocksAlwaysImplemented == ResourcesSpec => LocksImplemented
<1>1. ResourcesInit => Promise!LockInit
  <2> SUFFICES ASSUME ResourcesInit PROVE Promise!LockInit
    OBVIOUS
  <2>1. \A t \in Threads : \A n, m : ~Holds(t, n, m)
    BY DEF ResourcesInit, LockManagerInit, Holds
  <2> QED
    BY <2>1 DEF Promise!LockInit
<1>2. ResourcesInv /\ ResourcesInv' /\ [ResourcesNext]_resourceVars =>
         [Promise!LockNext]_Promise!lockVars
  <2> SUFFICES ASSUME ResourcesInv, ResourcesInv', [ResourcesNext]_resourceVars
               PROVE  [Promise!LockNext]_Promise!lockVars
    OBVIOUS
  <2>1. CASE UNCHANGED guards
    BY <2>1, LocksStutter
  <2>2. ASSUME NEW th \in Threads, lock_shared(th) \/ lock(th) \/ try_lock(th)
        PROVE  Promise!LockNext
    <3>1. PICK x \in Mutex : Fits(th, x)
      BY <2>2, LockGrants DEF ResourcesInv
    <3> QED
      BY <3>1, GrantAcquires DEF ResourcesInv, Promise!LockNext
  <2>3. ASSUME NEW th \in Threads, release_guard(th)
        PROVE  Promise!LockNext
    BY <2>3, ReleaseReleases DEF ResourcesInv, Promise!LockNext
  <2>4. ASSUME NEW th \in Threads, HandlerStep(th)
        PROVE  \/ UNCHANGED guards \/ release_guard(th)
               \/ lock_shared(th) \/ lock(th) \/ try_lock(th)
    BY <2>4 DEF HandlerStep, ThreadStep, Start, CallLock, CallAcquire, Free, Inside, Unlucky,
       Finish, Spurious, get_or_create, LockThrows, TryGivesUp, lockManagerVars
  <2> QED
    BY <2>1, <2>2, <2>3, <2>4 DEF ResourcesNext, ResourcesQuiet, HandlerStep, resourceVars,
       lockManagerVars
<1> QED
  BY <1>1, <1>2, ResourcesAlwaysInv, PTL DEF ResourcesSpec, LocksImplemented, Promise!LockSpec

=============================================================================
