------------------------- MODULE TransactionProofs --------------------------
(***************************************************************************)
(* Inv is an inductive invariant of MvccManager, with any number of        *)
(* threads, transactions and commits, and the service around the manager   *)
(* keeps it.  What the handlers tell their clients and write in the        *)
(* transactions relation follows from it.                                  *)
(***************************************************************************)
EXTENDS TransactionService, FiniteSetTheorems, TLAPS

\* The manager starts in a state that satisfies the invariant.
LEMMA InitInv == Init => Inv
<1> SUFFICES ASSUME Init PROVE Inv
  OBVIOUS
<1>1. TypeOK
  BY MvccAssumption DEF Init, TypeOK, TransactionState
<1>2. MutexInv /\ BeginInv
  BY MvccAssumption DEF Init, MutexInv, BeginInv, Committing, Beginning
<1>3. CommitsNumbered
  BY DEF Init, CommitsNumbered
<1>4. committed \subseteq 1 .. next_txn_id - 1 /\ ActiveReadsPast /\ NoStrayPins
  BY DEF Init, ActiveReadsPast, NoStrayPins
<1> QED
  BY <1>1, <1>2, <1>3, <1>4 DEF Inv

\* A step that leaves the log, the counter and the committing threads alone
\* leaves the numbering alone.
LEMMA NumberingStable ==
    ASSUME CommitsNumbered,
           UNCHANGED <<commit_log, latest_committed_snapshot, committed>>,
           \A t \in Threads : pc'[t] = "erase" <=> pc[t] = "erase",
           \A t \in Threads : pc[t] = "erase" => txn'[t] = txn[t]
    PROVE  CommitsNumbered'
<1>1. {t \in Threads : pc'[t] = "erase"} = {t \in Threads : pc[t] = "erase"}
  OBVIOUS
<1>2. {txn'[th] : th \in {t \in Threads : pc'[t] = "erase"}} =
      {txn[th] : th \in {t \in Threads : pc[t] = "erase"}}
  BY <1>1
<1> QED
  BY <1>2 DEF CommitsNumbered

\* Drawing an id: fetch_add makes it new to everybody.
LEMMA BeginDrawInv ==
    ASSUME Inv, NEW th \in Threads, BeginDraw(th) PROVE Inv'
<1> USE DEF Inv, BeginDraw, Goto
<1>1. TypeOK'
  <2>1. next_txn_id \in Nat \ {0} /\ next_txn_id' = next_txn_id + 1
    BY DEF TypeOK
  <2>2. 1 .. next_txn_id - 1 \subseteq 1 .. next_txn_id' - 1
    BY <2>1
  <2>3. (DOMAIN active_transactions \subseteq 1 .. next_txn_id - 1)'
    BY <2>2 DEF TypeOK
  <2>4. (pc \in [Threads -> {"idle", "load", "register", "again", "cas", "erase"}])'
    BY DEF TypeOK
  <2>5. (txn \in [Threads -> Nat])'
    BY <2>1 DEF TypeOK
  <2>6. UNCHANGED <<latest_committed_snapshot, active_transactions, pinned_snapshots, mutex,
                    now, read_snapshot, new_snapshot, current, commit_log, committed>>
    OBVIOUS
  <2>7. TypeOK /\ next_txn_id' \in Nat \ {0}
    BY <2>1
  <2> HIDE DEF Inv, BeginDraw, Goto
  <2> QED
    BY <2>3, <2>4, <2>5, <2>6, <2>7 DEF TypeOK
<1>2. MutexInv'
  BY DEF TypeOK, MutexInv, Committing
<1>3. BeginInv'
  <2>1. /\ txn'[th] = next_txn_id /\ next_txn_id \in Nat \ {0}
        /\ next_txn_id \notin DOMAIN active_transactions
        /\ next_txn_id \notin committed
        /\ ~Beginning(th) /\ Beginning(th)' /\ pc'[th] = "load"
    BY DEF TypeOK, Beginning
  <2>2. \A t \in Threads \ {th} :
           (Beginning(t)' <=> Beginning(t)) /\ txn'[t] = txn[t] /\ pc'[t] = pc[t]
    BY DEF TypeOK, Beginning
  <2>3. \A t \in Threads : Beginning(t) => txn[t] # next_txn_id
    BY <2>1 DEF BeginInv
  <2> QED
    BY <2>1, <2>2, <2>3 DEF BeginInv
<1>4. (committed \subseteq 1 .. next_txn_id - 1)'
  BY DEF TypeOK
<1>5. CommitsNumbered'
  BY NumberingStable DEF TypeOK
<1>6. ActiveReadsPast' /\ NoStrayPins'
  BY DEF ActiveReadsPast, NoStrayPins
<1> QED
  BY <1>1, <1>2, <1>3, <1>4, <1>5, <1>6 DEF Inv

\* Loading the counter outside the mutex: the value can only become older.
LEMMA BeginLoadInv ==
    ASSUME Inv, NEW th \in Threads, BeginLoad(th) PROVE Inv'
<1> USE DEF Inv, BeginLoad, Goto
<1>1. TypeOK'
  BY DEF TypeOK
<1>2. MutexInv'
  BY DEF TypeOK, MutexInv, Committing
<1>3. BeginInv'
  <2>1. \A t \in Threads : (Beginning(t)' <=> Beginning(t)) /\ txn'[t] = txn[t]
    BY DEF TypeOK, Beginning
  <2>2. read_snapshot'[th] <= latest_committed_snapshot
    BY DEF TypeOK
  <2>3. \A t \in Threads \ {th} : read_snapshot'[t] = read_snapshot[t] /\ pc'[t] = pc[t]
    BY DEF TypeOK
  <2> QED
    BY <2>1, <2>2, <2>3 DEF BeginInv
<1>4. (committed \subseteq 1 .. next_txn_id - 1)'
  BY DEF TypeOK
<1>5. CommitsNumbered'
  BY NumberingStable DEF TypeOK
<1>6. ActiveReadsPast' /\ NoStrayPins'
  BY DEF ActiveReadsPast, NoStrayPins
<1> QED
  BY <1>1, <1>2, <1>3, <1>4, <1>5, <1>6 DEF Inv

\* Registering the transaction and pinning its snapshot.
LEMMA BeginRegisterInv ==
    ASSUME Inv, NEW th \in Threads, BeginRegister(th) PROVE Inv'
<1> USE DEF Inv, BeginRegister, Goto, Return
<1> DEFINE A == DOMAIN active_transactions
<1>1. /\ txn[th] \in 1 .. next_txn_id - 1
      /\ txn[th] \notin A
      /\ txn[th] \notin committed
      /\ read_snapshot[th] \in Nat /\ read_snapshot[th] <= latest_committed_snapshot
  BY DEF BeginInv, Beginning, TypeOK
<1>2. /\ DOMAIN active_transactions' = A \cup {txn[th]}
      /\ \A id \in A : active_transactions'[id] = active_transactions[id]
      /\ active_transactions'[txn[th]] =
            [read_snapshot_id |-> read_snapshot[th], started_at |-> now]
  BY <1>1
<1>3. TypeOK'
  <2>1. active_transactions' \in [DOMAIN active_transactions' -> TransactionState]
    BY <1>1, <1>2 DEF TypeOK, TransactionState
  <2>2. DOMAIN active_transactions' \subseteq 1 .. next_txn_id' - 1
    BY <1>1, <1>2 DEF TypeOK
  <2> QED
    BY <1>1, <2>1, <2>2 DEF TypeOK
<1>4. MutexInv'
  BY <1>2, MvccAssumption DEF TypeOK, MutexInv, Committing
<1>5. BeginInv'
  BY <1>2 DEF TypeOK, BeginInv, Beginning
<1>6. (committed \subseteq 1 .. next_txn_id - 1)'
  BY DEF TypeOK
<1>7. CommitsNumbered'
  BY NumberingStable DEF TypeOK
<1>8. ActiveReadsPast' /\ NoStrayPins'
  BY <1>1, <1>2 DEF ActiveReadsPast, NoStrayPins
<1> QED
  BY <1>3, <1>4, <1>5, <1>6, <1>7, <1>8 DEF Inv

\* Erasing transactions while nobody is inside commit_transaction: what
\* CommitExpired, Abort and CleanupExpired have in common.
LEMMA EraseInv ==
    ASSUME Inv, NEW S \in SUBSET DOMAIN active_transactions,
           mutex = NoThread, EraseTransactions(S),
           UNCHANGED <<next_txn_id, latest_committed_snapshot, mutex, now, pc, txn,
                       read_snapshot, new_snapshot, current, commit_log, committed>>
    PROVE  Inv'
<1> USE DEF Inv, EraseTransactions
<1>1. /\ DOMAIN active_transactions' = DOMAIN active_transactions \ S
      /\ \A id \in DOMAIN active_transactions' :
            active_transactions'[id] = active_transactions[id]
  OBVIOUS
<1>2. TypeOK'
  BY <1>1 DEF TypeOK
<1>3. MutexInv'
  BY <1>1, MvccAssumption DEF MutexInv, Committing
<1>4. BeginInv'
  BY <1>1 DEF BeginInv, Beginning
<1>5. CommitsNumbered'
  BY NumberingStable
<1>6. ActiveReadsPast' /\ NoStrayPins'
  BY <1>1 DEF ActiveReadsPast, NoStrayPins
<1> QED
  BY <1>2, <1>3, <1>4, <1>5, <1>6 DEF Inv

\* Taking the mutex and finding the transaction.
LEMMA CommitFindInv ==
    ASSUME Inv, NEW th \in Threads, NEW id \in DOMAIN active_transactions,
           CommitFind(th, id)
    PROVE  Inv'
<1> USE DEF Inv, CommitFind, Goto
<1>0. TypeOK /\ id \in Nat /\ latest_committed_snapshot + 1 \in Nat
  <2>1. /\ DOMAIN active_transactions \subseteq 1 .. next_txn_id - 1
        /\ next_txn_id \in Nat /\ latest_committed_snapshot \in Nat
    BY DEF TypeOK
  <2> HIDE DEF CommitFind, Goto
  <2>2. id \in 1 .. next_txn_id - 1
    BY <2>1
  <2> QED
    BY <2>1, <2>2
<1>1. TypeOK'
  <2>1. /\ pc' \in [Threads -> {"idle", "load", "register", "again", "cas", "erase"}]
        /\ mutex' \in Threads \cup {NoThread}
    BY <1>0 DEF TypeOK
  <2>2. txn' \in [Threads -> Nat] /\ new_snapshot' \in [Threads -> Nat]
    BY <1>0 DEF TypeOK
  <2> QED
    BY <1>0, <2>1, <2>2 DEF TypeOK
<1>2. MutexInv'
  BY MvccAssumption DEF TypeOK, MutexInv, Committing
<1>3. BeginInv'
  BY DEF TypeOK, BeginInv, Beginning
<1>4. CommitsNumbered'
  <2>1. \A t \in Threads : pc[t] # "erase" /\ pc'[t] # "erase"
    BY MvccAssumption DEF TypeOK, MutexInv, Committing
  <2> QED
    BY <2>1, NumberingStable
<1>5. ActiveReadsPast' /\ NoStrayPins'
  BY DEF ActiveReadsPast, NoStrayPins
<1> QED
  BY <1>1, <1>2, <1>3, <1>4, <1>5 DEF Inv

\* Loading the counter again: the mutex has kept it where it was, so the loop
\* is always entered.
LEMMA CommitLoadInv ==
    ASSUME Inv, NEW th \in Threads, CommitLoad(th) PROVE Inv'
<1> USE DEF Inv, CommitLoad, Goto
<1>a. latest_committed_snapshot < new_snapshot[th]
  BY DEF TypeOK, MutexInv
<1>0. pc' = [pc EXCEPT ![th] = "cas"]
  BY <1>a
<1>1. TypeOK'
  BY <1>0 DEF TypeOK
<1>2. MutexInv'
  BY <1>0 DEF TypeOK, MutexInv, Committing
<1>3. BeginInv'
  BY <1>0 DEF TypeOK, BeginInv, Beginning
<1>4. CommitsNumbered'
  BY <1>0, NumberingStable DEF TypeOK
<1>5. ActiveReadsPast' /\ NoStrayPins'
  BY DEF ActiveReadsPast, NoStrayPins
<1> QED
  BY <1>0, <1>1, <1>2, <1>3, <1>4, <1>5 DEF Inv

\* The compare-exchange: the number it takes is the next one, and its
\* transaction has none yet.
LEMMA CommitCasInv ==
    ASSUME Inv, NEW th \in Threads, CommitCas(th) PROVE Inv'
<1> USE DEF Inv, CommitCas, Goto
<1>1. /\ latest_committed_snapshot' = latest_committed_snapshot + 1
      /\ latest_committed_snapshot \in Nat
      /\ mutex = th
      /\ txn[th] \in DOMAIN active_transactions
      /\ txn[th] \in Nat
  BY DEF TypeOK, MutexInv, Committing
<1>2. \A t \in Threads : t # th => ~Committing(t) /\ ~Committing(t)'
  BY <1>1 DEF TypeOK, MutexInv, Committing
<1>3. TypeOK'
  <2>1. latest_committed_snapshot' \in Nat
    BY <1>1
  <2>2. commit_log \in Seq(Nat) /\ commit_log' = Append(commit_log, txn[th])
    BY DEF TypeOK
  <2>3. commit_log' \in Seq(Nat)
    <3> HIDE DEF Inv, CommitCas, Goto
    <3> QED
      BY <1>1, <2>2
  <2>4. pc' \in [Threads -> {"idle", "load", "register", "again", "cas", "erase"}]
    BY DEF TypeOK
  <2> QED
    BY <2>1, <2>3, <2>4 DEF TypeOK
<1>4. MutexInv'
  BY <1>1, <1>2 DEF TypeOK, MutexInv, Committing
<1>5. BeginInv'
  BY <1>1 DEF TypeOK, BeginInv, Beginning
<1>6. CommitsNumbered'
  <2> DEFINE n == Len(commit_log)
  <2>1. /\ n \in Nat /\ Len(commit_log') = n + 1
        /\ DOMAIN commit_log = 1 .. n /\ DOMAIN commit_log' = 1 .. n + 1
        /\ \A i \in 1 .. n : commit_log'[i] = commit_log[i]
        /\ commit_log'[n + 1] = txn[th]
    BY <1>1 DEF TypeOK
  <2>2. {t \in Threads : pc[t] = "erase"} = {}
    BY <1>2 DEF Committing
  <2>3. {t \in Threads : pc'[t] = "erase"} = {th}
    BY <1>2 DEF Committing, TypeOK
  <2>4. {commit_log[i] : i \in DOMAIN commit_log} = committed
    BY <2>2 DEF CommitsNumbered
  <2>5. txn[th] \notin committed
    BY <1>1 DEF ActiveReadsPast
  <2>6. Len(commit_log') = latest_committed_snapshot'
    BY <1>1, <2>1 DEF CommitsNumbered
  <2>7. {commit_log'[i] : i \in DOMAIN commit_log'} = committed \cup {txn[th]}
    BY <2>1, <2>4
  <2>8. \A i, j \in DOMAIN commit_log' : commit_log'[i] = commit_log'[j] => i = j
    BY <2>1, <2>4, <2>5 DEF CommitsNumbered
  <2>9. {txn'[t] : t \in {u \in Threads : pc'[u] = "erase"}} = {txn[th]}
    BY <2>3
  <2>10. committed' = committed
    OBVIOUS
  <2> HIDE DEF CommitCas, Inv
  <2> QED
    BY <2>6, <2>7, <2>8, <2>9, <2>10 DEF CommitsNumbered
<1>7. ActiveReadsPast' /\ NoStrayPins'
  <2>1. UNCHANGED <<active_transactions, pinned_snapshots, committed>>
    OBVIOUS
  <2>2. \A id \in DOMAIN active_transactions :
           /\ active_transactions[id].read_snapshot_id \in Nat
           /\ active_transactions[id].read_snapshot_id <= latest_committed_snapshot
           /\ id \notin committed
    BY DEF ActiveReadsPast, TypeOK, TransactionState
  <2>3. NoStrayPins
    OBVIOUS
  <2> HIDE DEF Inv, CommitCas, Goto
  <2>4. \A id \in DOMAIN active_transactions :
           active_transactions[id].read_snapshot_id <= latest_committed_snapshot'
    BY <1>1, <2>2
  <2> QED
    BY <2>1, <2>2, <2>3, <2>4 DEF ActiveReadsPast, NoStrayPins
<1> QED
  BY <1>3, <1>4, <1>5, <1>6, <1>7 DEF Inv

\* A failed compare-exchange takes the loop round once more.
LEMMA CommitCasFailsInv ==
    ASSUME Inv, NEW th \in Threads, CommitCasFails(th) PROVE Inv'
<1> USE DEF Inv, CommitCasFails
<1>1. TypeOK'
  <2>1. /\ new_snapshot' \in [Threads -> Nat]
        /\ current' \in [Threads -> Nat]
    BY DEF TypeOK
  <2> QED
    BY <2>1 DEF TypeOK
<1>2. MutexInv'
  BY DEF TypeOK, MutexInv, Committing
<1>3. BeginInv'
  BY DEF TypeOK, BeginInv, Beginning
<1>4. CommitsNumbered'
  BY NumberingStable DEF TypeOK
<1>5. ActiveReadsPast' /\ NoStrayPins'
  BY DEF ActiveReadsPast, NoStrayPins
<1> QED
  BY <1>1, <1>2, <1>3, <1>4, <1>5 DEF Inv

\* Erasing the committed transaction and releasing the mutex.
LEMMA CommitEraseInv ==
    ASSUME Inv, NEW th \in Threads, CommitErase(th) PROVE Inv'
<1> USE DEF Inv, CommitErase, EraseTransactions, Goto, Return
<1>1. /\ mutex = th
      /\ txn[th] \in DOMAIN active_transactions
      /\ txn[th] \in 1 .. next_txn_id - 1
  BY DEF TypeOK, MutexInv, Committing
<1>2. \A t \in Threads : t # th => ~Committing(t) /\ ~Committing(t)'
  BY <1>1 DEF TypeOK, MutexInv, Committing
<1>3. /\ DOMAIN active_transactions' = DOMAIN active_transactions \ {txn[th]}
      /\ \A id \in DOMAIN active_transactions' :
            active_transactions'[id] = active_transactions[id]
  OBVIOUS
<1>4. TypeOK'
  BY <1>1, <1>3 DEF TypeOK
<1>5. MutexInv'
  BY <1>1, <1>2, MvccAssumption DEF TypeOK, MutexInv, Committing
<1>6. BeginInv'
  BY <1>1, <1>3 DEF TypeOK, BeginInv, Beginning
<1>7. (committed \subseteq 1 .. next_txn_id - 1)'
  BY <1>1
<1>8. CommitsNumbered'
  <2>1. {t \in Threads : pc[t] = "erase"} = {th}
    BY <1>2 DEF Committing
  <2>2. {t \in Threads : pc'[t] = "erase"} = {}
    BY <1>2 DEF Committing, TypeOK
  <2>3. {commit_log[i] : i \in DOMAIN commit_log} = committed \cup {txn[th]}
    BY <2>1 DEF CommitsNumbered
  <2> QED
    BY <2>2, <2>3 DEF CommitsNumbered
<1>9. ActiveReadsPast' /\ NoStrayPins'
  BY <1>1, <1>3 DEF ActiveReadsPast, NoStrayPins
<1> QED
  BY <1>4, <1>5, <1>6, <1>7, <1>8, <1>9 DEF Inv

\* Every step keeps the invariant.
LEMMA NextInv == Inv /\ [Next]_vars => Inv'
<1> SUFFICES ASSUME Inv, [Next]_vars PROVE Inv'
  OBVIOUS
<1>1. ASSUME NEW th \in Threads, BeginDraw(th) \/ Proceed(th) PROVE Inv'
  BY <1>1, BeginDrawInv, BeginLoadInv, BeginRegisterInv, CommitLoadInv,
     CommitCasInv, CommitCasFailsInv, CommitEraseInv DEF Proceed
<1>2. ASSUME NEW th \in Threads, NEW id \in DOMAIN active_transactions,
             CommitExpired(th, id) \/ Abort(th, id)
      PROVE  Inv'
  <2>1. {id} \in SUBSET DOMAIN active_transactions
    OBVIOUS
  <2> QED
    BY <1>2, <2>1, EraseInv DEF CommitExpired, Abort
<1>3. ASSUME NEW th \in Threads, NEW id \in DOMAIN active_transactions,
             CommitFind(th, id)
      PROVE  Inv'
  BY <1>3, CommitFindInv
<1>4. CASE CleanupExpired
  BY <1>4, EraseInv DEF CleanupExpired
<1>5. CASE Tick
  <2> USE <1>5 DEF Tick, Inv
  <2>1. TypeOK'
    BY DEF TypeOK
  <2>2. MutexInv' /\ BeginInv'
    BY DEF MutexInv, BeginInv, Committing, Beginning
  <2>3. CommitsNumbered'
    BY NumberingStable
  <2>4. ActiveReadsPast' /\ NoStrayPins'
    BY DEF ActiveReadsPast, NoStrayPins
  <2> QED
    BY <2>1, <2>2, <2>3, <2>4
<1>6. CASE UNCHANGED vars
  <2> USE <1>6 DEF vars, Inv
  <2>1. TypeOK'
    BY DEF TypeOK
  <2>2. MutexInv' /\ BeginInv'
    BY DEF MutexInv, BeginInv, Committing, Beginning
  <2>3. CommitsNumbered'
    BY NumberingStable
  <2>4. ActiveReadsPast' /\ NoStrayPins'
    BY DEF ActiveReadsPast, NoStrayPins
  <2> QED
    BY <2>1, <2>2, <2>3, <2>4
<1> QED
  BY <1>1, <1>2, <1>3, <1>4, <1>5, <1>6 DEF Next, Quiet

\* Whatever the interleaving of the atomics and the mutex of MVCCManager, its
\* invariant holds.
THEOREM MvccInvariant == Spec => []Inv
  BY InitInv, NextInv, PTL DEF Spec

\* Snapshot numbers are handed out one per committed transaction.
THEOREM CommitsNumberedAlways == Spec => []CommitsNumbered
<1>1. Inv => CommitsNumbered
  BY DEF Inv
<1> QED
  BY <1>1, MvccInvariant, PTL

\* Transactions read the past and end once.
THEOREM ActiveReadsPastAlways == Spec => []ActiveReadsPast
<1>1. Inv => ActiveReadsPast
  BY DEF Inv
<1> QED
  BY <1>1, MvccInvariant, PTL

\* No pin outlives its transactions.
THEOREM NoStrayPinsAlways == Spec => []NoStrayPins
<1>1. Inv => NoStrayPins
  BY DEF Inv
<1> QED
  BY <1>1, MvccInvariant, PTL

-----------------------------------------------------------------------------
(* The service around the manager *)

\* Every step of the service is a step of the manager, a stutter, or a new one.
LEMMA ServiceStep == [TxnNext]_txnVars => [Next]_vars \/ ManagerRestarts
<1> SUFFICES ASSUME [TxnNext]_txnVars PROVE [Next]_vars \/ ManagerRestarts
  OBVIOUS
<1>1. ASSUME NEW th \in Threads, BeginTransaction(th) PROVE [Next]_vars
  BY <1>1 DEF BeginTransaction, Next
<1>2. ASSUME NEW th \in Threads, Requested(th) PROVE [Next]_vars
  <2>1. PICK id \in begun : \/ CommitUnknown(th, id) \/ CommitTooLate(th, id)
                            \/ CommitTransaction(th, id) \/ AbortTransaction(th, id)
    BY <1>2 DEF Requested
  <2>2. CASE CommitUnknown(th, id)
    BY <2>2 DEF CommitUnknown, txnVars
  <2>3. CASE CommitTooLate(th, id)
    BY <2>3 DEF CommitTooLate, CommitExpired, Active, Next
  <2>4. CASE CommitTransaction(th, id)
    BY <2>4 DEF CommitTransaction, CommitFind, Active, Next
  <2>5. CASE AbortTransaction(th, id)
    BY <2>5 DEF AbortTransaction, Abort, Active, Next
  <2> QED
    BY <2>1, <2>2, <2>3, <2>4, <2>5
<1>3. ASSUME NEW th \in Threads, Continue(th) PROVE [Next]_vars
  <2>1. CASE Proceed(th)
    BY <2>1 DEF Next
  <2>2. CASE UNCHANGED vars
    BY <2>2
  <2> QED
    BY <1>3, <2>1, <2>2
       DEF Continue, Inside, BeginReturns, InsertTransaction, CommitReturns,
           MarkCommitted, MarkAborted, HandlerThrows, Proceed
<1>4. CASE RestartProcess
  BY <1>4 DEF RestartProcess
<1>5. CASE Background
  BY <1>5 DEF Background, Next
<1>6. CASE UNCHANGED txnVars
  BY <1>6 DEF txnVars
<1> QED
  BY <1>1, <1>2, <1>3, <1>4, <1>5, <1>6 DEF TxnNext, TxnQuiet

\* The manager's invariant holds under the handlers, across restarts: whatever
\* clients repeat or race, in every process of the service.
THEOREM ServiceKeepsManager == TxnSpec => []Inv
<1>1. TxnInit => Inv
  BY InitInv DEF TxnInit
<1>2. (Init => Inv)'
  BY InitInv, PTL
<1>3. ManagerRestarts => Init'
  BY DEF ManagerRestarts, Init
<1>4. Inv /\ [TxnNext]_txnVars => Inv'
  BY <1>2, <1>3, NextInv, ServiceStep
<1> QED
  BY <1>1, <1>4, PTL DEF TxnSpec

\* Types of the handlers' own state.
LEMMA ServiceTypes == Inv /\ TxnTypeOK /\ [TxnNext]_txnVars => TxnTypeOK'
<1> SUFFICES ASSUME Inv, TxnTypeOK, [TxnNext]_txnVars PROVE TxnTypeOK'
  OBVIOUS
<1> USE DEF TxnTypeOK, Calls, Serve, Answer, Fails, EndUncommitted, rowVars, histVars
<1>1. (\A th \in Threads : txn[th] \in Nat) /\ DOMAIN active_transactions \subseteq Nat
  BY DEF Inv, TypeOK
<1>2. ASSUME NEW th \in Threads, BeginTransaction(th) PROVE TxnTypeOK'
  BY <1>2 DEF BeginTransaction
<1>3. ASSUME NEW th \in Threads, Requested(th) PROVE TxnTypeOK'
  BY <1>1, <1>3 DEF Requested, CommitUnknown, CommitTooLate, CommitTransaction,
                    AbortTransaction, txnVars
<1>4. ASSUME NEW th \in Threads, Continue(th) PROVE TxnTypeOK'
  <2>1. CASE InsertTransaction(th)
    <3>1. txn_seq' \in Nat /\ failures' \in Nat
      BY <2>1 DEF InsertTransaction
    <3>2. [txn_id |-> txn_seq + 1, status |-> "active"] \in TransactionRow
      BY DEF TransactionRow
    <3>3. transactions' \subseteq TransactionRow
      BY <2>1, <3>2 DEF InsertTransaction
    <3> QED
      BY <2>1, <3>1, <3>3 DEF InsertTransaction
  <2>2. CASE MarkCommitted(th)
    BY <2>2 DEF MarkCommitted, UpdateStatus, TransactionRow
  <2>3. CASE MarkAborted(th)
    BY <2>3 DEF MarkAborted, UpdateStatus, TransactionRow
  <2>4. CASE BeginReturns(th)
    BY <2>4, <1>1 DEF BeginReturns
  <2>5. CASE CommitReturns(th)
    BY <2>5 DEF CommitReturns
  <2>6. CASE HandlerThrows(th)
    BY <2>6 DEF HandlerThrows
  <2> QED
    BY <1>4, <2>1, <2>2, <2>3, <2>4, <2>5, <2>6 DEF Continue, Inside
<1>5. CASE RestartProcess
  BY <1>5 DEF RestartProcess
<1>6. CASE Background
  BY <1>1, <1>6 DEF Background
<1>7. CASE UNCHANGED txnVars
  BY <1>7 DEF txnVars
<1> QED
  BY <1>2, <1>3, <1>4, <1>5, <1>6, <1>7 DEF TxnNext, TxnQuiet

\* A row is marked committed by a handler whose commit is behind it, and only
\* BeginTransaction adds rows.
LEMMA RowsStep == Inv /\ TxnInv /\ [TxnNext]_txnVars => TxnInv'
<1> SUFFICES ASSUME Inv, TxnInv, [TxnNext]_txnVars PROVE TxnInv'
  OBVIOUS
<1>0. TxnTypeOK'
  BY ServiceTypes DEF TxnInv
<1>t. /\ TxnTypeOK /\ txn \in [Threads -> Nat] /\ MarkInv /\ RowInv /\ RowsFollowCommits
      /\ txn_seq \in Nat /\ call \in [Threads -> Calls] /\ target \in [Threads -> Nat]
  BY DEF Inv, TypeOK, TxnInv, TxnTypeOK
<1> HIDE DEF TxnInv
<1> USE DEF MarkInv, RowInv, RowsFollowCommits, Serve, Answer, rowVars, histVars
<1>1. ASSUME NEW th \in Threads, BeginTransaction(th) PROVE TxnInv'
  BY <1>0, <1>t, <1>1 DEF BeginTransaction, BeginDraw, TxnInv
<1>2. ASSUME NEW th \in Threads, Requested(th) PROVE TxnInv'
  <2>1. PICK id \in begun : \/ CommitUnknown(th, id) \/ CommitTooLate(th, id)
                            \/ CommitTransaction(th, id) \/ AbortTransaction(th, id)
    BY <1>2 DEF Requested
  <2>2. CASE CommitUnknown(th, id)
    BY <1>0, <1>t, <2>2 DEF CommitUnknown, txnVars, vars, TxnInv
  <2>3. CASE CommitTooLate(th, id)
    BY <1>0, <1>t, <2>3 DEF CommitTooLate, CommitExpired, TxnInv
  <2>4. CASE CommitTransaction(th, id)
    BY <1>0, <1>t, <2>4 DEF CommitTransaction, CommitFind, TxnInv
  <2>5. CASE AbortTransaction(th, id)
    BY <1>0, <1>t, <2>5 DEF AbortTransaction, Abort, vars, TxnInv
  <2> QED
    BY <2>1, <2>2, <2>3, <2>4, <2>5
<1>3. ASSUME NEW th \in Threads, Continue(th) PROVE TxnInv'
  <2>1. CASE InsertTransaction(th)
    <3>1. MarkInv'
      BY <1>t, <2>1 DEF InsertTransaction, vars
    <3>2. /\ txn_seq' \in Nat /\ txn_seq' >= txn_seq /\ UNCHANGED committed
          /\ \/ UNCHANGED <<transactions, in_step>>
             \/ /\ txn_seq' = txn_seq + 1
                /\ transactions' = transactions \cup
                      {[txn_id |-> txn_seq + 1, status |-> "active"]}
                /\ in_step' \subseteq in_step \cup {txn_seq + 1}
      BY <1>t, <2>1 DEF InsertTransaction, vars
    <3>3. \A r \in transactions : r.txn_id \in Nat /\ r.txn_id <= txn_seq
      BY <1>t DEF TxnTypeOK, TransactionRow
    <3>4. RowInv'
      BY <1>t, <3>2, <3>3
    <3>5. RowsFollowCommits'
      BY <1>t, <3>2, <3>3
    <3> QED
      BY <1>0, <3>1, <3>4, <3>5 DEF TxnInv
  <2>2. CASE MarkCommitted(th)
    BY <1>0, <1>t, <2>2 DEF MarkCommitted, UpdateStatus, TxnTypeOK, TransactionRow, vars, TxnInv
  <2>3. CASE MarkAborted(th)
    BY <1>0, <1>t, <2>3 DEF MarkAborted, UpdateStatus, TxnTypeOK, TransactionRow, vars, TxnInv
  <2>4. CASE BeginReturns(th)
    BY <1>0, <1>t, <2>4 DEF BeginReturns, BeginRegister, Return, TxnInv
  <2>5. CASE CommitReturns(th)
    BY <1>0, <1>t, <2>5 DEF CommitReturns, CommitErase, Return, TxnInv
  <2>6. CASE HandlerThrows(th)
    BY <1>0, <1>t, <2>6 DEF HandlerThrows, vars, TxnInv
  <2>7. CASE \/ Inside(th, "begin", BeginLoad(th))  \/ Inside(th, "commit", CommitLoad(th))
             \/ Inside(th, "commit", CommitCas(th)) \/ Inside(th, "commit", CommitCasFails(th))
    BY <1>0, <1>t, <2>7 DEF Inside, BeginLoad, CommitLoad, CommitCas, CommitCasFails, TxnInv
  <2> QED
    BY <1>3, <2>1, <2>2, <2>3, <2>4, <2>5, <2>6, <2>7 DEF Continue
<1>4. CASE RestartProcess
  BY <1>0, <1>t, <1>4 DEF RestartProcess, TxnInv
<1>5. CASE Background
  BY <1>0, <1>t, <1>5 DEF Background, Tick, CleanupExpired, TxnInv
<1>6. CASE UNCHANGED txnVars
  BY <1>0, <1>t, <1>6 DEF txnVars, vars, TxnInv
<1> QED
  BY <1>1, <1>2, <1>3, <1>4, <1>5, <1>6 DEF TxnNext, TxnQuiet

\* A row that has the number of its transaction says "committed" only of one the
\* process has committed, with any number of threads and transactions, whatever
\* fails and however often the server is restarted.
THEOREM RowsFollowCommitsAlways == TxnSpec => []RowsFollowCommits
<1>1. TxnInit => TxnInv
  BY DEF TxnInit, TxnInv, TxnTypeOK, MarkInv, RowInv, RowsFollowCommits, Calls, TransactionRow
<1>2. TxnInv => RowsFollowCommits
  BY DEF TxnInv
<1> QED
  BY <1>1, <1>2, RowsStep, ServiceKeepsManager, PTL DEF TxnSpec

\* Under the handlers too snapshot numbers are handed out one per commit, and no
\* number twice in one process.
THEOREM ServiceCommitsNumbered == TxnSpec => []CommitsNumbered
<1>1. Inv => CommitsNumbered
  BY DEF Inv
<1> QED
  BY <1>1, ServiceKeepsManager, PTL

\* A transaction begun by BeginTransaction reads a snapshot committed before it.
THEOREM ServiceReadsPast == TxnSpec => []ActiveReadsPast
<1>1. Inv => ActiveReadsPast
  BY DEF Inv
<1> QED
  BY <1>1, ServiceKeepsManager, PTL

\* However a handler ends a transaction, no pin outlives its readers.
THEOREM ServiceNoStrayPins == TxnSpec => []NoStrayPins
<1>1. Inv => NoStrayPins
  BY DEF Inv
<1> QED
  BY <1>1, ServiceKeepsManager, PTL

-----------------------------------------------------------------------------
(* Transactions that end uncommitted *)

\* While nobody keeps the mutex, a transaction in the table has no number.
LEMMA ActiveUnnumbered ==
    ASSUME Inv, mutex = NoThread, NEW id \in DOMAIN active_transactions,
           NEW i \in DOMAIN commit_log
    PROVE  commit_log[i] # id
<1>1. {t \in Threads : pc[t] = "erase"} = {}
  BY MvccAssumption DEF Inv, MutexInv, Committing
<1>2. {commit_log[j] : j \in DOMAIN commit_log} = committed
  BY <1>1 DEF Inv, CommitsNumbered
<1>3. id \notin committed
  BY DEF Inv, ActiveReadsPast
<1> QED
  BY <1>2, <1>3

\* A step that takes transactions out of the table uncommitted, under the mutex.
LEMMA EndingStep ==
    ASSUME Inv, EndInv, EndUncommitted, mutex = NoThread,
           DOMAIN active_transactions' \subseteq DOMAIN active_transactions,
           UNCHANGED <<next_txn_id, pc, txn, commit_log>>
    PROVE  EndInv'
<1>1. /\ DOMAIN active_transactions \subseteq 1 .. next_txn_id - 1
      /\ \A th \in Threads : Beginning(th) => txn[th] \notin DOMAIN active_transactions
  BY DEF Inv, TypeOK, BeginInv
<1>2. (ended \subseteq 1 .. next_txn_id - 1)'
  BY <1>1 DEF EndInv, EndUncommitted
<1>3. (ended \cap DOMAIN active_transactions = {})'
  BY DEF EndInv, EndUncommitted
<1>4. (\A th \in Threads : Beginning(th) => txn[th] \notin ended)'
  BY <1>1 DEF EndInv, EndUncommitted, Beginning
<1>5. EndedNeverCommits'
  <2> SUFFICES ASSUME NEW i \in DOMAIN commit_log PROVE commit_log[i] \notin ended'
    BY DEF EndedNeverCommits
  <2>1. commit_log[i] \notin ended
    BY DEF EndInv, EndedNeverCommits
  <2>2. commit_log[i] \notin DOMAIN active_transactions
    BY ActiveUnnumbered
  <2> QED
    BY <2>1, <2>2 DEF EndUncommitted
<1> QED
  BY <1>2, <1>3, <1>4, <1>5 DEF EndInv

\* EndInv is inductive beside the invariant of the manager.
LEMMA EndStep == Inv /\ EndInv /\ [TxnNext]_txnVars => EndInv'
<1> SUFFICES ASSUME Inv, EndInv, [TxnNext]_txnVars PROVE EndInv'
  OBVIOUS
<1>t. /\ pc \in [Threads -> {"idle", "load", "register", "again", "cas", "erase"}]
      /\ txn \in [Threads -> Nat] /\ commit_log \in Seq(Nat) /\ next_txn_id \in Nat
      /\ DOMAIN active_transactions \subseteq 1 .. next_txn_id - 1
  BY DEF Inv, TypeOK
<1>e. /\ ended \subseteq 1 .. next_txn_id - 1
      /\ ended \cap DOMAIN active_transactions = {}
      /\ \A th \in Threads : Beginning(th) => txn[th] \notin ended
      /\ \A i \in DOMAIN commit_log : commit_log[i] \notin ended
  BY DEF EndInv, EndedNeverCommits
<1> USE DEF Beginning, Goto, histVars
<1>1. ASSUME NEW th \in Threads, BeginTransaction(th) PROVE EndInv'
  <2>1. /\ next_txn_id' = next_txn_id + 1 /\ txn' = [txn EXCEPT ![th] = next_txn_id]
        /\ pc' = [pc EXCEPT ![th] = "load"]
        /\ UNCHANGED <<ended, active_transactions, commit_log>>
    BY <1>1 DEF BeginTransaction, BeginDraw
  <2>2. next_txn_id \notin ended /\ ended \subseteq 1 .. next_txn_id' - 1
    BY <1>t, <1>e, <2>1
  <2>3. (\A t \in Threads : Beginning(t) => txn[t] \notin ended)'
    BY <1>t, <1>e, <2>1, <2>2
  <2> QED
    BY <1>e, <2>1, <2>2, <2>3 DEF EndInv, EndedNeverCommits
<1>2. ASSUME NEW th \in Threads, Requested(th) PROVE EndInv'
  <2>1. PICK id \in begun : \/ CommitUnknown(th, id) \/ CommitTooLate(th, id)
                            \/ CommitTransaction(th, id) \/ AbortTransaction(th, id)
    BY <1>2 DEF Requested
  <2>2. CASE CommitUnknown(th, id)
    BY <2>2 DEF CommitUnknown, txnVars, vars, EndInv, EndedNeverCommits
  <2>3. CASE CommitTooLate(th, id)
    BY <2>3, EndingStep DEF CommitTooLate, CommitExpired, EraseTransactions
  <2>4. CASE CommitTransaction(th, id)
    <3>1. /\ UNCHANGED <<next_txn_id, active_transactions, ended, commit_log>>
          /\ txn' = [txn EXCEPT ![th] = id] /\ pc' = [pc EXCEPT ![th] = "again"]
      BY <2>4 DEF CommitTransaction, CommitFind
    <3>2. (\A t \in Threads : Beginning(t) => txn[t] \notin ended)'
      BY <1>t, <1>e, <3>1
    <3> QED
      BY <1>e, <3>1, <3>2 DEF EndInv, EndedNeverCommits
  <2>5. CASE AbortTransaction(th, id)
    BY <2>5, EndingStep DEF AbortTransaction, Abort, EraseTransactions, vars
  <2> QED
    BY <2>1, <2>2, <2>3, <2>4, <2>5
<1>3. ASSUME NEW th \in Threads, Continue(th) PROVE EndInv'
  <2>1. CASE BeginReturns(th)
    <3>1. /\ UNCHANGED <<next_txn_id, ended, commit_log>> /\ pc[th] = "register"
          /\ DOMAIN active_transactions' = DOMAIN active_transactions \cup {txn[th]}
          /\ txn' = [txn EXCEPT ![th] = 0] /\ pc' = [pc EXCEPT ![th] = "idle"]
      BY <2>1 DEF BeginReturns, BeginRegister, Return
    <3>2. ended \cap DOMAIN active_transactions' = {}
      BY <1>e, <3>1
    <3>3. (\A t \in Threads : Beginning(t) => txn[t] \notin ended)'
      BY <1>t, <1>e, <3>1
    <3> QED
      BY <1>e, <3>1, <3>2, <3>3 DEF EndInv, EndedNeverCommits
  <2>2. CASE Inside(th, "commit", CommitCas(th))
    <3>1. /\ UNCHANGED <<next_txn_id, active_transactions, txn, ended>>
          /\ pc[th] = "cas" /\ pc' = [pc EXCEPT ![th] = "erase"]
          /\ commit_log' = Append(commit_log, txn[th])
      BY <2>2 DEF Inside, CommitCas
    <3>2. txn[th] \in DOMAIN active_transactions
      BY <3>1 DEF Inv, MutexInv, Committing
    <3>3. \A i \in DOMAIN commit_log' :
             commit_log'[i] = txn[th] \/ \E j \in DOMAIN commit_log : commit_log'[i] = commit_log[j]
      BY <1>t, <3>1
    <3>4. EndedNeverCommits'
      BY <1>e, <3>1, <3>2, <3>3 DEF EndedNeverCommits
    <3>5. (\A t \in Threads : Beginning(t) => txn[t] \notin ended)'
      BY <1>t, <1>e, <3>1
    <3> QED
      BY <1>e, <3>1, <3>4, <3>5 DEF EndInv
  <2>3. CASE CommitReturns(th)
    <3>1. /\ UNCHANGED <<next_txn_id, ended, commit_log>>
          /\ DOMAIN active_transactions' \subseteq DOMAIN active_transactions
          /\ txn' = [txn EXCEPT ![th] = 0] /\ pc' = [pc EXCEPT ![th] = "idle"]
      BY <2>3 DEF CommitReturns, CommitErase, EraseTransactions, Return
    <3>2. (\A t \in Threads : Beginning(t) => txn[t] \notin ended)'
      BY <1>t, <1>e, <3>1
    <3> QED
      BY <1>e, <3>1, <3>2 DEF EndInv, EndedNeverCommits
  <2>4. CASE InsertTransaction(th) \/ MarkCommitted(th) \/ MarkAborted(th) \/ HandlerThrows(th)
    <3>1. UNCHANGED <<next_txn_id, active_transactions, txn, pc, ended, commit_log>>
      BY <2>4 DEF InsertTransaction, MarkCommitted, MarkAborted, HandlerThrows, vars
    <3> QED
      BY <1>e, <3>1 DEF EndInv, EndedNeverCommits
  <2>5. CASE \/ Inside(th, "begin", BeginLoad(th))  \/ Inside(th, "commit", CommitLoad(th))
             \/ Inside(th, "commit", CommitCasFails(th))
    <3>1. /\ UNCHANGED <<next_txn_id, active_transactions, txn, ended, commit_log>>
          /\ \A t \in Threads : Beginning(t)' => Beginning(t)
      BY <1>t, <2>5 DEF Inside, BeginLoad, CommitLoad, CommitCasFails
    <3> QED
      BY <1>e, <3>1 DEF EndInv, EndedNeverCommits
  <2> QED
    BY <1>3, <2>1, <2>2, <2>3, <2>4, <2>5 DEF Continue
<1>4. CASE RestartProcess
  BY <1>4 DEF RestartProcess, ManagerRestarts, EndInv, EndedNeverCommits
<1>5. CASE Background
  <2>1. CASE Tick
    <3>1. /\ UNCHANGED <<next_txn_id, active_transactions, txn, pc, commit_log>>
          /\ ended' = ended
      BY <1>5, <2>1 DEF Background, Tick, EndUncommitted
    <3> QED
      BY <1>e, <3>1 DEF EndInv, EndedNeverCommits
  <2>2. CASE CleanupExpired
    BY <1>5, <2>2, EndingStep DEF Background, CleanupExpired, EraseTransactions
  <2> QED
    BY <1>5, <2>1, <2>2 DEF Background
<1>6. CASE UNCHANGED txnVars
  BY <1>6 DEF txnVars, vars, EndInv, EndedNeverCommits
<1> QED
  BY <1>1, <1>2, <1>3, <1>4, <1>5, <1>6 DEF TxnNext, TxnQuiet

\* No transaction that was aborted, timed out or was cleaned up gets a commit
\* number afterwards, however calls for it race: commit_transaction holds the
\* mutex from the lookup to the compare-exchange, and an id is drawn once.
THEOREM EndedNeverCommitsAlways == TxnSpec => []EndedNeverCommits
<1>1. TxnInit => EndInv
  BY DEF TxnInit, Init, EndInv, EndedNeverCommits
<1>2. EndInv => EndedNeverCommits
  BY DEF EndInv
<1> QED
  BY <1>1, <1>2, EndStep, ServiceKeepsManager, PTL DEF TxnSpec


-----------------------------------------------------------------------------
(* Acknowledgements *)

\* What a step may do to the commits that are made and not yet acknowledged.
KeepsAcks ==
    UNCHANGED <<Unanswered, acks, latest_committed_snapshot>>

AddsCommit(th) ==
    /\ Unanswered' = Unanswered \cup {th}
    /\ latest_committed_snapshot' = latest_committed_snapshot + 1
    /\ UNCHANGED acks

AnswersCommit(th) ==
    /\ th \in Unanswered
    /\ Unanswered' = Unanswered \ {th}
    /\ acks' \in {acks, acks + 1}
    /\ UNCHANGED latest_committed_snapshot

ForgetsAcks ==
    Unanswered' = {} /\ acks' = 0 /\ latest_committed_snapshot' = 0

\* A handler and the manager's code inside it go together, and one step adds
\* one commit, by the compare-exchange, or answers one.
LEMMA AckEffect ==
    ASSUME Inv, TxnTypeOK, CallInv, [TxnNext]_txnVars
    PROVE  /\ CallInv'
           /\ \/ KeepsAcks \/ ForgetsAcks
              \/ \E th \in Threads : AddsCommit(th) \/ AnswersCommit(th)
<1>0. /\ pc \in [Threads -> {"idle", "load", "register", "again", "cas", "erase"}]
      /\ call \in [Threads -> Calls] /\ latest_committed_snapshot \in Nat
      /\ MutexInv
  BY DEF Inv, TypeOK, TxnTypeOK
<1> USE <1>0 DEF CallInv, Unanswered, KeepsAcks, Beginning, Committing, Calls, Goto,
    Return, Serve, Answer, rowVars, histVars, vars
<1>1. ASSUME NEW th \in Threads, BeginTransaction(th) PROVE CallInv' /\ KeepsAcks
  BY <1>1 DEF BeginTransaction, BeginDraw
<1>2. ASSUME NEW th \in Threads, Requested(th) PROVE CallInv' /\ KeepsAcks
  <2>1. PICK id \in begun : \/ CommitUnknown(th, id) \/ CommitTooLate(th, id)
                            \/ CommitTransaction(th, id) \/ AbortTransaction(th, id)
    BY <1>2 DEF Requested
  <2>2. CASE CommitUnknown(th, id)
    BY <2>2 DEF CommitUnknown, txnVars
  <2>3. CASE CommitTooLate(th, id)
    BY <2>3 DEF CommitTooLate, CommitExpired
  <2>4. CASE CommitTransaction(th, id)
    BY <2>4 DEF CommitTransaction, CommitFind
  <2>5. CASE AbortTransaction(th, id)
    BY <2>5 DEF AbortTransaction, Abort
  <2> QED
    BY <2>1, <2>2, <2>3, <2>4, <2>5
<1>3. ASSUME NEW th \in Threads, Continue(th)
      PROVE  CallInv' /\ (KeepsAcks \/ AddsCommit(th) \/ AnswersCommit(th))
  <2>1. CASE Inside(th, "begin", BeginLoad(th))
    BY <2>1 DEF Inside, BeginLoad
  <2>2. CASE BeginReturns(th)
    BY <2>2 DEF BeginReturns, BeginRegister
  <2>3. CASE InsertTransaction(th)
    BY <2>3 DEF InsertTransaction
  <2>4. CASE Inside(th, "commit", CommitLoad(th))
    <3>1. pc[th] = "again" /\ latest_committed_snapshot < new_snapshot[th]
      BY <2>4 DEF Inside, CommitLoad, MutexInv
    <3>2. pc' = [pc EXCEPT ![th] = "cas"]
      BY <2>4, <3>1 DEF Inside, CommitLoad
    <3> QED
      BY <2>4, <3>1, <3>2 DEF Inside, CommitLoad
  <2>5. CASE Inside(th, "commit", CommitCas(th))
    <3>1. latest_committed_snapshot' = latest_committed_snapshot + 1
      BY <2>5 DEF Inside, CommitCas, MutexInv
    <3>2. pc[th] = "cas" /\ pc' = [pc EXCEPT ![th] = "erase"] /\ UNCHANGED <<call, acks>>
      BY <2>5 DEF Inside, CommitCas
    <3>3. CallInv'
      BY <2>5, <3>2 DEF Inside
    <3>4. Unanswered' = Unanswered \cup {th}
      BY <3>2
    <3> QED
      BY <3>1, <3>2, <3>3, <3>4 DEF AddsCommit
  <2>6. CASE Inside(th, "commit", CommitCasFails(th))
    BY <2>6 DEF Inside, CommitCasFails
  <2>7. CASE CommitReturns(th)
    BY <2>7 DEF CommitReturns, CommitErase
  <2>8. CASE MarkCommitted(th)
    BY <2>8 DEF MarkCommitted, AnswersCommit
  <2>9. CASE MarkAborted(th)
    BY <2>9 DEF MarkAborted
  <2>10. CASE HandlerThrows(th)
    BY <2>10 DEF HandlerThrows, AnswersCommit
  <2> QED
    BY <1>3, <2>1, <2>2, <2>3, <2>4, <2>5, <2>6, <2>7, <2>8, <2>9, <2>10 DEF Continue
<1>4. CASE RestartProcess
  BY <1>4 DEF RestartProcess, ManagerRestarts, ForgetsAcks
<1>5. CASE Background
  BY <1>5 DEF Background, Tick, CleanupExpired
<1>6. CASE UNCHANGED txnVars
  BY <1>6 DEF txnVars
<1> QED
  BY <1>1, <1>2, <1>3, <1>4, <1>5, <1>6 DEF TxnNext, TxnQuiet

\* AckInv is inductive beside the invariant of the manager.
LEMMA AckNext == Inv /\ TxnTypeOK /\ AckInv /\ [TxnNext]_txnVars => AckInv'
<1> SUFFICES ASSUME Inv, TxnTypeOK, AckInv, [TxnNext]_txnVars PROVE AckInv'
  OBVIOUS
<1>0. /\ CallInv /\ IsFiniteSet(Unanswered) /\ Cardinality(Unanswered) \in Nat
      /\ acks \in Nat /\ latest_committed_snapshot \in Nat
      /\ acks + Cardinality(Unanswered) <= latest_committed_snapshot
  BY FS_CardinalityType DEF AckInv, AcksAreCommits, Inv, TypeOK, TxnTypeOK
<1>1. CallInv'
  BY <1>0, AckEffect
<1>2. IsFiniteSet(Unanswered)' /\ AcksAreCommits'
  <2>1. CASE KeepsAcks
    BY <1>0, <2>1 DEF KeepsAcks, AcksAreCommits
  <2>2. CASE ForgetsAcks
    BY <2>2, FS_EmptySet DEF ForgetsAcks, AcksAreCommits
  <2>3. ASSUME NEW th \in Threads, AddsCommit(th)
        PROVE  IsFiniteSet(Unanswered)' /\ AcksAreCommits'
    <3>1. /\ IsFiniteSet(Unanswered \cup {th}) /\ Cardinality(Unanswered \cup {th}) \in Nat
          /\ Cardinality(Unanswered \cup {th}) <= Cardinality(Unanswered) + 1
      <4>1. /\ IsFiniteSet(Unanswered \cup {th})
            /\ Cardinality(Unanswered \cup {th}) =
                  IF th \in Unanswered THEN Cardinality(Unanswered)
                                      ELSE Cardinality(Unanswered) + 1
        BY <1>0, FS_AddElement
      <4> QED
        BY <1>0, <4>1
    <3> QED
      BY <1>0, <2>3, <3>1 DEF AddsCommit, AcksAreCommits
  <2>4. ASSUME NEW th \in Threads, AnswersCommit(th)
        PROVE  IsFiniteSet(Unanswered)' /\ AcksAreCommits'
    <3>1. /\ IsFiniteSet(Unanswered \ {th})
          /\ Cardinality(Unanswered \ {th}) = Cardinality(Unanswered) - 1
      BY <1>0, <2>4, FS_RemoveElement DEF AnswersCommit
    <3> QED
      BY <1>0, <2>4, <3>1 DEF AnswersCommit, AcksAreCommits
  <2> QED
    BY <1>0, <2>1, <2>2, <2>3, <2>4, AckEffect
<1> QED
  BY <1>1, <1>2 DEF AckInv

\* No process acknowledges more commits than its manager has made, with any
\* number of threads and transactions: neither a repeated or raced request, nor
\* a failing statement or connection, makes one commit count twice.
THEOREM AcksAreCommitsAlways == TxnSpec => []AcksAreCommits
<1>1. TxnInit => TxnTypeOK /\ AckInv
  <2> SUFFICES ASSUME TxnInit PROVE TxnTypeOK /\ AckInv
    OBVIOUS
  <2>1. TxnTypeOK
    BY DEF TxnInit, TxnTypeOK, Calls
  <2>2. CallInv /\ Unanswered = {} /\ acks = 0 /\ latest_committed_snapshot = 0
    BY DEF TxnInit, Init, CallInv, Unanswered
  <2> QED
    BY <2>1, <2>2, FS_EmptySet DEF AckInv, AcksAreCommits
<1>2. AckInv => AcksAreCommits
  BY DEF AckInv
<1> QED
  BY <1>1, <1>2, ServiceTypes, AckNext, ServiceKeepsManager, PTL DEF TxnSpec

\* Types are kept by the manager, in every process.
THEOREM ServiceTypesAlways == TxnSpec => []TypeOK
<1>1. Inv => TypeOK
  BY DEF Inv
<1> QED
  BY <1>1, ServiceKeepsManager, PTL

=============================================================================
