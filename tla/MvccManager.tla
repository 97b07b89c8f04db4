---------------------------- MODULE MvccManager -----------------------------
(***************************************************************************)
(* MVCCManager: transaction ids, the commit counter and pinned snapshots.  *)
(*                                                                         *)
(* mutex_ protects the table of active transactions and the pins.  The two *)
(* atomics are outside it: begin_transaction draws its id and loads the    *)
(* commit counter before it locks, and commit_transaction moves the        *)
(* counter by compare-exchange while it holds the lock.                    *)
(***************************************************************************)
EXTENDS Integers, Sequences

CONSTANTS
    Threads,      \* threads that call the manager
    NoThread,     \* nobody
    TxnTimeout,   \* txn_timeout_, in ticks
    MaxTxns,      \* bound: transactions begun
    MaxTime       \* bound: ticks of the steady clock

ASSUME MvccAssumption ==
    /\ NoThread \notin Threads
    /\ TxnTimeout \in Nat /\ MaxTxns \in Nat /\ MaxTime \in Nat

VARIABLES
    next_txn_id,                \* next_txn_id_
    latest_committed_snapshot,  \* latest_committed_snapshot_
    active_transactions,        \* active_transactions_: id -> TransactionState
    pinned_snapshots,           \* pinned_snapshots_
    mutex,                      \* the thread that keeps mutex_ across steps
    now,                        \* steady_clock
    pc,                         \* pc[th]: next step of th
    txn,                        \* txn[th]: its txn_id
    read_snapshot,              \* read_snapshot[th]: local of begin_transaction
    new_snapshot,               \* new_snapshot[th]: local of commit_transaction
    current,                    \* current[th]: local of commit_transaction
    commit_log,                 \* history: the transaction that made snapshot i
    committed                   \* history: transactions told they committed

vars == <<next_txn_id, latest_committed_snapshot, active_transactions,
          pinned_snapshots, mutex, now, pc, txn, read_snapshot, new_snapshot,
          current, commit_log, committed>>

TransactionState == [read_snapshot_id : Nat, started_at : Nat]

TypeOK ==
    /\ next_txn_id \in Nat \ {0}
    /\ latest_committed_snapshot \in Nat
    /\ DOMAIN active_transactions \subseteq 1 .. next_txn_id - 1
    /\ active_transactions \in [DOMAIN active_transactions -> TransactionState]
    /\ pinned_snapshots \subseteq Nat
    /\ mutex \in Threads \cup {NoThread}
    /\ now \in Nat
    /\ pc \in [Threads -> {"idle", "load", "register", "again", "cas", "erase"}]
    /\ txn \in [Threads -> Nat]
    /\ read_snapshot \in [Threads -> Nat]
    /\ new_snapshot \in [Threads -> Nat]
    /\ current \in [Threads -> Nat]
    /\ commit_log \in Seq(Nat)
    /\ committed \subseteq Nat

Init ==
    /\ next_txn_id = 1
    /\ latest_committed_snapshot = 0
    /\ active_transactions = [id \in {} |-> {}]
    /\ pinned_snapshots = {}
    /\ mutex = NoThread
    /\ now = 0
    /\ pc = [th \in Threads |-> "idle"]
    /\ txn = [th \in Threads |-> 0]
    /\ read_snapshot = [th \in Threads |-> 0]
    /\ new_snapshot = [th \in Threads |-> 0]
    /\ current = [th \in Threads |-> 0]
    /\ commit_log = <<>>
    /\ committed = {}

-----------------------------------------------------------------------------
Goto(th, label) == pc' = [pc EXCEPT ![th] = label]

\* The call of th returns: its locals go out of scope.
Return(th) ==
    /\ Goto(th, "idle")
    /\ txn' = [txn EXCEPT ![th] = 0]
    /\ read_snapshot' = [read_snapshot EXCEPT ![th] = 0]
    /\ new_snapshot' = [new_snapshot EXCEPT ![th] = 0]
    /\ current' = [current EXCEPT ![th] = 0]

Active(id) == id \in DOMAIN active_transactions

\* txn_timeout_ is exceeded, not just reached.
Expired(id) == now - active_transactions[id].started_at > TxnTimeout

\* Variant: a transaction that ends leaves its pin.
EraseKeepingPins(S) ==
    /\ active_transactions' = [id \in DOMAIN active_transactions \ S |->
                                  active_transactions[id]]
    /\ UNCHANGED pinned_snapshots

\* Erases the transactions of S and the pins of their snapshots.  The pins are
\* a set: one erase unpins a snapshot however many transactions read it.
EraseTransactions(S) ==
    /\ active_transactions' = [id \in DOMAIN active_transactions \ S |->
                                  active_transactions[id]]
    /\ pinned_snapshots' = pinned_snapshots \
          {active_transactions[id].read_snapshot_id : id \in S}

-----------------------------------------------------------------------------
(* begin_transaction *)

\* Variant: the id is loaded, not drawn.
BeginWithoutDraw(th) ==
    /\ pc[th] = "idle"
    /\ next_txn_id <= MaxTxns
    /\ txn' = [txn EXCEPT ![th] = next_txn_id]
    /\ Goto(th, "load")
    /\ UNCHANGED <<next_txn_id, latest_committed_snapshot, active_transactions,
                   pinned_snapshots, mutex, now, read_snapshot, new_snapshot,
                   current, commit_log, committed>>

BeginDraw(th) ==
    /\ pc[th] = "idle"
    /\ next_txn_id <= MaxTxns
    /\ txn' = [txn EXCEPT ![th] = next_txn_id]
    /\ next_txn_id' = next_txn_id + 1
    /\ Goto(th, "load")
    /\ UNCHANGED <<latest_committed_snapshot, active_transactions,
                   pinned_snapshots, mutex, now, read_snapshot, new_snapshot,
                   current, commit_log, committed>>

\* Variant: a transaction reads the snapshot the next commit will make.
BeginLoadAhead(th) ==
    /\ pc[th] = "load"
    /\ read_snapshot' = [read_snapshot EXCEPT ![th] = latest_committed_snapshot + 1]
    /\ Goto(th, "register")
    /\ UNCHANGED <<next_txn_id, latest_committed_snapshot, active_transactions,
                   pinned_snapshots, mutex, now, txn, new_snapshot, current,
                   commit_log, committed>>

BeginLoad(th) ==
    /\ pc[th] = "load"
    /\ read_snapshot' = [read_snapshot EXCEPT ![th] = latest_committed_snapshot]
    /\ Goto(th, "register")
    /\ UNCHANGED <<next_txn_id, latest_committed_snapshot, active_transactions,
                   pinned_snapshots, mutex, now, txn, new_snapshot, current,
                   commit_log, committed>>

BeginRegister(th) ==
    /\ pc[th] = "register"
    /\ mutex = NoThread
    /\ active_transactions' =
          [id \in DOMAIN active_transactions \cup {txn[th]} |->
              IF id = txn[th]
                THEN [read_snapshot_id |-> read_snapshot[th], started_at |-> now]
                ELSE active_transactions[id]]
    /\ pinned_snapshots' = pinned_snapshots \cup {read_snapshot[th]}
    /\ Return(th)
    /\ UNCHANGED <<next_txn_id, latest_committed_snapshot, mutex, now,
                   commit_log, committed>>

-----------------------------------------------------------------------------
(* commit_transaction *)

\* The transaction is known but too old: it is erased and the client told so.
CommitExpired(th, id) ==
    /\ pc[th] = "idle"
    /\ mutex = NoThread
    /\ Active(id)
    /\ Expired(id)
    /\ EraseTransactions({id})
    /\ UNCHANGED <<next_txn_id, latest_committed_snapshot, mutex, now, pc, txn,
                   read_snapshot, new_snapshot, current, commit_log, committed>>

\* Variant: the + 1 is missing, so the loop never runs.
CommitFindSame(th, id) ==
    /\ pc[th] = "idle"
    /\ mutex = NoThread
    /\ Active(id)
    /\ ~Expired(id)
    /\ mutex' = th
    /\ txn' = [txn EXCEPT ![th] = id]
    /\ new_snapshot' = [new_snapshot EXCEPT ![th] = latest_committed_snapshot]
    /\ Goto(th, "again")
    /\ UNCHANGED <<next_txn_id, latest_committed_snapshot, active_transactions,
                   pinned_snapshots, now, read_snapshot, current, commit_log,
                   committed>>

\* Variant: the lock is let go once the transaction has been found.
CommitFindUnlocks(th, id) ==
    /\ pc[th] = "idle"
    /\ mutex = NoThread
    /\ Active(id)
    /\ ~Expired(id)
    /\ txn' = [txn EXCEPT ![th] = id]
    /\ new_snapshot' = [new_snapshot EXCEPT ![th] = latest_committed_snapshot + 1]
    /\ Goto(th, "again")
    /\ UNCHANGED <<next_txn_id, latest_committed_snapshot, active_transactions,
                   pinned_snapshots, mutex, now, read_snapshot, current,
                   commit_log, committed>>

\* Locks mutex_, finds the transaction and loads the counter a first time.
CommitFind(th, id) ==
    /\ pc[th] = "idle"
    /\ mutex = NoThread
    /\ Active(id)
    /\ ~Expired(id)
    /\ mutex' = th
    /\ txn' = [txn EXCEPT ![th] = id]
    /\ new_snapshot' = [new_snapshot EXCEPT ![th] = latest_committed_snapshot + 1]
    /\ Goto(th, "again")
    /\ UNCHANGED <<next_txn_id, latest_committed_snapshot, active_transactions,
                   pinned_snapshots, now, read_snapshot, current, commit_log,
                   committed>>

\* Loads it a second time and tests the loop condition.
CommitLoad(th) ==
    /\ pc[th] = "again"
    /\ current' = [current EXCEPT ![th] = latest_committed_snapshot]
    /\ Goto(th, IF latest_committed_snapshot < new_snapshot[th] THEN "cas" ELSE "erase")
    /\ UNCHANGED <<next_txn_id, latest_committed_snapshot, active_transactions,
                   pinned_snapshots, mutex, now, txn, read_snapshot,
                   new_snapshot, commit_log, committed>>

\* compare_exchange_weak succeeds.
CommitCas(th) ==
    /\ pc[th] = "cas"
    /\ latest_committed_snapshot = current[th]
    /\ latest_committed_snapshot' = new_snapshot[th]
    /\ commit_log' = Append(commit_log, txn[th])
    /\ Goto(th, "erase")
    /\ UNCHANGED <<next_txn_id, active_transactions, pinned_snapshots, mutex,
                   now, txn, read_snapshot, new_snapshot, current, committed>>

\* Variant: the retry expects the initial value again.
CommitCasForgets(th) ==
    /\ pc[th] = "cas"
    /\ current' = [current EXCEPT ![th] = 0]
    /\ new_snapshot' = [new_snapshot EXCEPT ![th] = latest_committed_snapshot + 1]
    /\ UNCHANGED <<next_txn_id, latest_committed_snapshot, active_transactions,
                   pinned_snapshots, mutex, now, pc, txn, read_snapshot,
                   commit_log, committed>>

\* It fails, because the counter has moved or spuriously, and reloads current;
\* current < current + 1, so the loop goes on.
CommitCasFails(th) ==
    /\ pc[th] = "cas"
    /\ current' = [current EXCEPT ![th] = latest_committed_snapshot]
    /\ new_snapshot' = [new_snapshot EXCEPT ![th] = latest_committed_snapshot + 1]
    /\ UNCHANGED <<next_txn_id, latest_committed_snapshot, active_transactions,
                   pinned_snapshots, mutex, now, pc, txn, read_snapshot,
                   commit_log, committed>>

CommitErase(th) ==
    /\ pc[th] = "erase"
    /\ EraseTransactions({txn[th]})
    /\ mutex' = NoThread
    /\ committed' = committed \cup {txn[th]}
    /\ Return(th)
    /\ UNCHANGED <<next_txn_id, latest_committed_snapshot, now, commit_log>>

-----------------------------------------------------------------------------
(* abort_transaction, cleanup_expired_transactions and the clock *)

Abort(th, id) ==
    /\ pc[th] = "idle"
    /\ mutex = NoThread
    /\ Active(id)
    /\ EraseTransactions({id})
    /\ UNCHANGED <<next_txn_id, latest_committed_snapshot, mutex, now, pc, txn,
                   read_snapshot, new_snapshot, current, commit_log, committed>>

CleanupExpired ==
    /\ mutex = NoThread
    /\ \E id \in DOMAIN active_transactions : Expired(id)
    /\ EraseTransactions({id \in DOMAIN active_transactions : Expired(id)})
    /\ UNCHANGED <<next_txn_id, latest_committed_snapshot, mutex, now, pc, txn,
                   read_snapshot, new_snapshot, current, commit_log, committed>>

Tick ==
    /\ now < MaxTime
    /\ now' = now + 1
    /\ UNCHANGED <<next_txn_id, latest_committed_snapshot, active_transactions,
                   pinned_snapshots, mutex, pc, txn, read_snapshot,
                   new_snapshot, current, commit_log, committed>>

\* Every transaction of the behaviour has begun and no call is in progress.
Quiet ==
    /\ next_txn_id > MaxTxns
    /\ \A th \in Threads : pc[th] = "idle"
    /\ UNCHANGED vars

-----------------------------------------------------------------------------
\* The next step of a call in progress.
Proceed(th) ==
    \/ BeginLoad(th) \/ BeginRegister(th)
    \/ CommitLoad(th) \/ CommitCas(th) \/ CommitCasFails(th) \/ CommitErase(th)

Next ==
    \/ \E th \in Threads :
          \/ BeginDraw(th)
          \/ Proceed(th)
          \/ \E id \in DOMAIN active_transactions :
                CommitExpired(th, id) \/ CommitFind(th, id) \/ Abort(th, id)
    \/ CleanupExpired
    \/ Tick
    \/ Quiet

Spec == Init /\ [][Next]_vars

-----------------------------------------------------------------------------
(* Properties *)

\* Snapshot numbers are handed out one per commit: the counter has moved once
\* for every transaction that was told it committed (and once for the one that
\* is just finishing), and no transaction moved it twice.  Begins and commits
\* on other threads, expiry and spurious compare-exchange failures do not
\* change that.
CommitsNumbered ==
    /\ Len(commit_log) = latest_committed_snapshot
    /\ {commit_log[i] : i \in DOMAIN commit_log} =
          committed \cup {txn[th] : th \in {t \in Threads : pc[t] = "erase"}}
    /\ \A i, j \in DOMAIN commit_log : commit_log[i] = commit_log[j] => i = j

\* A transaction reads the past: its snapshot was committed by the time it is
\* active, and it is not among the transactions that have ended.
ActiveReadsPast ==
    \A id \in DOMAIN active_transactions :
       /\ active_transactions[id].read_snapshot_id <= latest_committed_snapshot
       /\ id \notin committed

\* No pin outlives the transactions that read the snapshot: however
\* transactions end, what stays pinned is read by an active one.
NoStrayPins ==
    \A s \in pinned_snapshots : \E id \in DOMAIN active_transactions :
       active_transactions[id].read_snapshot_id = s

-----------------------------------------------------------------------------
(* The inductive invariant *)

Beginning(th) == pc[th] \in {"load", "register"}

Committing(th) == pc[th] \in {"again", "cas", "erase"}

\* The thread that keeps the mutex is the one inside commit_transaction, its
\* transaction is still registered, and nobody moved the counter under it.
MutexInv ==
    \A th \in Threads :
       /\ Committing(th) <=> mutex = th
       /\ Committing(th) => txn[th] \in DOMAIN active_transactions
       /\ pc[th] \in {"again", "cas"} => new_snapshot[th] = latest_committed_snapshot + 1
       /\ pc[th] = "cas" => current[th] = latest_committed_snapshot

\* A transaction that is being begun is new to everybody else.
BeginInv ==
    \A th \in Threads : Beginning(th) =>
       /\ txn[th] \in 1 .. next_txn_id - 1
       /\ txn[th] \notin DOMAIN active_transactions
       /\ txn[th] \notin committed
       /\ \A other \in Threads : Beginning(other) /\ txn[other] = txn[th] => other = th
       /\ pc[th] = "register" => read_snapshot[th] <= latest_committed_snapshot

Inv ==
    /\ TypeOK
    /\ MutexInv
    /\ BeginInv
    /\ committed \subseteq 1 .. next_txn_id - 1
    /\ CommitsNumbered
    /\ ActiveReadsPast
    /\ NoStrayPins

=============================================================================
