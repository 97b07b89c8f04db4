------------------------- MODULE TransactionService -------------------------
(***************************************************************************)
(* BeginTransaction, CommitTransaction and AbortTransaction: the handlers  *)
(* around MVCCManager, the transactions relation they record their work    *)
(* in, and restarts of the process.                                        *)
(*                                                                         *)
(* A transaction has two numbers.  The client is told the in-memory one,   *)
(* which starts at 1 in every process; the row gets another one from the   *)
(* sequence of the relation, which nobody looks at.  CommitTransaction and *)
(* AbortTransaction use the in-memory number to find the row.              *)
(*                                                                         *)
(* Client id, isolation level and read snapshot of a row are columns no    *)
(* property looks at; the connection pool is left out.                     *)
(***************************************************************************)
EXTENDS MvccManager, FiniteSets

CONSTANTS
    Faults,        \* failures considered, see TxnFaultKinds
    MaxFaults      \* bound: failures in one behaviour

\* statement: INSERT or UPDATE fails.  connect: acquire throws.  crash: the
\* process dies and is restarted.
TxnFaultKinds == {"statement", "connect", "crash"}

ASSUME TxnAssumption == Faults \subseteq TxnFaultKinds /\ MaxFaults \in Nat

VARIABLES
    transactions,  \* relation transactions: rows [txn_id, status]
    txn_seq,       \* last row id drawn
    call,          \* call[th]: the handler th runs, and where it is
    target,        \* target[th]: the transaction id of its request or answer
    begun,         \* history: ids any process has told a client
    acks,          \* history: commits acknowledged by this process
    in_step,       \* history: rows of this process that have the number their
                   \* transaction has in memory
    ended,         \* history: transactions this process ended uncommitted
    failures       \* failures so far

rowVars  == <<transactions, txn_seq>>
histVars == <<begun, acks, in_step, ended>>
txnVars  == <<vars, rowVars, call, target, histVars, failures>>

TransactionRow == [txn_id : Nat, status : {"active", "committed", "aborted"}]

Calls == {"none", "begin", "insert", "commit", "markCommitted", "markAborted"}

TxnTypeOK ==
    /\ transactions \subseteq TransactionRow
    /\ txn_seq \in Nat
    /\ call \in [Threads -> Calls]
    /\ target \in [Threads -> Nat]
    /\ acks \in Nat
    /\ begun \subseteq Nat
    /\ in_step \subseteq Nat
    /\ ended \subseteq Nat
    /\ failures \in Nat

TxnInit ==
    /\ Init
    /\ transactions = {} /\ txn_seq = 0
    /\ call = [th \in Threads |-> "none"]
    /\ target = [th \in Threads |-> 0]
    /\ begun = {} /\ acks = 0 /\ in_step = {} /\ ended = {}
    /\ failures = 0

-----------------------------------------------------------------------------
\* th turns to step c of a handler that works on transaction id.
Serve(th, c, id) ==
    /\ call' = [call EXCEPT ![th] = c]
    /\ target' = [target EXCEPT ![th] = id]

Answer(th) == Serve(th, "none", 0)

\* The transactions that leave the manager's table here leave it uncommitted.
EndUncommitted ==
    ended' = ended \cup (DOMAIN active_transactions \ DOMAIN active_transactions')

\* The next step of the manager's code inside a handler.
Inside(th, c, step) ==
    /\ call[th] = c
    /\ step
    /\ UNCHANGED <<call, target, rowVars, histVars, failures>>

\* A failure of the given kind happens.
Fails(kind) ==
    /\ kind \in Faults
    /\ failures < MaxFaults
    /\ failures' = failures + 1

\* update_transaction_status; the UPDATE may find no row and may fail, and its
\* result is not looked at.
UpdateStatus(id, status) ==
    \/ /\ transactions' = {IF r.txn_id = id THEN [r EXCEPT !.status = status] ELSE r
                             : r \in transactions}
       /\ UNCHANGED failures
    \/ Fails("statement") /\ UNCHANGED transactions

\* acquire throws and the exception ends the handler: the client gets an error.
HandlerThrows(th) ==
    /\ call[th] \in {"insert", "markCommitted", "markAborted"}
    /\ Fails("connect")
    /\ Answer(th)
    /\ UNCHANGED <<vars, rowVars, histVars>>

-----------------------------------------------------------------------------
(* BeginTransaction *)

BeginTransaction(th) ==
    /\ call[th] = "none"
    /\ BeginDraw(th)
    /\ Serve(th, "begin", 0)
    /\ UNCHANGED <<rowVars, histVars, failures>>

BeginReturns(th) ==
    /\ call[th] = "begin"
    /\ BeginRegister(th)
    /\ Serve(th, "insert", txn[th])
    /\ UNCHANGED <<rowVars, histVars, failures>>

\* insert_transaction; its answer, the row's id, is not looked at.
InsertTransaction(th) ==
    /\ call[th] = "insert"
    /\ \/ /\ txn_seq' = txn_seq + 1
          /\ transactions' = transactions \cup
                {[txn_id |-> txn_seq + 1, status |-> "active"]}
          /\ in_step' = in_step \cup ({txn_seq + 1} \cap {target[th]})
          /\ UNCHANGED failures
       \/ /\ Fails("statement")
          /\ txn_seq' \in txn_seq .. txn_seq + 1
          /\ UNCHANGED <<transactions, in_step>>
    /\ begun' = begun \cup {target[th]}
    /\ Answer(th)
    /\ UNCHANGED <<vars, acks, ended>>

-----------------------------------------------------------------------------
(* CommitTransaction(id) *)

\* Variant: a transaction that is not there any more counts as committed.
CommitUnknownSucceeds(th, id) ==
    /\ call[th] = "none"
    /\ mutex = NoThread /\ ~Active(id)
    /\ Serve(th, "markCommitted", id)
    /\ UNCHANGED <<vars, rowVars, histVars, failures>>

\* Not found: the client is told "not found or expired", nothing changes.
CommitUnknown(th, id) ==
    /\ call[th] = "none"
    /\ mutex = NoThread /\ ~Active(id)
    /\ UNCHANGED txnVars

CommitTooLate(th, id) ==
    /\ call[th] = "none"
    /\ CommitExpired(th, id)
    /\ EndUncommitted
    /\ UNCHANGED <<rowVars, call, target, begun, acks, in_step, failures>>

CommitTransaction(th, id) ==
    /\ call[th] = "none"
    /\ CommitFind(th, id)
    /\ Serve(th, "commit", id)
    /\ UNCHANGED <<rowVars, histVars, failures>>

CommitReturns(th) ==
    /\ call[th] = "commit"
    /\ CommitErase(th)
    /\ Serve(th, "markCommitted", target[th])
    /\ UNCHANGED <<rowVars, histVars, failures>>

MarkCommitted(th) ==
    /\ call[th] = "markCommitted"
    /\ UpdateStatus(target[th], "committed")
    /\ Answer(th)
    /\ acks' = acks + 1
    /\ UNCHANGED <<vars, txn_seq, begun, in_step, ended>>

-----------------------------------------------------------------------------
(* AbortTransaction(id) *)

\* The manager says nothing of a transaction it does not know, and the handler
\* goes on to the row all the same.
AbortTransaction(th, id) ==
    /\ call[th] = "none"
    /\ \/ Abort(th, id)
       \/ mutex = NoThread /\ ~Active(id) /\ UNCHANGED vars
    /\ EndUncommitted
    /\ Serve(th, "markAborted", id)
    /\ UNCHANGED <<rowVars, begun, acks, in_step, failures>>

\* Variant: the status of the handler above it.
MarkAbortedCommitted(th) ==
    /\ call[th] = "markAborted"
    /\ UpdateStatus(target[th], "committed")
    /\ Answer(th)
    /\ UNCHANGED <<vars, txn_seq, histVars>>

MarkAborted(th) ==
    /\ call[th] = "markAborted"
    /\ UpdateStatus(target[th], "aborted")
    /\ Answer(th)
    /\ UNCHANGED <<vars, txn_seq, histVars>>

-----------------------------------------------------------------------------
(* The environment *)

\* The manager of a new process: Init once more.
ManagerRestarts ==
    /\ next_txn_id' = 1
    /\ latest_committed_snapshot' = 0
    /\ active_transactions' = [id \in {} |-> {}]
    /\ pinned_snapshots' = {}
    /\ mutex' = NoThread
    /\ now' = 0
    /\ pc' = [th \in Threads |-> "idle"]
    /\ txn' = [th \in Threads |-> 0]
    /\ read_snapshot' = [th \in Threads |-> 0]
    /\ new_snapshot' = [th \in Threads |-> 0]
    /\ current' = [th \in Threads |-> 0]
    /\ commit_log' = <<>>
    /\ committed' = {}

\* A new process: the manager starts anew, the relation and the clients stay.
RestartProcess ==
    /\ Fails("crash")
    /\ ManagerRestarts
    /\ call' = [th \in Threads |-> "none"]
    /\ target' = [th \in Threads |-> 0]
    /\ acks' = 0 /\ in_step' = {} /\ ended' = {}
    /\ UNCHANGED <<rowVars, begun>>

\* The clock, and the cleanup main.cpp defines a loop for.
Background ==
    /\ Tick \/ CleanupExpired
    /\ EndUncommitted
    /\ UNCHANGED <<rowVars, call, target, begun, acks, in_step, failures>>

TxnQuiet == Quiet /\ UNCHANGED txnVars

-----------------------------------------------------------------------------
\* A handler in progress.
Continue(th) ==
    \/ Inside(th, "begin", BeginLoad(th))  \/ BeginReturns(th)
    \/ InsertTransaction(th)
    \/ Inside(th, "commit", CommitLoad(th)) \/ Inside(th, "commit", CommitCas(th))
    \/ Inside(th, "commit", CommitCasFails(th))
    \/ CommitReturns(th) \/ MarkCommitted(th)
    \/ MarkAborted(th)
    \/ HandlerThrows(th)

\* A client uses an id some process gave it, this one or one before.
Requested(th) ==
    \E id \in begun :
       \/ CommitUnknown(th, id) \/ CommitTooLate(th, id)
       \/ CommitTransaction(th, id) \/ AbortTransaction(th, id)

TxnNext ==
    \/ \E th \in Threads : BeginTransaction(th) \/ Requested(th) \/ Continue(th)
    \/ RestartProcess
    \/ Background
    \/ TxnQuiet

TxnSpec == TxnInit /\ [][TxnNext]_txnVars

\* Every handler in progress goes on, and a compare-exchange that keeps being
\* tried does not fail spuriously forever.
TxnFairSpec ==
    /\ TxnSpec
    /\ \A th \in Threads : WF_txnVars(Continue(th)) /\
                           SF_txnVars(Inside(th, "commit", CommitCas(th)))

-----------------------------------------------------------------------------
(* Properties *)

\* The threads whose commit is made and not yet acknowledged.
Unanswered == {th \in Threads : call[th] = "markCommitted" \/ pc[th] = "erase"}

\* A commit that is acknowledged is one the manager made: the replies of this
\* process that said "committed", and the handlers about to say so, are never
\* more than the snapshot numbers handed out, however clients repeat a commit
\* that timed out or race it with another call.
AcksAreCommits == acks + Cardinality(Unanswered) <= latest_committed_snapshot

\* What a transaction's row says of it, as far as the code gets it right: a row
\* that has the number of its transaction says "committed" only if this process
\* has committed that transaction, whatever other calls and failures there are.
\* Rows out of step (of a process before this one, or after an INSERT that failed
\* or overtook another) get the status of some other transaction.
RowsFollowCommits ==
    \A r \in transactions :
       r.txn_id \in in_step /\ r.status = "committed" => r.txn_id \in committed

\* The end of a transaction is final: once AbortTransaction, its time-out or the
\* cleanup has taken it out of the table it never gets a commit number, though
\* commit_transaction looks it up well before it moves the counter, and though
\* clients go on using its id.
EndedNeverCommits == \A i \in DOMAIN commit_log : commit_log[i] \notin ended

\* Every handler comes to an end: nobody keeps the manager's mutex forever.
HandlersReturn == \A th \in Threads : call[th] # "none" ~> call[th] = "none"

-----------------------------------------------------------------------------
(* The inductive invariant, beside that of the manager *)

\* A handler that commits works for its own request, and one that is about to
\* mark a row committed has the commit behind it.
MarkInv ==
    \A th \in Threads :
       /\ call[th] = "commit" => target[th] = txn[th]
       /\ call[th] = "markCommitted" => target[th] \in committed

\* The next row is a new one.
RowInv == \A r \in transactions : r.txn_id <= txn_seq

TxnInv == TxnTypeOK /\ MarkInv /\ RowInv /\ RowsFollowCommits

\* A transaction that ended has its id from this process, and is neither active
\* nor still to become so.
EndInv ==
    /\ ended \subseteq 1 .. next_txn_id - 1
    /\ ended \cap DOMAIN active_transactions = {}
    /\ \A th \in Threads : Beginning(th) => txn[th] \notin ended
    /\ EndedNeverCommits

\* A thread is inside the manager only for the handler that called it.
CallInv ==
    \A th \in Threads :
       \/ pc[th] = "idle" /\ call[th] \notin {"begin", "commit"}
       \/ Beginning(th) /\ call[th] = "begin"
       \/ Committing(th) /\ call[th] = "commit"

AckInv == CallInv /\ IsFiniteSet(Unanswered) /\ AcksAreCommits

=============================================================================
