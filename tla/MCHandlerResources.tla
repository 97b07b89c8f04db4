------------------------ MODULE MCHandlerResources --------------------------
(***************************************************************************)
(* The handlers of the server as sequences of calls.                       *)
(***************************************************************************)
EXTENDS HandlerResources

CONSTANTS A, B   \* table names

Lock(n, m)  == [do |-> "lock", guard |-> [name |-> n, mode |-> m]]
TryLock(n)  == [do |-> "poll", guard |-> [name |-> n, mode |-> "exclusive"]]
Acquire     == [do |-> "acquire"]
TryAcquire  == [do |-> "acquire_with_timeout"]
FreeHandle  == [do |-> "free"]

\* get_partitions on a cache miss at snapshot 0 takes two connections in turn.
GetPartitions(n) == <<Lock(n, "shared"), Acquire, FreeHandle, Acquire>>

\* commit_snapshot, create_table, alter_table_schema, drop_table
Mutation(n) == <<Lock(n, "exclusive"), Acquire>>

RenameTable(old, new) == <<Lock(old, "exclusive"), Lock(new, "exclusive"), Acquire>>

\* The timed calls of both classes, which only the tests make.
Timed(n) == <<TryLock(n), TryAcquire, FreeHandle>>

\* Readers and writers of A, a writer of B, and renames that hold A while they
\* wait for B or, in error, for A once more.
AllHandlers ==
    {GetPartitions(A), Timed(A), Mutation(B), RenameTable(A, B), RenameTable(A, A)}

=============================================================================
