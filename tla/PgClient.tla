------------------------------ MODULE PgClient ------------------------------
(***************************************************************************)
(* The catalog database and the SQL that PgClient sends to it.             *)
(*                                                                         *)
(* The five relations are sets of rows (the transactions relation belongs  *)
(* to the transaction service).  Every operator below is one method of     *)
(* src/db/pg_client.cpp: a query is a set comprehension over the committed *)
(* rows, an UPDATE or INSERT is the new value of the relation.  A method   *)
(* that returns std::optional returns a set with at most one element.      *)
(*                                                                         *)
(* A BIGSERIAL column draws from a sequence.  PostgreSQL never returns a   *)
(* drawn number, not even on ROLLBACK, so the sequences are variables of   *)
(* their own.                                                              *)
(***************************************************************************)
EXTENDS CatalogBase, Integers, Sequences

CONSTANTS
    Keys,         \* partition keys
    Schemas,      \* schema documents
    EmptySchema,  \* a document validate_schema_change rejects: "{}"
    Preloaded     \* names of the tables present when the server starts

ASSUME PreloadedAssumption ==
    /\ Preloaded \in Seq(Names)
    /\ \A i, j \in DOMAIN Preloaded : Preloaded[i] = Preloaded[j] => i = j
ASSUME SchemaAssumption == EmptySchema \notin Schemas /\ Schemas # {}

VARIABLES
    tables,          \* relation tables
    snapshots,       \* relation snapshots
    partitions,      \* relation partitions
    schema_history,  \* relation schema_history
    table_seq,       \* last table_id drawn
    snapshot_seq,    \* last snapshot_id drawn
    partition_seq    \* last partition_id drawn

seqVars == <<table_seq, snapshot_seq, partition_seq>>
dbVars  == <<tables, snapshots, partitions, schema_history, seqVars>>

AnySchema == Schemas \cup {EmptySchema}

TableRow == [table_id : Nat, table_name : Names, schema : AnySchema,
             schema_version : Nat, current_snapshot_id : Nat,
             is_deleted : BOOLEAN]

SnapshotRow == [snapshot_id : Nat, table_id : Nat, parent_snapshot_id : Nat]

\* A stored partition row: the struct PartitionRow and the two deletion columns.
StoredRow == [partition_id : Nat, table_id : Nat, snapshot_id : Nat,
              partition_key : Keys, is_deleted : BOOLEAN,
              deleted_snapshot_id : Nat]

HistoryRow == [table_id : Nat, schema_version : Nat, schema : AnySchema]

\* The columns a partition query selects.
PartitionRow == [partition_id : Nat, table_id : Nat, snapshot_id : Nat,
                 partition_key : Keys]

DbTypeOK ==
    /\ tables \subseteq TableRow
    /\ snapshots \subseteq SnapshotRow
    /\ partitions \subseteq StoredRow
    /\ schema_history \subseteq HistoryRow
    /\ table_seq \in Nat
    /\ snapshot_seq \in Nat
    /\ partition_seq \in Nat

\* The constraints of scripts/init_db.sql and the sequences.
DbInv ==
    /\ \A t, u \in tables : t.table_name = u.table_name => t = u
    /\ \A t, u \in tables : t.table_id = u.table_id => t = u
    /\ \A t \in tables : t.table_id <= table_seq /\ t.current_snapshot_id <= snapshot_seq
    /\ \A a \in snapshots : a.table_id <= table_seq

NewTable(id, name, schema) ==
    [table_id |-> id, table_name |-> name, schema |-> schema,
     schema_version |-> 1, current_snapshot_id |-> 0, is_deleted |-> FALSE]

DbInit ==
    /\ \E s \in Schemas :
          tables = {NewTable(i, Preloaded[i], s) : i \in DOMAIN Preloaded}
    /\ snapshots = {}
    /\ partitions = {}
    /\ schema_history = {}
    /\ table_seq = Len(Preloaded)
    /\ snapshot_seq = 0
    /\ partition_seq = 0

-----------------------------------------------------------------------------
(* Queries *)

\* WHERE table_name = n AND is_deleted = false.  table_name is UNIQUE, so the
\* set has at most one row.
get_table(n) == {r \in tables : r.table_name = n /\ ~r.is_deleted}

get_table_id(n) ==
    IF get_table(n) = {} THEN -1 ELSE (CHOOSE r \in get_table(n) : TRUE).table_id

\* A missing table reads as snapshot 0, like a table with no snapshot.
get_current_snapshot(n) ==
    IF get_table(n) = {} THEN 0
    ELSE (CHOOSE r \in get_table(n) : TRUE).current_snapshot_id

\* Variant: a deleted partition is hidden from the snapshots before its deletion.
VisibleNow(p, s) == p.snapshot_id <= s /\ ~p.is_deleted

\* The visibility predicate of query_partitions.
Visible(p, s) ==
    /\ p.snapshot_id <= s
    /\ ~p.is_deleted \/ p.deleted_snapshot_id > s

Select(p) == [partition_id |-> p.partition_id, table_id |-> p.table_id,
              snapshot_id |-> p.snapshot_id, partition_key |-> p.partition_key]

\* The partitions of table id that a read at snapshot s returns.
View(id, s) ==
    {Select(p) : p \in {q \in partitions : q.table_id = id /\ Visible(q, s)}}

\* Callers check that the table exists: a missing one gives std::nullopt.
query_partitions(n, s) == View(get_table_id(n), s)

-----------------------------------------------------------------------------
(* Updates: the value of a relation after the statement *)

\* INSERT ... ON CONFLICT (table_name) DO NOTHING succeeds for a name no row
\* has: a soft-deleted row still holds its name.
NameTaken(n) == \E r \in tables : r.table_name = n

create_table(n, schema) == tables \cup {NewTable(table_seq + 1, n, schema)}

update_table_schema(n, schema, version) ==
    {IF r \in get_table(n)
       THEN [r EXCEPT !.schema = schema, !.schema_version = version] ELSE r
       : r \in tables}

\* The second statement of update_table_schema.
insert_schema_history(n, schema, version) ==
    schema_history \cup {[table_id |-> get_table_id(n), schema_version |-> version,
                          schema |-> schema]}

rename_table(old, new) ==
    {IF r \in get_table(old) THEN [r EXCEPT !.table_name = new] ELSE r
       : r \in tables}

\* The UPDATE of rename_table violates UNIQUE (table_name).
RenameConflict(old, new) == old # new /\ get_table(old) # {} /\ NameTaken(new)

soft_delete_table(n) ==
    {IF r \in get_table(n) THEN [r EXCEPT !.is_deleted = TRUE] ELSE r
       : r \in tables}

\* Variant: the pointer of the table is not moved.
update_table_snapshot_skipped(n, s) == tables

update_table_snapshot(n, s) ==
    {IF r \in get_table(n) THEN [r EXCEPT !.current_snapshot_id = s] ELSE r
       : r \in tables}

insert_snapshot(id, s, parent) ==
    snapshots \cup {[snapshot_id |-> s, table_id |-> id,
                     parent_snapshot_id |-> parent]}

\* The rows of one insert_partition per element of adds; partition ids are
\* drawn in order from base + 1.
insert_partitions(id, s, adds, base) ==
    partitions \cup
    {[partition_id |-> base + i, table_id |-> id, snapshot_id |-> s,
      partition_key |-> adds[i], is_deleted |-> FALSE,
      deleted_snapshot_id |-> 0] : i \in DOMAIN adds}

\* DELETE FROM rel WHERE table_id = id: what a purging drop_table runs on
\* partitions, snapshots, schema_history and, by name, on tables.
DeleteFrom(rel, id) == {r \in rel : r.table_id # id}

\* One mark_partition_deleted per key, over the rows the transaction sees.
mark_partitions_deleted(stored, id, dels, s) ==
    {IF p.table_id = id /\ p.partition_key \in dels /\ ~p.is_deleted
       THEN [p EXCEPT !.is_deleted = TRUE, !.deleted_snapshot_id = s] ELSE p
       : p \in stored}

=============================================================================
