-------------------------- MODULE CatalogManager ----------------------------
(***************************************************************************)
(* CatalogManager and SchemaStore: the operations on the table itself.     *)
(* A multi-statement transaction is one step, its COMMIT: the rows it      *)
(* changes are those of a table its thread has locked exclusively.         *)
(***************************************************************************)
EXTENDS ServerThreads

\* scoped_exclusive(req.name) on entry to a mutation.
LockForMutation(th, from, to) ==
    /\ At(th, from)
    /\ acquire_exclusive(th, Name(th))
    /\ Goto(th, to)
    /\ UNCHANGED <<dbVars, cache, localVars, poolVars, latest>>

\* scoped_shared(req.name) on entry to a query.
LockForQuery(th, from, to) ==
    /\ At(th, from)
    /\ acquire_shared(th, Name(th))
    /\ Goto(th, to)
    /\ UNCHANGED <<dbVars, cache, localVars, poolVars, latest>>

\* The statement or the transaction of th at label fails and changes nothing.
StatementFails(th, label) ==
    /\ At(th, label)
    /\ "statement" \in Faults
    /\ Outcome(th, "failed")
    /\ UNCHANGED <<tables, snapshots, partitions, schema_history,
                   snapshot_seq, partition_seq, lockVars, cache, latest,
                   req, snap, reported, rows, version>>

\* The statements at label succeed and COMMIT fails; its result is not looked at.
CommitLost(th, label) ==
    /\ At(th, label)
    /\ get_table(Name(th)) # {}
    /\ "commit" \in Faults
    /\ Outcome(th, "ok")
    /\ UNCHANGED <<dbVars, lockVars, cache, latest,
                   req, snap, reported, rows, version>>

-----------------------------------------------------------------------------
(* create_table *)

LockForCreate(th) == LockForMutation(th, "createTable", "create")

\* ON CONFLICT DO NOTHING has already drawn a table_id.
CreateTable(th) ==
    /\ At(th, "create")
    /\ acquire(th)
    /\ table_seq' = table_seq + 1
    /\ \/ /\ ~NameTaken(Name(th))
          /\ tables' = create_table(Name(th), req[th].schema)
          /\ Outcome(th, "ok")
       \/ /\ NameTaken(Name(th))
          /\ UNCHANGED tables
          /\ Outcome(th, "failed")
    /\ UNCHANGED <<snapshots, partitions, schema_history, snapshot_seq,
                   partition_seq, lockVars, cache, latest,
                   req, snap, reported, rows, version>>

CreateFails(th) ==
    /\ StatementFails(th, "create")
    /\ acquire(th)
    /\ table_seq' \in table_seq .. table_seq + 1

-----------------------------------------------------------------------------
(* get_table, called by GetTableMetadata *)

LockForGet(th) == LockForQuery(th, "getTable", "readTable")

\* The row, if there is one; the guards are released on return.
ReadTable(th) ==
    /\ At(th, "readTable")
    /\ acquire_briefly
    /\ release_all(th)
    /\ \/ /\ get_table(Name(th)) # {}
          /\ reported' = [reported EXCEPT ![th] = get_current_snapshot(Name(th))]
          /\ Goto(th, "pick")
          /\ UNCHANGED <<req, snap, rows, version, status>>
       \/ /\ get_table(Name(th)) = {} \/ "statement" \in Faults
          /\ Return(th)
    /\ UNCHANGED <<dbVars, cache, latest>>

-----------------------------------------------------------------------------
(* SchemaStore: get_current_schema and validate_schema_change *)

LockForSchema(th) == LockForQuery(th, "getCurrentSchema", "checkSchema")

validate_schema_change(proposed) == proposed # EmptySchema

\* A table that is not there is not an error here: alter_table_schema looks
\* again, under another lock.
CheckSchema(th) ==
    /\ At(th, "checkSchema")
    /\ acquire_briefly
    /\ release_all(th)
    /\ \/ /\ \/ get_table(Name(th)) = {}
             \/ "statement" \in Faults
             \/ validate_schema_change(req[th].schema)
          /\ Goto(th, "alterTable")
          /\ UNCHANGED localVars
       \/ /\ get_table(Name(th)) # {}
          /\ ~validate_schema_change(req[th].schema)
          /\ Return(th)
    /\ UNCHANGED <<dbVars, cache, latest>>

-----------------------------------------------------------------------------
(* alter_table_schema *)

\* Variant: a schema change takes the lock shared.
LockSharedForAlter(th) == LockForQuery(th, "alterTable", "readVersion")

LockForAlter(th) == LockForMutation(th, "alterTable", "readVersion")

ReadVersion(th) ==
    /\ At(th, "readVersion")
    /\ acquire(th)
    /\ \/ /\ version' \in {[version EXCEPT ![th] = t.schema_version + 1]
                             : t \in get_table(Name(th))}
          /\ Goto(th, "alter")
          /\ UNCHANGED status
       \/ /\ get_table(Name(th)) = {} \/ "statement" \in Faults
          /\ Outcome(th, "failed")
          /\ UNCHANGED version
    /\ UNCHANGED <<dbVars, lockVars, cache, latest, req, snap, reported, rows>>

AlterSchema(th) ==
    /\ At(th, "alter")
    /\ tables' = update_table_schema(Name(th), req[th].schema, version[th])
    /\ schema_history' = insert_schema_history(Name(th), req[th].schema, version[th])
    /\ Outcome(th, "ok")
    /\ UNCHANGED <<snapshots, partitions, seqVars, lockVars, cache, poolVars,
                   latest, req, snap, reported, rows, version>>

\* Variant: no transaction around the two statements; the second one fails.
AlterFailsHalfway(th) ==
    /\ At(th, "alter")
    /\ "statement" \in Faults
    /\ tables' = update_table_schema(Name(th), req[th].schema, version[th])
    /\ Outcome(th, "failed")
    /\ UNCHANGED <<snapshots, partitions, schema_history, seqVars, lockVars, cache,
                   poolVars, latest, req, snap, reported, rows, version>>

AlterFails(th) ==
    /\ StatementFails(th, "alter") \/ CommitLost(th, "alter")
    /\ UNCHANGED <<table_seq, poolVars>>

-----------------------------------------------------------------------------
(* rename_table *)

LockForRename(th) == LockForMutation(th, "renameTable", "lockNew")

LockNewName(th) ==
    /\ At(th, "lockNew")
    /\ req[th].to # Name(th)
    /\ acquire_exclusive(th, req[th].to)
    /\ Goto(th, "rename")
    /\ UNCHANGED <<dbVars, cache, localVars, poolVars, latest>>

\* Locking a std::shared_mutex its own thread holds is undefined; the pthread
\* implementation of libstdc++ throws resource_deadlock_would_occur, and the
\* exception leaves the handler.
LockSameName(th) ==
    /\ At(th, "lockNew")
    /\ req[th].to = Name(th)
    /\ release_all(th)
    /\ Return(th)
    /\ UNCHANGED <<dbVars, cache, poolVars, latest>>

\* The number of rows the UPDATE changed is not looked at.
RenameTable(th) ==
    /\ At(th, "rename")
    /\ acquire(th)
    /\ \/ /\ ~RenameConflict(Name(th), req[th].to)
          /\ tables' = rename_table(Name(th), req[th].to)
          /\ Outcome(th, "ok")
       \/ /\ RenameConflict(Name(th), req[th].to)
          /\ UNCHANGED tables
          /\ Outcome(th, "failed")
    /\ UNCHANGED <<snapshots, partitions, schema_history, seqVars, lockVars,
                   cache, latest, req, snap, reported, rows, version>>

RenameFails(th) ==
    /\ StatementFails(th, "rename")
    /\ acquire(th)
    /\ UNCHANGED table_seq

-----------------------------------------------------------------------------
(* drop_table *)

LockForDrop(th) == LockForMutation(th, "dropTable", "drop")

DropTable(th) ==
    LET n  == Name(th)
        id == get_table_id(n)
    IN  /\ At(th, "drop")
        /\ acquire(th)
        /\ \/ /\ get_table(n) # {} /\ req[th].purge
              /\ partitions' = DeleteFrom(partitions, id)
              /\ snapshots' = DeleteFrom(snapshots, id)
              /\ schema_history' = DeleteFrom(schema_history, id)
              /\ tables' = {r \in tables : r.table_name # n}
              /\ Outcome(th, "ok")
           \/ /\ get_table(n) # {} /\ ~req[th].purge
              /\ tables' = soft_delete_table(n)
              /\ UNCHANGED <<partitions, snapshots, schema_history>>
              /\ Outcome(th, "ok")
           \/ /\ get_table(n) = {}
              /\ UNCHANGED <<tables, partitions, snapshots, schema_history>>
              /\ Outcome(th, "failed")
        /\ UNCHANGED <<seqVars, lockVars, cache, latest,
                       req, snap, reported, rows, version>>

DropFails(th) ==
    /\ StatementFails(th, "drop") \/ CommitLost(th, "drop")
    /\ acquire(th)
    /\ UNCHANGED table_seq

=============================================================================
