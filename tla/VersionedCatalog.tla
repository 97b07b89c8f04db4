-------------------------- MODULE VersionedCatalog --------------------------
(***************************************************************************)
(* What the metadata server promises: a catalog of tables, each with a     *)
(* schema, its numbered versions, and a line of immutable snapshots.       *)
(* Operations are atomic here; locks, caches, connections, threads and     *)
(* failures are MetadataServer's affair.                                   *)
(***************************************************************************)
EXTENDS Integers

VARIABLE catalog   \* function from table ids to tables

\* A table:  name, dropped (it keeps its name, and nothing else happens to it),
\* schema and version, schemas (pairs of a version and its schema, from version 2
\* on), current (its snapshot, 0 for none) and log, a function from its snapshots
\* to their parent and partitions.

Ids == DOMAIN catalog

\* Table id changes from t to u, the others stay.
Change(id, u) == catalog' = [catalog EXCEPT ![id] = u]

NameFree(name) == \A id \in Ids : catalog[id].name # name

EmptyTable(t) ==
    /\ t.version = 1 /\ t.schemas = {}
    /\ t.current = 0 /\ DOMAIN t.log = {}
    /\ ~t.dropped

CatalogInit ==
    /\ \A id \in Ids : EmptyTable(catalog[id])
    /\ \A i, j \in Ids : catalog[i].name = catalog[j].name => i = j

-----------------------------------------------------------------------------
Create ==
    \E id \in DOMAIN catalog' \ Ids :
       LET u == catalog'[id] IN
       /\ NameFree(u.name) /\ EmptyTable(u)
       /\ catalog' = [i \in Ids \cup {id} |-> IF i = id THEN u ELSE catalog[i]]

\* The next version gets the new schema.
Alter(id) ==
    LET t == catalog[id]
        d == catalog'[id].schema
    IN  /\ ~t.dropped
        /\ Change(id, [t EXCEPT !.schema = d, !.version = @ + 1,
                                !.schemas = @ \cup {<<t.version + 1, d>>}])

Rename(id) ==
    LET name == catalog'[id].name IN
    /\ ~catalog[id].dropped
    /\ NameFree(name)
    /\ Change(id, [catalog[id] EXCEPT !.name = name])

\* A new snapshot follows the current one.  Its partitions are some of those of
\* the current one, and new ones; the older snapshots stay as they are.
Commit(id) ==
    LET t == catalog[id]
        s == catalog'[id].current
        new == catalog'[id].log[s]
        old == IF t.current = 0 THEN {} ELSE t.log[t.current].rows
    IN  /\ ~t.dropped
        /\ s > t.current
        /\ new.parent = t.current
        /\ \A r \in new.rows : r \in old \/ r.snapshot_id = s
        /\ Change(id, [t EXCEPT
              !.current = s,
              !.log = [x \in DOMAIN t.log \cup {s} |-> IF x = s THEN new ELSE t.log[x]]])

SoftDrop(id) ==
    /\ ~catalog[id].dropped
    /\ Change(id, [catalog[id] EXCEPT !.dropped = TRUE])

Purge(id) ==
    /\ ~catalog[id].dropped
    /\ catalog' = [i \in Ids \ {id} |-> catalog[i]]

CatalogNext ==
    \/ Create
    \/ \E id \in Ids :
          \/ Purge(id)
          \/ /\ id \in DOMAIN catalog'
             /\ Alter(id) \/ Rename(id) \/ SoftDrop(id) \/ Commit(id)

CatalogSpec == CatalogInit /\ [][CatalogNext]_catalog

=============================================================================
