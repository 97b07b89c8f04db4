--------------------------- MODULE MCQueryService ---------------------------
(***************************************************************************)
(* The queries of the run that reads and writes one table.                 *)
(***************************************************************************)
EXTENDS QueryService, MCMetadataServer

Ask(op, n, s, size) == [op |-> op, name |-> n, snap |-> s, size |-> size]

\* Walks with pages of one partition, through the newest snapshot and through
\* an explicit one; listings shorter and longer than the history; a table that
\* is not there.
AllQueries ==
    {Ask("walk", A, 0, 1), Ask("walk", A, 1, 1), Ask("walk", B, 0, 1),
     Ask("stats", A, 0, 1), Ask("snapshot", A, 1, 1),
     Ask("list", A, 0, 1), Ask("list", A, 0, 3)}

=============================================================================
