--------------------------- MODULE SnapshotChain ----------------------------
(***************************************************************************)
(* transaction/snapshot.h: what a caller that has the rows of              *)
(* ListSnapshots can compute from them.  The rows are records with a       *)
(* snapshot_id and a parent_snapshot_id.                                   *)
(***************************************************************************)
EXTENDS Integers, SequencesExt

is_ancestor_of(s, other_parent) == s.snapshot_id <= other_parent

\* The rows with snapshot_id x; index keeps the last of them.
Rows(all, x) == {i \in DOMAIN all : all[i].snapshot_id = x}

index(all, x) == all[CHOOSE i \in Rows(all, x) : \A j \in Rows(all, x) : j <= i]

\* The loop follows the parents from a snapshot to 0 or to a row that is not
\* there.  walk[n] is the chain after at most n rows: a snapshot is newer than
\* its parent, so no row is visited twice and Len(all) rows are enough.
build_snapshot_chain(all, from_snapshot_id) ==
    LET next(chain) == IF chain = <<>> THEN from_snapshot_id
                                       ELSE Last(chain).parent_snapshot_id
        walk[n \in 0 .. Len(all)] ==
           IF n = 0 THEN <<>>
           ELSE LET chain == walk[n - 1] IN
                IF next(chain) = 0 \/ Rows(all, next(chain)) = {} THEN chain
                ELSE Append(chain, index(all, next(chain)))
    IN  walk[Len(all)]

=============================================================================
