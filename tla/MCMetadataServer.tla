-------------------------- MODULE MCMetadataServer --------------------------
(***************************************************************************)
(* Instances of MetadataServer for TLC.  Each run has a set of requests    *)
(* of its own; the names below are the values a cfg gives to Requests.     *)
(***************************************************************************)
EXTENDS MetadataServer, TLC

CONSTANTS A, B,    \* table names
          p, q,    \* partition keys
          v, w,    \* schemas
          none     \* the schema that is rejected

Req(op, n) ==
    [op |-> op, name |-> n, to |-> n, snap |-> 0, adds |-> <<>>, dels |-> {},
     purge |-> FALSE, schema |-> v]

Gets(ns, ss)   == {[Req("get", n) EXCEPT !.snap = s] : n \in ns, s \in ss}
Metas(ns, ss)  == {[Req("meta", n) EXCEPT !.snap = s] : n \in ns, s \in ss}
Drops(ns, ps)  == {[Req("drop", n) EXCEPT !.purge = b] : n \in ns, b \in ps}
Alters(ns, ds) == {[Req("alter", n) EXCEPT !.schema = d] : n \in ns, d \in ds}
Specs(ns)      == {Req("spec", n) : n \in ns}
Creates(ns)    == {Req("create", n) : n \in ns}
Renames(ps)    == {[Req("rename", r[1]) EXCEPT !.to = r[2]] : r \in ps}

\* A batch is a pair: the keys added and the keys deleted.
Commits(ns, ss, bs) ==
    {[Req("commit", n) EXCEPT !.snap = s, !.adds = b[1], !.dels = b[2]]
       : n \in ns, s \in ss, b \in bs}

OneTable  == <<A>>
TwoTables == <<A, B>>

\* No name is a prefix of another, or B is A ":" something.
NoPrefix == {}
APrefixOfB == {<<A, B>>}

ThreadSymmetry == Permutations(Threads)

\* Readers and writers of one table: a batch that adds, one that replaces a
\* partition by one of another key, one that deletes.
ReadWrite ==
    Gets({A}, {0, 1}) \cup Metas({A}, {0}) \cup
    Commits({A}, {0, 1, 2}, {<<<<p>>, {}>>, <<<<q>>, {p}>>})

\* Every operation on the table itself, and reads that fill the cache.
Catalog ==
    Gets({A, B}, {0}) \cup Creates({A, B}) \cup Alters({A}, {v, w, none}) \cup
    Drops({A}, BOOLEAN) \cup Renames({<<A, B>>, <<A, A>>}) \cup Specs({A}) \cup
    Commits({A}, {0}, {<<<<p>>, {}>>})

\* One of each, for the runs in which the environment fails.
Everything ==
    Gets({A}, {0}) \cup Metas({A}, {0}) \cup Creates({B}) \cup Alters({A}, {w}) \cup
    Drops({A}, {TRUE}) \cup Renames({<<A, B>>}) \cup
    Commits({A}, {0}, {<<<<p>>, {}>>}) \cup Commits({A}, {1}, {<<<<q>>, {p}>>})

\* Handlers that wait for two locks, or twice for a connection, and the others
\* they compete with.
Liveness ==
    Gets({A}, {0}) \cup Commits({A}, {0}, {<<<<p>>, {}>>}) \cup
    Alters({A}, {w}) \cup Renames({<<A, B>>}) \cup Drops({B}, {TRUE})

-----------------------------------------------------------------------------
(* The requests that show where the code departs from its documentation *)

\* A commit replaces the file of partition p.
Overwrite == Commits({A}, {0}, {<<<<p>>, {p}>>})

\* Two commits and a read of snapshot 0 after some transaction has committed.
ZeroSnapshot == Metas({A}, {0}) \cup Commits({A}, {0, 1}, {<<<<p>>, {}>>})

\* A table is purged and created anew while its old partitions are cached.
StaleAfterDrop ==
    Gets({A}, {1}) \cup Commits({A}, {0}, {<<<<p>>, {}>>}) \cup
    Drops({A}, {TRUE}) \cup Creates({A})

ForkedHistory == Commits({A}, {0, 1}, {<<<<p>>, {}>>})

CrossRename == Renames({<<A, B>>, <<B, A>>})

=============================================================================
