----------------------------- MODULE MCLruCache -----------------------------
(***************************************************************************)
(* Keys of two tables, the second of which is also invalidated with the    *)
(* first.                                                                  *)
(***************************************************************************)
EXTENDS LruCache

CONSTANTS A, B   \* table names

APrefixOfB == {<<A, B>>}

=============================================================================
