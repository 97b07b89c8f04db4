--------------------------- MODULE PartitionCache ---------------------------
(***************************************************************************)
(* What LRUCache promises to PartitionRegistry: a map from (table name,    *)
(* snapshot) to the rows last put there, of at most CacheCapacity entries, *)
(* that may forget an entry only to make room for a new key.  Which entry  *)
(* is evicted is left open here.                                           *)
(*                                                                         *)
(* The cache key is the string  table ":" snapshot.  The snapshot part     *)
(* holds digits only, so distinct pairs give distinct strings.  The        *)
(* converse does not hold for invalidation: the prefix  table ":"  also    *)
(* matches the keys of a table whose own name starts with it.  ColonPrefix *)
(* is that relation between names.                                         *)
(***************************************************************************)
EXTENDS CatalogBase, Integers, FiniteSets

CONSTANTS
    ColonPrefix,    \* pairs <<m, n>> with n = m ":" ...
    CacheCapacity   \* CACHE_CAPACITY, the most entries kept

ASSUME CacheAssumption ==
    /\ ColonPrefix \subseteq Names \X Names
    /\ CacheCapacity \in Nat \ {0}

VARIABLE cache      \* function from the cached keys to rows

make_cache_key(n, s) == <<n, s>>

CacheTypeOK ==
    /\ DOMAIN cache \subseteq Names \X Nat
    /\ cache = [k \in DOMAIN cache |-> cache[k]]

CacheInit == cache = [k \in {} |-> {}]

Cached(k) == k \in DOMAIN cache

\* cache with the keys of S forgotten.
Without(S) == [k \in DOMAIN cache \ S |-> cache[k]]

\* The entries under the keys of keep, and v under k.
Store(keep, k, v) ==
    [j \in keep \cup {k} |-> IF j = k THEN v ELSE cache[j]]

\* A new key in a full cache evicts one entry.
put(k, v) ==
    \/ /\ Cached(k) \/ Cardinality(DOMAIN cache) < CacheCapacity
       /\ cache' = Store(DOMAIN cache, k, v)
    \/ /\ ~Cached(k) /\ Cardinality(DOMAIN cache) >= CacheCapacity
       /\ \E evicted \in DOMAIN cache :
             cache' = Store(DOMAIN cache \ {evicted}, k, v)

Matches(n, k) == k[1] = n \/ <<n, k[1]>> \in ColonPrefix

invalidate_table_cache(n) ==
    cache' = Without({k \in DOMAIN cache : Matches(n, k)})

-----------------------------------------------------------------------------
(* Every step of the cache, with keys in K and rows in V: what LruCache *)
(* implements                                                           *)

invalidate(k) == cache' = Without({k})

clear == cache' = Without(DOMAIN cache)

CacheNext(K, V) ==
    \/ \E k \in K : invalidate(k) \/ \E v \in V : put(k, v)
    \/ \E n \in Names : invalidate_table_cache(n)
    \/ clear

=============================================================================
