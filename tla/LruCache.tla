------------------------------ MODULE LruCache ------------------------------
(***************************************************************************)
(* LRUCache, as PartitionRegistry uses it: a std::list of (key, value)     *)
(* nodes, the most recently used one first, and an unordered_map from keys *)
(* to iterators into the list.  Every call runs under the cache's mutex,   *)
(* so a call is one step.                                                  *)
(*                                                                         *)
(* A node keeps its address as long as it is in the list, wherever splice  *)
(* moves it, and an iterator is that address.  Whether map_ only holds     *)
(* iterators of live nodes is what the code has to get right.              *)
(***************************************************************************)
EXTENDS CatalogBase, Ordering, SequencesExt

CONSTANTS
    ColonPrefix,      \* see PartitionCache
    CacheCapacity,    \* capacity_
    Snapshots,        \* the snapshots of the keys
    Values,           \* what is cached
    MaxCalls          \* bound: calls in one behaviour

\* put() on a cache of capacity 0 calls back() on an empty list.
ASSUME LruAssumption ==
    /\ CacheCapacity \in Nat \ {0}
    /\ Snapshots \subseteq Nat
    /\ MaxCalls \in Nat

VARIABLES
    lru_list,         \* the nodes, front first
    map_,             \* function from the cached keys to node addresses
    hit_count, miss_count, eviction_count,
    uses              \* history: the keys got or put, last use first, each
                      \* with the value last put

lruVars == <<lru_list, map_, hit_count, miss_count, eviction_count, uses>>

CacheKeys == Names \X Snapshots

\* Addresses are reused: more than the list has nodes are not needed.
Addresses == 1 .. CacheCapacity + 1

Node == [at : Addresses, key : CacheKeys, value : Values]

LruInit ==
    /\ lru_list = <<>>
    /\ map_ = [k \in {} |-> 0]
    /\ hit_count = 0 /\ miss_count = 0 /\ eviction_count = 0
    /\ uses = <<>>

-----------------------------------------------------------------------------
(* The two containers *)

Found(k) == k \in DOMAIN map_

\* The list with the nodes of A unlinked.
Unlinked(list, A) == Filter(list, {x \in ToSet(list) : x.at \notin A})

\* map_ with the keys of S erased.
Erased(S) == [k \in DOMAIN map_ \ S |-> map_[k]]

\* The node the iterator a points to.
Deref(a) == CHOOSE x \in ToSet(lru_list) : x.at = a

\* splice(begin(), list, x): the node x becomes the first, unmoved in memory.
Spliced(x) == <<x>> \o Unlinked(lru_list, {x.at})

\* The map the registry sees: the values behind the iterators.
Contents == [k \in DOMAIN map_ |-> Deref(map_[k]).value]

Promise == INSTANCE PartitionCache WITH cache <- Contents

Fresh(list) == CHOOSE a \in Addresses : \A i \in DOMAIN list : list[i].at # a

\* k is used, and holds v.
Touched(k, v) ==
    <<[key |-> k, value |-> v]>> \o Filter(uses, {u \in ToSet(uses) : u.key # k})

\* k is used, and holds what was put last.
Retouched(k) ==
    Touched(k, (CHOOSE u \in ToSet(uses) : u.key = k).value)

-----------------------------------------------------------------------------
(* Calls *)

\* Variant: a hit leaves the entry where it is.
GetInPlace(k) ==
    \/ /\ Found(k)
       /\ hit_count' = hit_count + 1
       /\ uses' = Retouched(k)
       /\ UNCHANGED <<lru_list, map_, miss_count, eviction_count>>
    \/ /\ ~Found(k)
       /\ miss_count' = miss_count + 1
       /\ UNCHANGED <<lru_list, map_, hit_count, eviction_count, uses>>

get(k) ==
    \/ /\ Found(k)
       /\ hit_count' = hit_count + 1
       /\ lru_list' = Spliced(Deref(map_[k]))
       /\ uses' = Retouched(k)
       /\ UNCHANGED <<map_, miss_count, eviction_count>>
    \/ /\ ~Found(k)
       /\ miss_count' = miss_count + 1
       /\ UNCHANGED <<lru_list, map_, hit_count, eviction_count, uses>>

PutFound(k, v) ==
    /\ Found(k)
    /\ lru_list' = Spliced([Deref(map_[k]) EXCEPT !.value = v])
    /\ uses' = Touched(k, v)
    /\ UNCHANGED <<map_, hit_count, miss_count, eviction_count>>

\* If full, the last node is dropped; left is what then remains of map_.
Emplace(k, v, full, left) ==
    LET kept == IF full THEN Front(lru_list) ELSE lru_list
        node == [at |-> Fresh(kept), key |-> k, value |-> v]
    IN  /\ lru_list' = <<node>> \o kept
        /\ map_' = [j \in DOMAIN left \cup {k} |-> IF j = k THEN node.at ELSE left[j]]
        /\ eviction_count' = IF full THEN eviction_count + 1 ELSE eviction_count
        /\ uses' = Touched(k, v)
        /\ UNCHANGED <<hit_count, miss_count>>

WithoutLast(full) == IF full THEN Erased({Last(lru_list).key}) ELSE map_

\* Variant: the eviction unlinks the node and leaves its iterator in map_.
PutDangling(k, v) == ~Found(k) /\ Emplace(k, v, Len(lru_list) >= CacheCapacity, map_)

\* Variant: the cache is full when it has more than capacity_ entries.
PutLate(k, v) ==
    LET full == Len(lru_list) > CacheCapacity IN
    ~Found(k) /\ Emplace(k, v, full, WithoutLast(full))

PutNew(k, v) ==
    LET full == Len(lru_list) >= CacheCapacity IN
    ~Found(k) /\ Emplace(k, v, full, WithoutLast(full))

put(k, v) == PutFound(k, v) \/ PutNew(k, v)

\* The entries whose key is in S: what invalidate(k) does with {k} and
\* invalidate_if with the keys its predicate accepts.
EraseAll(S) ==
    LET gone == S \cap DOMAIN map_ IN
    /\ lru_list' = Unlinked(lru_list, {map_[k] : k \in gone})
    /\ map_' = Erased(gone)
    /\ UNCHANGED <<hit_count, miss_count, eviction_count, uses>>

invalidate(k) == EraseAll({k})

\* The predicate is that of invalidate_table_cache(n).
invalidate_if(n) == EraseAll({k \in CacheKeys : Promise!Matches(n, k)})

clear ==
    /\ lru_list' = <<>>
    /\ map_' = Erased(DOMAIN map_)
    /\ UNCHANGED <<hit_count, miss_count, eviction_count, uses>>

-----------------------------------------------------------------------------
VARIABLE calls   \* calls made so far

vars == <<lruVars, calls>>

Init == LruInit /\ calls = 0

Next ==
    /\ calls < MaxCalls
    /\ calls' = calls + 1
    /\ \/ \E k \in CacheKeys : get(k) \/ invalidate(k) \/ \E v \in Values : put(k, v)
       \/ \E n \in Names : invalidate_if(n)
       \/ clear

Spec == Init /\ [][Next]_vars

-----------------------------------------------------------------------------
(* Properties *)

\* Every iterator of map_ points to a live node, the node of its own key, and
\* every node is reached by one.  get and put dereference map_'s iterators
\* without looking.
IteratorsValid ==
    /\ Len(lru_list) <= CacheCapacity
    /\ \A k \in DOMAIN map_ :
          \E i \in DOMAIN lru_list : lru_list[i].at = map_[k] /\ lru_list[i].key = k
    /\ \A i, j \in DOMAIN lru_list : lru_list[i].at = lru_list[j].at => i = j
    /\ \A i \in DOMAIN lru_list :
          Found(lru_list[i].key) /\ map_[lru_list[i].key] = lru_list[i].at

\* The list is in the order of the last uses and holds the values last put,
\* whatever was evicted or invalidated in between.  The victim of an eviction is
\* therefore the cached entry nobody has asked for the longest, and a get never
\* returns a value that has been overwritten.
ListIsRecentUse ==
    [i \in DOMAIN lru_list |-> [key |-> lru_list[i].key, value |-> lru_list[i].value]] =
       Filter(uses, {u \in ToSet(uses) : Found(u.key)})

\* LRUCache implements the map PartitionRegistry is modelled with: an
\* entry goes only by invalidation or, one at a time, when a new key needs its
\* place in a full cache.
CacheImplemented ==
    Promise!CacheInit /\ [][Promise!CacheNext(CacheKeys, Values)]_Contents

-----------------------------------------------------------------------------
(* The inductive invariant *)

Use == [key : CacheKeys, value : Values]

LruTypeOK ==
    /\ lru_list \in Seq(Node)
    /\ DOMAIN map_ \subseteq CacheKeys
    /\ map_ \in [DOMAIN map_ -> Addresses]
    /\ uses \in Seq(Use)

\* The last use of every key is in uses once, cached entries among them with
\* their values and in their order.
RecencyInv ==
    /\ \A i, j \in DOMAIN uses : uses[i].key = uses[j].key => i = j
    /\ \A i \in DOMAIN lru_list : \E j \in DOMAIN uses :
          uses[j].key = lru_list[i].key /\ uses[j].value = lru_list[i].value
    /\ \A a, b \in DOMAIN lru_list : \A i, j \in DOMAIN uses :
          a < b /\ uses[i].key = lru_list[a].key /\ uses[j].key = lru_list[b].key => i < j

LruInv == LruTypeOK /\ IteratorsValid /\ RecencyInv

=============================================================================
