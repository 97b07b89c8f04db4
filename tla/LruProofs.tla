------------------------------ MODULE LruProofs -----------------------------
(***************************************************************************)
(* LruInv is an inductive invariant of LruCache, and LRUCache implements   *)
(* PartitionCache.                                                         *)
(*                                                                         *)
(* Every call thins the list and the map out, and may put one node in      *)
(* front.  The lemmas are about these two moves, on a list, a map and a    *)
(* history of uses that need not be the ones of a state.                   *)
(***************************************************************************)
EXTENDS LruCache, OrderingProofs, SequenceTheorems

\* IteratorsValid, for any list and map.
Valid(list, map) ==
    /\ list \in Seq(Node)
    /\ DOMAIN map \subseteq CacheKeys /\ map \in [DOMAIN map -> Addresses]
    /\ Len(list) <= CacheCapacity
    /\ \A k \in DOMAIN map :
          \E i \in DOMAIN list : list[i].at = map[k] /\ list[i].key = k
    /\ \A i, j \in DOMAIN list : list[i].at = list[j].at => i = j
    /\ \A i \in DOMAIN list :
          list[i].key \in DOMAIN map /\ map[list[i].key] = list[i].at

\* RecencyInv, for any list and history.
Recent(list, past) ==
    /\ past \in Seq(Use)
    /\ \A i, j \in DOMAIN past : past[i].key = past[j].key => i = j
    /\ \A i \in DOMAIN list : \E j \in DOMAIN past :
          past[j].key = list[i].key /\ past[j].value = list[i].value
    /\ \A a, b \in DOMAIN list : \A i, j \in DOMAIN past :
          a < b /\ past[i].key = list[a].key /\ past[j].key = list[b].key => i < j

\* The nodes that t keeps of list are those whose keys are not in G.
Thins(h, t, list, G) ==
    /\ t \in Seq(Node)
    /\ h \in [DOMAIN t -> DOMAIN list]
    /\ \A a \in DOMAIN t : t[a] = list[h[a]] /\ list[h[a]].key \notin G
    /\ \A a, b \in DOMAIN t : a < b => h[a] < h[b]
    /\ \A i \in DOMAIN list : list[i].key \notin G => \E a \in DOMAIN t : h[a] = i

Cut(map, G) == [k \in DOMAIN map \ G |-> map[k]]

\* map with k at address a.
Added(map, k, a) == [j \in DOMAIN map \cup {k} |-> IF j = k THEN a ELSE map[j]]

LEMMA InvIs ==
    /\ LruInv <=> Valid(lru_list, map_) /\ Recent(lru_list, uses)
    /\ LruInv' <=> Valid(lru_list', map_') /\ Recent(lru_list', uses')
BY DEF LruInv, LruTypeOK, IteratorsValid, RecencyInv, Valid, Recent, Found

\* A new first element moves the others up by one.
LEMMA Prepended ==
    ASSUME NEW U, NEW x \in U, NEW s \in Seq(U), NEW new, new = <<x>> \o s
    PROVE  /\ new \in Seq(U) /\ Len(new) = Len(s) + 1 /\ DOMAIN new = 1 .. Len(s) + 1
           /\ 1 \in DOMAIN new /\ new[1] = x
           /\ \A i \in DOMAIN s : i + 1 \in DOMAIN new /\ new[i + 1] = s[i]
           /\ \A i \in DOMAIN new : i = 1 \/ (i - 1 \in DOMAIN s /\ new[i] = s[i - 1])
OBVIOUS

-----------------------------------------------------------------------------
(* The list and the map *)

\* A list has a node for each key of its map, and no more.
LEMMA Counted ==
    ASSUME NEW list, NEW map, Valid(list, map)
    PROVE  IsFiniteSet(DOMAIN map) /\ Cardinality(DOMAIN map) = Len(list)
<1> DEFINE f == [i \in 1 .. Len(list) |-> list[i].key]
<1>1. Len(list) \in Nat /\ DOMAIN list = 1 .. Len(list)
  BY DEF Valid
<1>2. f \in [1 .. Len(list) -> DOMAIN map]
  BY <1>1 DEF Valid
<1>3. \A i, j \in 1 .. Len(list) : f[i] = f[j] => i = j
  BY <1>1 DEF Valid
<1>4. \A k \in DOMAIN map : \E i \in 1 .. Len(list) : f[i] = k
  BY <1>1 DEF Valid
<1>5. f \in Bijection(1 .. Len(list), DOMAIN map)
  BY <1>2, <1>3, <1>4 DEF Bijection, Injection, Surjection, IsInjective
<1> HIDE DEF f
<1>6. ExistsBijection(1 .. Len(list), DOMAIN map)
  BY <1>5 DEF ExistsBijection
<1> QED
  BY <1>1, <1>6, FS_CountingElements, FS_NatBijection

\* Unlinking the nodes of some keys and erasing those keys keeps the iterators.
LEMMA ThinValid ==
    ASSUME NEW list, NEW map, Valid(list, map), NEW G, NEW t, NEW h, Thins(h, t, list, G)
    PROVE  Valid(t, Cut(map, G)) /\ Len(t) <= Len(list)
<1>1. t \in Seq(Node) /\ DOMAIN t = 1 .. Len(t) /\ Len(t) \in Nat
  BY DEF Thins
<1>2. list \in Seq(Node) /\ DOMAIN list = 1 .. Len(list) /\ Len(list) \in Nat
  BY DEF Valid
<1>3. Len(t) <= Len(list)
  <2>1. h \in [1 .. Len(t) -> 1 .. Len(list)]
    BY <1>1, <1>2 DEF Thins
  <2>2. \A a, b \in 1 .. Len(t) : h[a] = h[b] => a = b
    <3> SUFFICES ASSUME NEW a \in 1 .. Len(t), NEW b \in 1 .. Len(t), a # b
                 PROVE  h[a] # h[b]
      OBVIOUS
    <3>1. a < b \/ b < a
      BY <1>1
    <3>2. h[a] \in Int /\ h[b] \in Int
      BY <2>1
    <3>3. h[a] < h[b] \/ h[b] < h[a]
      BY <1>1, <3>1 DEF Thins
    <3> QED
      BY <3>2, <3>3
  <2>3. h \in Injection(1 .. Len(t), 1 .. Len(list))
    BY <2>1, <2>2 DEF Injection, IsInjective
  <2>4. /\ IsFiniteSet(1 .. Len(list)) /\ Cardinality(1 .. Len(list)) = Len(list)
        /\ Cardinality(1 .. Len(t)) = Len(t)
    <3>1. \A n \in Nat : IsFiniteSet(1 .. n) /\ Cardinality(1 .. n) = n
      <4> SUFFICES ASSUME NEW n \in Nat PROVE IsFiniteSet(1 .. n) /\ Cardinality(1 .. n) = n
        OBVIOUS
      <4>1. IsFiniteSet(1 .. n) /\ Cardinality(1 .. n) = IF 1 > n THEN 0 ELSE n - 1 + 1
        BY FS_Interval
      <4> QED
        BY <4>1
    <3> QED
      BY <1>1, <1>2, <3>1
  <2> QED
    BY <2>3, <2>4, FS_Injection
<1>4. Len(t) <= CacheCapacity
  BY <1>1, <1>2, <1>3, LruAssumption DEF Valid
<1>5. /\ DOMAIN Cut(map, G) = DOMAIN map \ G
      /\ \A k \in DOMAIN map \ G : Cut(map, G)[k] = map[k]
      /\ DOMAIN Cut(map, G) \subseteq CacheKeys
      /\ Cut(map, G) \in [DOMAIN Cut(map, G) -> Addresses]
  BY DEF Cut, Valid
<1>6. ASSUME NEW k \in DOMAIN Cut(map, G)
      PROVE  \E a \in DOMAIN t : t[a].at = Cut(map, G)[k] /\ t[a].key = k
  <2>1. k \in DOMAIN map /\ k \notin G /\ Cut(map, G)[k] = map[k]
    BY <1>5
  <2>2. PICK i \in DOMAIN list : list[i].at = map[k] /\ list[i].key = k
    BY <2>1 DEF Valid
  <2>3. PICK a \in DOMAIN t : h[a] = i
    BY <2>1, <2>2 DEF Thins
  <2> QED
    BY <2>1, <2>2, <2>3 DEF Thins
<1>7. ASSUME NEW a \in DOMAIN t, NEW b \in DOMAIN t, t[a].at = t[b].at PROVE a = b
  <2>1. h[a] = h[b]
    BY <1>7 DEF Thins, Valid
  <2>2. h[a] \in Int /\ ~(a < b) /\ ~(b < a)
    BY <1>2, <2>1 DEF Thins
  <2> QED
    BY <1>1, <2>2
<1>8. ASSUME NEW a \in DOMAIN t
      PROVE  t[a].key \in DOMAIN Cut(map, G) /\ Cut(map, G)[t[a].key] = t[a].at
  BY <1>5 DEF Thins, Valid
<1> QED
  BY <1>1, <1>3, <1>4, <1>5, <1>6, <1>7, <1>8 DEF Valid

\* A new first node, at an address and with a key the list does not have.
LEMMA PushValid ==
    ASSUME NEW list, NEW map, Valid(list, map), Len(list) < CacheCapacity,
           NEW k \in CacheKeys, k \notin DOMAIN map, NEW v \in Values,
           NEW a \in Addresses, \A i \in DOMAIN list : list[i].at # a
    PROVE  Valid(<<[at |-> a, key |-> k, value |-> v]>> \o list, Added(map, k, a))
<1> DEFINE x == [at |-> a, key |-> k, value |-> v]
           new == <<x>> \o list
           m == Added(map, k, a)
<1>1. x \in Node /\ x.at = a /\ x.key = k
  BY DEF Node
<1> HIDE DEF x
<1>2. list \in Seq(Node) /\ DOMAIN list = 1 .. Len(list) /\ Len(list) \in Nat
  BY DEF Valid
<1>3. /\ new \in Seq(Node) /\ Len(new) = Len(list) + 1 /\ DOMAIN new = 1 .. Len(list) + 1
      /\ 1 \in DOMAIN new /\ new[1] = x
      /\ \A i \in DOMAIN list : i + 1 \in DOMAIN new /\ new[i + 1] = list[i]
      /\ \A i \in DOMAIN new : i = 1 \/ (i - 1 \in DOMAIN list /\ new[i] = list[i - 1])
  BY <1>1, <1>2, Prepended
<1>4. /\ DOMAIN m = DOMAIN map \cup {k} /\ m[k] = a
      /\ \A j \in DOMAIN map : m[j] = map[j]
      /\ DOMAIN m \subseteq CacheKeys /\ m \in [DOMAIN m -> Addresses]
  BY DEF Added, Valid
<1> HIDE DEF new, m
<1>5. Len(new) <= CacheCapacity
  BY <1>2, <1>3, LruAssumption
<1>6. ASSUME NEW j \in DOMAIN m
      PROVE  \E i \in DOMAIN new : new[i].at = m[j] /\ new[i].key = j
  <2>1. CASE j = k
    BY <1>1, <1>2, <1>3, <1>4, <2>1
  <2>2. CASE j \in DOMAIN map
    <3>1. PICK i \in DOMAIN list : list[i].at = map[j] /\ list[i].key = j
      BY <2>2 DEF Valid
    <3>2. i + 1 \in DOMAIN new /\ new[i + 1] = list[i] /\ m[j] = map[j]
      BY <1>3, <1>4, <2>2
    <3> QED
      BY <3>1, <3>2
  <2> QED
    BY <1>4, <2>1, <2>2
<1>7. ASSUME NEW i \in DOMAIN new, NEW j \in DOMAIN new, new[i].at = new[j].at PROVE i = j
  <2>1. CASE i = 1
    BY <1>1, <1>3, <1>7, <2>1
  <2>2. CASE j = 1
    BY <1>1, <1>3, <1>7, <2>2
  <2>3. CASE i # 1 /\ j # 1
    <3>1. /\ i - 1 \in DOMAIN list /\ new[i] = list[i - 1]
          /\ j - 1 \in DOMAIN list /\ new[j] = list[j - 1]
      BY <1>3, <2>3
    <3>2. i - 1 = j - 1
      BY <1>7, <3>1 DEF Valid
    <3> QED
      BY <1>3, <3>2
  <2> QED
    BY <2>1, <2>2, <2>3
<1>8. ASSUME NEW i \in DOMAIN new PROVE new[i].key \in DOMAIN m /\ m[new[i].key] = new[i].at
  <2>1. CASE i = 1
    BY <1>1, <1>3, <1>4, <2>1
  <2>2. CASE i # 1
    BY <1>3, <1>4, <2>2 DEF Valid
  <2> QED
    BY <2>1, <2>2
<1>9. Valid(new, m)
  BY <1>3, <1>4, <1>5, <1>6, <1>7, <1>8 DEF Valid
<1> QED
  BY <1>9 DEF new, m, x

-----------------------------------------------------------------------------
(* The order of use *)

\* A thinner list is in the same order.
LEMMA ThinRecent ==
    ASSUME NEW list \in Seq(Node), NEW past, Recent(list, past), NEW G, NEW t, NEW h,
           Thins(h, t, list, G)
    PROVE  Recent(t, past)
<1>1. ASSUME NEW a \in DOMAIN t
      PROVE  \E j \in DOMAIN past : past[j].key = t[a].key /\ past[j].value = t[a].value
  <2>1. h[a] \in DOMAIN list /\ t[a] = list[h[a]]
    BY DEF Thins
  <2>2. PICK j \in DOMAIN past :
           past[j].key = list[h[a]].key /\ past[j].value = list[h[a]].value
    BY <2>1 DEF Recent
  <2> QED
    BY <2>1, <2>2
<1>2. ASSUME NEW a \in DOMAIN t, NEW b \in DOMAIN t, NEW i \in DOMAIN past,
             NEW j \in DOMAIN past, a < b,
             past[i].key = t[a].key, past[j].key = t[b].key
      PROVE  i < j
  <2>1. h[a] \in DOMAIN list /\ h[b] \in DOMAIN list /\ h[a] < h[b]
    BY <1>2 DEF Thins
  <2>2. past[i].key = list[h[a]].key /\ past[j].key = list[h[b]].key
    BY <1>2 DEF Thins
  <2> QED
    BY <2>1, <2>2 DEF Recent
<1> QED
  BY <1>1, <1>2 DEF Recent

\* A key that is used moves to the front of the list and of the history.
LEMMA PushRecent ==
    ASSUME NEW list \in Seq(Node), NEW past, Recent(list, past), NEW x \in Node,
           \A i \in DOMAIN list : list[i].key # x.key,
           NEW left, left = Filter(past, {u \in ToSet(past) : u.key # x.key})
    PROVE  Recent(<<x>> \o list, <<[key |-> x.key, value |-> x.value]>> \o left)
<1> DEFINE u0 == [key |-> x.key, value |-> x.value]
           new == <<x>> \o list
           now == <<u0>> \o left
           S == {u \in ToSet(past) : u.key # x.key}
<1>1. u0 \in Use /\ u0.key = x.key /\ u0.value = x.value
  BY DEF Node, Use
<1> HIDE DEF u0
<1>2. past \in Seq(Use)
  BY DEF Recent
<1>3. left \in Seq(Use) /\ \E h : Embeds(h, left, past, S)
  BY <1>2, FilterKeeps
<1>4. PICK h : Embeds(h, left, past, S)
  BY <1>3
<1>5. /\ h \in [DOMAIN left -> DOMAIN past]
      /\ \A a \in DOMAIN left : left[a] = past[h[a]] /\ past[h[a]].key # x.key
      /\ \A a, b \in DOMAIN left : a < b => h[a] < h[b]
  BY <1>4 DEF Embeds
<1>6. \A i \in DOMAIN past : past[i].key # x.key => \E a \in DOMAIN left : h[a] = i
  <2> SUFFICES ASSUME NEW i \in DOMAIN past, past[i].key # x.key
               PROVE  \E a \in DOMAIN left : h[a] = i
    OBVIOUS
  <2>1. past[i] \in ToSet(past)
    BY <1>2 DEF ToSet
  <2> QED
    BY <1>4, <2>1 DEF Embeds
<1>7. /\ DOMAIN list = 1 .. Len(list) /\ Len(list) \in Nat
      /\ DOMAIN left = 1 .. Len(left) /\ Len(left) \in Nat
      /\ DOMAIN past = 1 .. Len(past) /\ Len(past) \in Nat
  BY <1>2, <1>3
<1>8. /\ new \in Seq(Node) /\ DOMAIN new = 1 .. Len(list) + 1 /\ new[1] = x
      /\ \A i \in DOMAIN new : i = 1 \/ (i - 1 \in DOMAIN list /\ new[i] = list[i - 1])
  BY Prepended
<1>9. /\ now \in Seq(Use) /\ DOMAIN now = 1 .. Len(left) + 1
      /\ 1 \in DOMAIN now /\ now[1] = u0
      /\ \A i \in DOMAIN left : i + 1 \in DOMAIN now /\ now[i + 1] = left[i]
      /\ \A i \in DOMAIN now : i = 1 \/ (i - 1 \in DOMAIN left /\ now[i] = left[i - 1])
  <2>1. now = <<u0>> \o left
    OBVIOUS
  <2> HIDE DEF now, S
  <2> QED
    BY ONLY <1>1, <1>3, <2>1, Prepended
<1> HIDE DEF new, now, S
<1>k. \A i \in DOMAIN now : now[i].key = x.key <=> i = 1
  <2> SUFFICES ASSUME NEW i \in DOMAIN now PROVE now[i].key = x.key <=> i = 1
    OBVIOUS
  <2>1. CASE i = 1
    BY <1>1, <1>9, <2>1
  <2>2. CASE i # 1
    <3>1. i - 1 \in DOMAIN left /\ now[i] = left[i - 1]
      BY <1>9, <2>2
    <3> QED
      BY <1>5, <2>2, <3>1
  <2> QED
    BY <2>1, <2>2
<1>10. ASSUME NEW i \in DOMAIN now, NEW j \in DOMAIN now, i # j
       PROVE  now[i].key # now[j].key
  <2>1. CASE i = 1
    BY <1>k, <1>10, <2>1
  <2>2. CASE j = 1
    BY <1>k, <1>10, <2>2
  <2>3. CASE i # 1 /\ j # 1
    <3>1. /\ i - 1 \in DOMAIN left /\ now[i] = past[h[i - 1]] /\ h[i - 1] \in DOMAIN past
          /\ j - 1 \in DOMAIN left /\ now[j] = past[h[j - 1]] /\ h[j - 1] \in DOMAIN past
      <4>1. /\ i - 1 \in DOMAIN left /\ now[i] = left[i - 1]
            /\ j - 1 \in DOMAIN left /\ now[j] = left[j - 1]
        BY <1>9, <2>3
      <4> QED
        BY <1>5, <4>1
    <3>2. h[i - 1] < h[j - 1] \/ h[j - 1] < h[i - 1]
      <4>1. i - 1 < j - 1 \/ j - 1 < i - 1
        BY <1>7, <1>9, <1>10
      <4> QED
        BY <1>5, <3>1, <4>1
    <3>3. h[i - 1] # h[j - 1]
      BY <1>7, <3>1, <3>2
    <3> QED
      BY <3>1, <3>3 DEF Recent
  <2> QED
    BY <2>1, <2>2, <2>3
<1>11. ASSUME NEW i \in DOMAIN new
       PROVE  \E j \in DOMAIN now : now[j].key = new[i].key /\ now[j].value = new[i].value
  <2>1. CASE i = 1
    BY <1>1, <1>7, <1>8, <1>9, <2>1
  <2>2. CASE i # 1
    <3>1. i - 1 \in DOMAIN list /\ new[i] = list[i - 1] /\ list[i - 1].key # x.key
      BY <1>8, <2>2
    <3>2. PICK j \in DOMAIN past : past[j].key = new[i].key /\ past[j].value = new[i].value
      BY <3>1 DEF Recent
    <3>3. PICK a \in DOMAIN left : h[a] = j
      BY <1>6, <3>1, <3>2
    <3>4. a + 1 \in DOMAIN now /\ now[a + 1] = past[j]
      BY <1>5, <1>9, <3>3
    <3> QED
      BY <3>2, <3>4
  <2> QED
    BY <2>1, <2>2
<1>12. ASSUME NEW a \in DOMAIN new, NEW b \in DOMAIN new, NEW i \in DOMAIN now,
              NEW j \in DOMAIN now, a < b,
              now[i].key = new[a].key, now[j].key = new[b].key
       PROVE  i < j
  <2>1. b # 1 /\ b - 1 \in DOMAIN list /\ new[b] = list[b - 1] /\ list[b - 1].key # x.key
    BY <1>7, <1>8, <1>12
  <2>2. j # 1 /\ j - 1 \in DOMAIN left /\ now[j] = left[j - 1]
    BY <1>1, <1>9, <1>12, <2>1
  <2>3. CASE a = 1
    <3>1. i = 1
      BY <1>k, <1>8, <1>12, <2>3
    <3> QED
      BY <1>9, <2>2, <3>1
  <2>4. CASE a # 1
    <3>1. a - 1 \in DOMAIN list /\ new[a] = list[a - 1] /\ list[a - 1].key # x.key
      BY <1>8, <2>4
    <3>2. i # 1 /\ i - 1 \in DOMAIN left /\ now[i] = left[i - 1]
      BY <1>1, <1>9, <1>12, <3>1
    <3>3. /\ h[i - 1] \in DOMAIN past /\ past[h[i - 1]].key = list[a - 1].key
          /\ h[j - 1] \in DOMAIN past /\ past[h[j - 1]].key = list[b - 1].key
      BY <1>5, <1>12, <2>1, <2>2, <3>1, <3>2
    <3>4. a - 1 < b - 1
      BY <1>8, <1>12
    <3>5. h[i - 1] < h[j - 1]
      BY <2>1, <3>1, <3>3, <3>4 DEF Recent
    <3>6. i - 1 # j - 1 /\ ~(j - 1 < i - 1)
      <4>1. ~(h[j - 1] < h[i - 1]) /\ h[j - 1] # h[i - 1]
        BY <1>7, <3>3, <3>5
      <4> QED
        BY <1>5, <2>2, <3>2, <4>1
    <3> QED
      BY <1>9, <3>6
  <2> QED
    BY <2>3, <2>4
<1>13. Recent(new, now)
  BY <1>9, <1>10, <1>11, <1>12 DEF Recent
<1> QED
  BY <1>13 DEF new, now, u0

-----------------------------------------------------------------------------
(* What the registry sees *)

\* Contents, for any list and map.
Seen(list, map) ==
    [k \in DOMAIN map |-> (CHOOSE x \in ToSet(list) : x.at = map[k]).value]

LEMMA ContentsSeen == Contents = Seen(lru_list, map_) /\ Contents' = Seen(lru_list', map_')
BY DEF Contents, Seen, Deref

\* An iterator leads to the node of its key.
LEMMA Reached ==
    ASSUME NEW list, NEW map, Valid(list, map), NEW i \in DOMAIN list
    PROVE  (CHOOSE x \in ToSet(list) : x.at = map[list[i].key]) = list[i]
<1>1. list[i] \in ToSet(list) /\ list[i].at = map[list[i].key]
  BY DEF ToSet, Valid
<1>2. ASSUME NEW x \in ToSet(list), x.at = map[list[i].key] PROVE x = list[i]
  <2>1. PICK j \in DOMAIN list : x = list[j]
    BY DEF ToSet, Valid
  <2> QED
    BY <1>1, <1>2, <2>1 DEF Valid
<1> QED
  BY <1>1, <1>2

LEMMA SeenValues ==
    ASSUME NEW list, NEW map, Valid(list, map)
    PROVE  /\ DOMAIN Seen(list, map) = DOMAIN map
           /\ \A i \in DOMAIN list : Seen(list, map)[list[i].key] = list[i].value
<1>1. DOMAIN Seen(list, map) = DOMAIN map
  BY DEF Seen
<1>2. ASSUME NEW i \in DOMAIN list PROVE Seen(list, map)[list[i].key] = list[i].value
  <2>1. list[i].key \in DOMAIN map
    BY DEF Valid
  <2>2. (CHOOSE x \in ToSet(list) : x.at = map[list[i].key]) = list[i]
    BY Reached
  <2>3. Seen(list, map)[list[i].key] =
           (CHOOSE x \in ToSet(list) : x.at = map[list[i].key]).value
    BY <2>1 DEF Seen
  <2> QED
    BY <2>2, <2>3
<1> QED
  BY <1>1, <1>2

\* What is left after some keys are erased.
LEMMA ThinSeen ==
    ASSUME NEW list, NEW map, Valid(list, map), NEW G, NEW t, NEW h, Thins(h, t, list, G)
    PROVE  Seen(t, Cut(map, G)) = Cut(Seen(list, map), G)
<1>1. Valid(t, Cut(map, G))
  BY ThinValid
<1>2. DOMAIN Cut(map, G) = DOMAIN map \ G
  BY DEF Cut
<1>3. DOMAIN Seen(t, Cut(map, G)) = DOMAIN map \ G
  BY <1>1, <1>2, SeenValues
<1>4. ASSUME NEW k \in DOMAIN map \ G PROVE Seen(t, Cut(map, G))[k] = Seen(list, map)[k]
  <2>1. PICK a \in DOMAIN t : t[a].key = k
    BY <1>1, <1>2 DEF Valid
  <2>2. h[a] \in DOMAIN list /\ t[a] = list[h[a]]
    BY DEF Thins
  <2> QED
    BY <1>1, <2>1, <2>2, SeenValues
<1>5. Seen(t, Cut(map, G)) = [k \in DOMAIN map \ G |-> Seen(t, Cut(map, G))[k]]
  BY <1>2 DEF Seen
<1>6. Cut(Seen(list, map), G) = [k \in DOMAIN map \ G |-> Seen(list, map)[k]]
  BY SeenValues DEF Cut
<1> QED
  BY <1>4, <1>5, <1>6

\* A good list, map and history, showing C.
Step(list, map, past, C) ==
    /\ Valid(list, map) /\ Recent(list, past)
    /\ Seen(list, map) = C

\* The list t with a node in front, and the history with a use.
Pushed(a, k, v, t) == <<[at |-> a, key |-> k, value |-> v]>> \o t

Used(k, v, past) ==
    <<[key |-> k, value |-> v]>> \o Filter(past, {u \in ToSet(past) : u.key # k})

\* What was seen of the keys D, and v for k.
Holding(C, D, k, v) == [j \in D \cup {k} |-> IF j = k THEN v ELSE C[j]]

\* t, what is left of list without the keys G, has room for k at address a.
MakesRoom(h, t, list, map, G, k, a) ==
    /\ Thins(h, t, list, G)
    /\ Len(t) < CacheCapacity
    /\ k \notin DOMAIN map \ G
    /\ a \in Addresses /\ \A i \in DOMAIN t : t[i].at # a

\* A step that uses a key: some keys go, and k is first, at address a with value v.
LEMMA UseStep ==
    ASSUME NEW list, NEW map, Valid(list, map), NEW past, Recent(list, past),
           NEW G, NEW t, NEW h, NEW k \in CacheKeys, NEW v \in Values, NEW a,
           MakesRoom(h, t, list, map, G, k, a)
    PROVE  Step(Pushed(a, k, v, t), Added(Cut(map, G), k, a), Used(k, v, past),
                Holding(Seen(list, map), DOMAIN map \ G, k, v))
<1>r. /\ Thins(h, t, list, G) /\ Len(t) < CacheCapacity /\ k \notin DOMAIN map \ G
      /\ a \in Addresses /\ \A i \in DOMAIN t : t[i].at # a
  BY DEF MakesRoom
<1>l. PICK left : left = Filter(past, {u \in ToSet(past) : u.key # k})
  OBVIOUS
<1>n. PICK new : new = <<[at |-> a, key |-> k, value |-> v]>> \o t
  OBVIOUS
<1> DEFINE x == [at |-> a, key |-> k, value |-> v]
           m == Added(Cut(map, G), k, a)
<1>1. Valid(t, Cut(map, G)) /\ DOMAIN Cut(map, G) = DOMAIN map \ G
  BY <1>r, ThinValid DEF Cut
<1>2. Valid(new, m)
  BY <1>r, <1>n, <1>1, PushValid
<1>3. x \in Node /\ x.key = k /\ x.value = v
  BY <1>r DEF Node
<1>4. t \in Seq(Node) /\ list \in Seq(Node) /\ \A i \in DOMAIN t : t[i].key # x.key
  BY <1>r, <1>1, <1>3 DEF Valid
<1>5. new = <<x>> \o t
  BY <1>n
<1> HIDE DEF x
<1>6. Recent(t, past)
  BY <1>r, <1>4, ThinRecent
<1>7. Recent(<<x>> \o t, <<[key |-> x.key, value |-> x.value]>> \o left)
  BY <1>l, <1>3, <1>4, <1>6, PushRecent
<1>8. /\ 1 \in DOMAIN new /\ new[1] = x
      /\ \A i \in DOMAIN t : i + 1 \in DOMAIN new /\ new[i + 1] = t[i]
  BY <1>3, <1>4, <1>5, Prepended
<1>9. DOMAIN m = (DOMAIN map \ G) \cup {k}
  BY <1>1 DEF Added
<1> HIDE DEF m
<1>10. DOMAIN Seen(new, m) = DOMAIN m /\ \A i \in DOMAIN new : Seen(new, m)[new[i].key] = new[i].value
  BY <1>2, SeenValues
<1>11. Seen(new, m)[k] = v
  BY <1>3, <1>8, <1>10
<1>12. ASSUME NEW j \in DOMAIN map \ G PROVE Seen(new, m)[j] = Seen(list, map)[j]
  <2>1. PICK i \in DOMAIN t : t[i].key = j
    BY <1>1 DEF Valid
  <2>0. i + 1 \in DOMAIN new /\ new[i + 1] = t[i]
    BY <1>8
  <2>2. Seen(new, m)[j] = t[i].value
    BY <1>10, <2>0, <2>1
  <2>3. h[i] \in DOMAIN list /\ t[i] = list[h[i]]
    BY <1>r DEF Thins
  <2> QED
    BY <2>1, <2>2, <2>3, SeenValues
<1>13. Seen(new, m) = [j \in DOMAIN m |-> Seen(new, m)[j]]
  BY DEF Seen
<1>14. Seen(new, m) = [j \in (DOMAIN map \ G) \cup {k} |-> IF j = k THEN v ELSE Seen(list, map)[j]]
  BY <1>9, <1>11, <1>12, <1>13
<1>15. Recent(new, <<[key |-> k, value |-> v]>> \o left)
  BY <1>3, <1>5, <1>7
<1>16. Pushed(a, k, v, t) = new /\ Used(k, v, past) = <<[key |-> k, value |-> v]>> \o left
  BY <1>l, <1>n DEF Pushed, Used
<1> QED
  BY <1>2, <1>14, <1>15, <1>16 DEF m, Step, Holding

-----------------------------------------------------------------------------
(* How the calls thin the list *)

\* Unlinking the addresses of some keys unlinks the nodes of those keys.
LEMMA UnlinkThins ==
    ASSUME NEW list, NEW map, Valid(list, map), NEW G, NEW A,
           A = {map[k] : k \in G \cap DOMAIN map}
    PROVE  \E h : Thins(h, Unlinked(list, A), list, G)
<1> DEFINE S == {x \in ToSet(list) : x.at \notin A}
           t == Unlinked(list, A)
<1>1. list \in Seq(Node)
  BY DEF Valid
<1>2. t = Filter(list, S)
  BY DEF Unlinked
<1>3. \A i \in DOMAIN list : list[i] \in S <=> list[i].key \notin G
  <2> SUFFICES ASSUME NEW i \in DOMAIN list PROVE list[i] \in S <=> list[i].key \notin G
    OBVIOUS
  <2>1. list[i] \in ToSet(list) /\ list[i].key \in DOMAIN map /\ map[list[i].key] = list[i].at
    BY DEF ToSet, Valid
  <2>2. ASSUME NEW k \in G \cap DOMAIN map, map[k] = list[i].at PROVE k = list[i].key
    <3>1. PICK j \in DOMAIN list : list[j].at = map[k] /\ list[j].key = k
      BY DEF Valid
    <3> QED
      BY <2>2, <3>1 DEF Valid
  <2> QED
    BY <2>1, <2>2
<1> HIDE DEF S, t
<1>4. t \in Seq(Node) /\ \E h : Embeds(h, t, list, S)
  BY <1>1, <1>2, FilterKeeps
<1>5. PICK h : Embeds(h, t, list, S)
  BY <1>4
<1>6. Thins(h, t, list, G)
  BY <1>3, <1>4, <1>5 DEF Embeds, Thins
<1> QED
  BY <1>6 DEF t

\* All but the last element of a sequence.
LEMMA FrontIs ==
    ASSUME NEW U, NEW s \in Seq(U), Len(s) > 0
    PROVE  /\ Front(s) \in Seq(U) /\ Len(Front(s)) = Len(s) - 1
           /\ DOMAIN Front(s) = 1 .. Len(s) - 1
           /\ \A a \in DOMAIN Front(s) : Front(s)[a] = s[a]
<1>1. /\ Len(s) \in Nat /\ Len(s) - 1 \in Nat /\ 1 \in Int /\ Len(s) - 1 \in Int
      /\ \A i \in 1 .. Len(s) - 1 : s[i] \in U
  OBVIOUS
<1>2. PICK n \in Nat : n = Len(s) - 1 /\ Front(s) = SubSeq(s, 1, n)
  BY <1>1 DEF Front
<1>3. \A i \in 1 .. n : s[i] \in U
  BY <1>1, <1>2
<1>4. /\ SubSeq(s, 1, n) \in Seq(U)
      /\ Len(SubSeq(s, 1, n)) = IF 1 <= n THEN n - 1 + 1 ELSE 0
      /\ \A i \in 1 .. n - 1 + 1 : SubSeq(s, 1, n)[i] = s[1 + i - 1]
  BY <1>3, SubSeqProperties
<1>5. PICK f : f = SubSeq(s, 1, n)
  OBVIOUS
<1>6. f \in Seq(U) /\ Len(f) = n /\ \A i \in 1 .. n : f[i] = s[i]
  BY <1>4, <1>5
<1>7. DOMAIN f = 1 .. n
  BY <1>6
<1> QED
  BY <1>2, <1>5, <1>6, <1>7

\* Dropping the last node drops the key it has.
LEMMA FrontThins ==
    ASSUME NEW list, NEW map, Valid(list, map), Len(list) > 0
    PROVE  \E h : Thins(h, Front(list), list, {Last(list).key})
<1> DEFINE t == Front(list)
           h == [a \in DOMAIN t |-> a]
<1>1. list \in Seq(Node) /\ DOMAIN list = 1 .. Len(list) /\ Len(list) \in Nat
  BY DEF Valid
<1>2. /\ t \in Seq(Node) /\ Len(t) = Len(list) - 1 /\ DOMAIN t = 1 .. Len(list) - 1
      /\ \A a \in DOMAIN t : t[a] = list[a]
  BY <1>1, FrontIs
<1>3. Last(list) = list[Len(list)]
  BY DEF Last
<1> HIDE DEF t
<1>4. \A i, j \in DOMAIN list : list[i].key = list[j].key => i = j
  BY DEF Valid
<1>5. \A a \in DOMAIN t : a \in DOMAIN list /\ h[a] = a
  BY <1>1, <1>2
<1>6. \A a \in DOMAIN t : t[a] = list[h[a]] /\ list[h[a]].key \notin {Last(list).key}
  <2> SUFFICES ASSUME NEW a \in DOMAIN t
               PROVE  t[a] = list[h[a]] /\ list[h[a]].key # Last(list).key
    OBVIOUS
  <2>1. a # Len(list) /\ Len(list) \in DOMAIN list
    BY <1>1, <1>2
  <2> QED
    BY <1>2, <1>3, <1>4, <1>5, <2>1
<1>7. \A i \in DOMAIN list : list[i].key \notin {Last(list).key} => \E a \in DOMAIN t : h[a] = i
  BY <1>1, <1>2, <1>3
<1>8. h \in [DOMAIN t -> DOMAIN list] /\ \A a, b \in DOMAIN t : a < b => h[a] < h[b]
  BY <1>5
<1> HIDE DEF h
<1>9. Thins(h, t, list, {Last(list).key})
  BY <1>2, <1>6, <1>7, <1>8 DEF Thins
<1> QED
  BY <1>9 DEF t

\* A list keeps all its nodes.
LEMMA SameThins ==
    ASSUME NEW list \in Seq(Node)
    PROVE  \E h : Thins(h, list, list, {})
<1> DEFINE h == [a \in DOMAIN list |-> a]
<1>1. Thins(h, list, list, {})
  BY DEF Thins
<1> QED
  BY <1>1

-----------------------------------------------------------------------------
(* The calls *)

\* A key that is found has a node, and its iterator leads there.
LEMMA FoundNode ==
    ASSUME LruInv, NEW k, Found(k)
    PROVE  \E i \in DOMAIN lru_list :
              /\ lru_list[i] \in Node /\ lru_list[i].at = map_[k] /\ lru_list[i].key = k
              /\ Deref(map_[k]) = lru_list[i]
<1>1. Valid(lru_list, map_)
  BY InvIs
<1>2. PICK i \in DOMAIN lru_list : lru_list[i].at = map_[k] /\ lru_list[i].key = k
  BY <1>1 DEF Valid, Found
<1>3. (CHOOSE x \in ToSet(lru_list) : x.at = map_[lru_list[i].key]) = lru_list[i]
  BY <1>1, Reached
<1>4. Deref(map_[k]) = lru_list[i]
  BY <1>2, <1>3 DEF Deref
<1>5. lru_list[i] \in Node
  BY <1>1 DEF Valid
<1> QED
  BY <1>2, <1>4, <1>5

\* A key that is found is used: its node moves to the front, with value v.
LEMMA UseFound ==
    ASSUME LruInv, NEW k \in CacheKeys, Found(k), NEW v \in Values,
           NEW x, x = [Deref(map_[k]) EXCEPT !.value = v]
    PROVE  Step(Spliced(x), map_, Touched(k, v),
                Holding(Contents, DOMAIN map_, k, v))
<1>0. Valid(lru_list, map_) /\ Recent(lru_list, uses) /\ Contents = Seen(lru_list, map_)
  BY InvIs, ContentsSeen
<1>1. PICK i \in DOMAIN lru_list :
         /\ lru_list[i] \in Node /\ lru_list[i].at = map_[k] /\ lru_list[i].key = k
         /\ Deref(map_[k]) = lru_list[i]
  BY FoundNode
<1>2. Deref(map_[k]) = lru_list[i] /\ lru_list[i] \in Node
  BY <1>1
<1>3. x = [at |-> map_[k], key |-> k, value |-> v] /\ x.at = map_[k]
  BY <1>1, <1>2 DEF Node
<1>4. {x.at} = {map_[j] : j \in {k} \cap DOMAIN map_}
  BY <1>3 DEF Found
<1>5. PICK h : Thins(h, Unlinked(lru_list, {x.at}), lru_list, {k})
  BY <1>0, <1>4, UnlinkThins
<1>6. PICK t : t = Unlinked(lru_list, {x.at})
  OBVIOUS
<1>7. /\ Thins(h, t, lru_list, {k}) /\ t \in Seq(Node)
      /\ \A a \in DOMAIN t : h[a] \in DOMAIN lru_list /\ t[a] = lru_list[h[a]]
                             /\ lru_list[h[a]].key # k
  <2>1. Thins(h, t, lru_list, {k})
    BY <1>5, <1>6
  <2>2. /\ t \in Seq(Node) /\ h \in [DOMAIN t -> DOMAIN lru_list]
        /\ \A a \in DOMAIN t : t[a] = lru_list[h[a]] /\ lru_list[h[a]].key # k
    BY <2>1 DEF Thins
  <2>3. \A a \in DOMAIN t : h[a] \in DOMAIN lru_list
    BY <2>2
  <2> QED
    BY <2>1, <2>2, <2>3
<1>8. \A a \in DOMAIN t : t[a].at # map_[k]
  <2>1. \A j \in DOMAIN lru_list : lru_list[i].at = lru_list[j].at => i = j
    BY <1>0 DEF Valid
  <2>2. \A j \in DOMAIN lru_list : lru_list[j].key # k => lru_list[j].at # map_[k]
    BY <1>1, <2>1
  <2> QED
    BY <1>7, <2>2
<1>9. Len(t) < CacheCapacity
  <2>1. Valid(t, Cut(map_, {k})) /\ Len(t) <= Len(lru_list)
    BY <1>0, <1>7, ThinValid
  <2>2. Len(lru_list) \in Nat /\ Len(lru_list) <= CacheCapacity /\ Len(t) \in Nat
    BY <1>0, <1>7 DEF Valid
  <2>3. Len(t) # Len(lru_list)
    <3>1. /\ IsFiniteSet(DOMAIN map_) /\ Cardinality(DOMAIN map_) = Len(lru_list)
          /\ Cardinality(DOMAIN Cut(map_, {k})) = Len(t)
      BY <1>0, <2>1, Counted
    <3>2. DOMAIN Cut(map_, {k}) = DOMAIN map_ \ {k} /\ k \in DOMAIN map_
      BY DEF Cut, Found
    <3>3. Cardinality(DOMAIN map_ \ {k}) = Cardinality(DOMAIN map_) - 1
      BY <3>1, <3>2, FS_RemoveElement
    <3> QED
      BY <2>2, <3>1, <3>2, <3>3
  <2> QED
    BY <2>1, <2>2, <2>3, LruAssumption
<1>10. map_[k] \in Addresses
  BY <1>0 DEF Valid, Found
<1>n. MakesRoom(h, t, lru_list, map_, {k}, k, map_[k])
  BY <1>7, <1>8, <1>9, <1>10 DEF MakesRoom
<1>11. Step(Pushed(map_[k], k, v, t), Added(Cut(map_, {k}), k, map_[k]), Used(k, v, uses),
            Holding(Seen(lru_list, map_), DOMAIN map_ \ {k}, k, v))
  BY <1>0, <1>n, UseStep
<1>12. Added(Cut(map_, {k}), k, map_[k]) = map_ /\ (DOMAIN map_ \ {k}) \cup {k} = DOMAIN map_
  <2>1. k \in DOMAIN map_ /\ map_ = [j \in DOMAIN map_ |-> map_[j]]
    BY <1>0 DEF Valid, Found
  <2>2. (DOMAIN map_ \ {k}) \cup {k} = DOMAIN map_
    BY <2>1
  <2>3. Added(Cut(map_, {k}), k, map_[k]) =
           [j \in DOMAIN map_ |-> IF j = k THEN map_[k] ELSE Cut(map_, {k})[j]]
    BY <2>2 DEF Added, Cut
  <2>4. \A j \in DOMAIN map_ : (IF j = k THEN map_[k] ELSE Cut(map_, {k})[j]) = map_[j]
    BY DEF Cut
  <2> QED
    BY <2>1, <2>2, <2>3, <2>4
<1>13. Spliced(x) = Pushed(map_[k], k, v, t) /\ Touched(k, v) = Used(k, v, uses)
  BY <1>3, <1>6 DEF Spliced, Touched, Pushed, Used
<1>14. Holding(Seen(lru_list, map_), DOMAIN map_ \ {k}, k, v) =
          Holding(Contents, DOMAIN map_, k, v)
  BY <1>0, <1>12 DEF Holding
<1> QED
  BY <1>11, <1>12, <1>13, <1>14

\* A hit leaves what is seen as it is.
LEMMA GetStep ==
    ASSUME LruInv, NEW k \in CacheKeys, get(k)
    PROVE  LruInv' /\ UNCHANGED Contents
<1>1. CASE ~Found(k)
  <2>1. lru_list' = lru_list /\ map_' = map_ /\ uses' = uses
    BY <1>1 DEF get
  <2> QED
    BY <2>1, InvIs, ContentsSeen
<1>2. CASE Found(k)
  <2>0. Valid(lru_list, map_) /\ Recent(lru_list, uses) /\ Contents = Seen(lru_list, map_)
    BY InvIs, ContentsSeen
  <2>1. PICK i \in DOMAIN lru_list :
           /\ lru_list[i] \in Node /\ lru_list[i].at = map_[k] /\ lru_list[i].key = k
           /\ Deref(map_[k]) = lru_list[i]
    BY <1>2, FoundNode
  <2>2. Deref(map_[k]) = lru_list[i] /\ lru_list[i] \in Node
    BY <2>1
  <2>3. PICK v : v = lru_list[i].value
    OBVIOUS
  <2>4. v \in Values /\ [Deref(map_[k]) EXCEPT !.value = v] = Deref(map_[k])
    BY <2>2, <2>3 DEF Node
  <2>5. (CHOOSE u \in ToSet(uses) : u.key = k).value = v
    <3>1. PICK j \in DOMAIN uses : uses[j].key = k /\ uses[j].value = v
      BY <2>0, <2>1, <2>3 DEF Recent
    <3>2. uses[j] \in ToSet(uses)
      BY <2>0 DEF ToSet, Recent
    <3>3. \A u \in ToSet(uses) : u.key = k => u = uses[j]
      BY <2>0, <3>1 DEF ToSet, Recent
    <3> QED
      BY <3>1, <3>2, <3>3
  <2>6. lru_list' = Spliced(Deref(map_[k])) /\ map_' = map_ /\ uses' = Touched(k, v)
    BY <1>2, <2>5 DEF get, Retouched
  <2>7. Step(lru_list', map_', uses', Holding(Contents, DOMAIN map_, k, v))
    BY <1>2, <2>4, <2>6, UseFound
  <2>8. Contents[k] = v /\ DOMAIN Contents = DOMAIN map_
    BY <2>0, <2>1, <2>3, SeenValues
  <2>9. Holding(Contents, DOMAIN map_, k, v) = Contents
    <3>1. Contents = [j \in DOMAIN map_ |-> Contents[j]]
      BY DEF Contents
    <3> QED
      BY <1>2, <2>8, <3>1 DEF Holding, Found
  <2>10. Contents' = Contents
    BY <2>7, <2>9, ContentsSeen DEF Step
  <2>11. LruInv'
    BY <2>7, InvIs DEF Step
  <2> QED
    BY <2>10, <2>11
<1> QED
  BY <1>1, <1>2

\* PartitionCache counts as this module does.
LEMMA SameCount == \A S : Promise!Cardinality(S) = Cardinality(S)
BY DEF Promise!Cardinality, Cardinality

\* put on a key that is found.
LEMMA PutFoundStep ==
    ASSUME LruInv, NEW k \in CacheKeys, NEW v \in Values, PutFound(k, v)
    PROVE  LruInv' /\ Promise!put(k, v)
<1>1. Found(k) /\ map_' = map_ /\ uses' = Touched(k, v)
  BY DEF PutFound
<1>2. PICK x : x = [Deref(map_[k]) EXCEPT !.value = v]
  OBVIOUS
<1>3. lru_list' = Spliced(x)
  BY <1>2 DEF PutFound
<1>4. Step(lru_list', map_', uses', Holding(Contents, DOMAIN map_, k, v))
  BY <1>1, <1>2, <1>3, UseFound
<1>5. LruInv'
  BY <1>4, InvIs DEF Step
<1>6. Contents' = Holding(Contents, DOMAIN Contents, k, v) /\ k \in DOMAIN Contents
  <2>1. DOMAIN Contents = DOMAIN map_
    BY DEF Contents
  <2> QED
    BY <1>1, <1>4, <2>1, ContentsSeen DEF Step, Found
<1>7. Promise!put(k, v)
  BY <1>6 DEF Promise!put, Promise!Cached, Promise!Store, Holding
<1> QED
  BY <1>5, <1>7

\* There is an address no node of the list has.
LEMMA FreshAddress ==
    ASSUME NEW list \in Seq(Node), Len(list) <= CacheCapacity
    PROVE  Fresh(list) \in Addresses /\ \A i \in DOMAIN list : list[i].at # Fresh(list)
<1> DEFINE A == {list[i].at : i \in DOMAIN list}
<1>1. Len(list) \in Nat /\ DOMAIN list = 1 .. Len(list) /\ CacheCapacity \in Nat
  BY LruAssumption
<1>2. IsFiniteSet(1 .. Len(list)) /\ Cardinality(1 .. Len(list)) = Len(list)
  <2>1. PICK n \in Nat : n = Len(list)
    BY <1>1
  <2>2. IsFiniteSet(1 .. n) /\ Cardinality(1 .. n) = IF 1 > n THEN 0 ELSE n - 1 + 1
    BY FS_Interval
  <2> QED
    BY <2>1, <2>2
<1>3. /\ IsFiniteSet(Addresses) /\ Cardinality(Addresses) = CacheCapacity + 1
  <2>1. PICK n : n = CacheCapacity + 1
    OBVIOUS
  <2>2. n \in Nat /\ Addresses = 1 .. n
    BY <1>1, <2>1 DEF Addresses
  <2>3. IsFiniteSet(1 .. n) /\ Cardinality(1 .. n) = IF 1 > n THEN 0 ELSE n - 1 + 1
    BY <2>2, FS_Interval
  <2> QED
    BY <1>1, <2>1, <2>2, <2>3
<1>4. IsFiniteSet(A) /\ Cardinality(A) <= Len(list)
  <2> DEFINE g == [i \in 1 .. Len(list) |-> list[i].at]
  <2>1. g \in Surjection(1 .. Len(list), A)
    BY <1>1 DEF Surjection
  <2> HIDE DEF g, A
  <2> QED
    BY <1>2, <2>1, FS_Surjection
<1>5. \E a \in Addresses : a \notin A
  <2> SUFFICES ASSUME Addresses \subseteq A PROVE FALSE
    OBVIOUS
  <2>1. Cardinality(Addresses) <= Cardinality(A)
    BY <1>4, FS_Subset
  <2>2. Cardinality(A) \in Nat
    BY <1>4, FS_CardinalityType
  <2> QED
    BY <1>1, <1>3, <1>4, <2>1, <2>2
<1>6. \E a \in Addresses : \A i \in DOMAIN list : list[i].at # a
  BY <1>5
<1> QED
  BY <1>6 DEF Fresh

\* A new key is put in front of what is kept of the list, without the keys G.
LEMMA EmplaceStep ==
    ASSUME LruInv, NEW k \in CacheKeys, NEW v \in Values, ~Found(k),
           NEW kept, NEW h, NEW G, Thins(h, kept, lru_list, G), Len(kept) < CacheCapacity,
           lru_list' = Pushed(Fresh(kept), k, v, kept),
           map_' = Added(Cut(map_, G), k, Fresh(kept)),
           uses' = Used(k, v, uses)
    PROVE  LruInv' /\ Contents' = Holding(Contents, DOMAIN Contents \ G, k, v)
<1>0. Valid(lru_list, map_) /\ Recent(lru_list, uses) /\ Contents = Seen(lru_list, map_)
  BY InvIs, ContentsSeen
<1>1. kept \in Seq(Node) /\ Len(kept) \in Nat
  BY DEF Thins
<1>2. PICK a : a = Fresh(kept)
  OBVIOUS
<1>3. a \in Addresses /\ \A i \in DOMAIN kept : kept[i].at # a
  BY <1>1, <1>2, LruAssumption, FreshAddress
<1>4. MakesRoom(h, kept, lru_list, map_, G, k, a)
  BY <1>3 DEF MakesRoom, Found
<1>5. Step(Pushed(a, k, v, kept), Added(Cut(map_, G), k, a), Used(k, v, uses),
           Holding(Seen(lru_list, map_), DOMAIN map_ \ G, k, v))
  BY <1>0, <1>4, UseStep
<1>6. Step(lru_list', map_', uses', Holding(Contents, DOMAIN map_ \ G, k, v))
  BY <1>0, <1>2, <1>5
<1>7. DOMAIN Contents = DOMAIN map_
  BY DEF Contents
<1> QED
  BY <1>6, <1>7, InvIs, ContentsSeen DEF Step

\* put on a key that is not found.
LEMMA PutNewStep ==
    ASSUME LruInv, NEW k \in CacheKeys, NEW v \in Values, PutNew(k, v)
    PROVE  LruInv' /\ Promise!put(k, v)
<1>0. Valid(lru_list, map_)
  BY InvIs
<1>1. lru_list \in Seq(Node) /\ Len(lru_list) \in Nat /\ CacheCapacity \in Nat \ {0}
  BY <1>0, LruAssumption DEF Valid
<1>2. ~Found(k) /\ uses' = Used(k, v, uses) /\ DOMAIN Contents = DOMAIN map_
  BY DEF PutNew, Emplace, Touched, Used, Contents
<1>3. Cardinality(DOMAIN Contents) = Len(lru_list) /\ k \notin DOMAIN Contents
  BY <1>0, <1>2, Counted DEF Found
<1>4. CASE Len(lru_list) < CacheCapacity
  <2>1. PICK h : Thins(h, lru_list, lru_list, {})
    BY <1>1, SameThins
  <2>2. lru_list' = Pushed(Fresh(lru_list), k, v, lru_list)
    BY <1>1, <1>4 DEF PutNew, Emplace, Pushed
  <2>3. map_' = Added(Cut(map_, {}), k, Fresh(lru_list))
    <3>1. Cut(map_, {}) = map_
      BY <1>0 DEF Cut, Valid
    <3>2. map_' = Added(map_, k, Fresh(lru_list))
      BY <1>1, <1>4 DEF PutNew, Emplace, WithoutLast, Added
    <3> QED
      BY <3>1, <3>2
  <2>4. LruInv' /\ Contents' = Holding(Contents, DOMAIN Contents \ {}, k, v)
    BY <1>2, <1>4, <2>1, <2>2, <2>3, EmplaceStep
  <2>5. DOMAIN Contents \ {} = DOMAIN Contents
    OBVIOUS
  <2> QED
    BY <1>3, <1>4, <2>4, <2>5, SameCount DEF Promise!put, Promise!Store, Holding
<1>5. CASE Len(lru_list) >= CacheCapacity
  <2>0. Len(lru_list) > 0
    BY <1>1, <1>5
  <2>1. PICK h : Thins(h, Front(lru_list), lru_list, {Last(lru_list).key})
    BY <1>0, <2>0, FrontThins
  <2>2. lru_list' = Pushed(Fresh(Front(lru_list)), k, v, Front(lru_list))
    BY <1>1, <1>5 DEF PutNew, Emplace, Pushed
  <2>3. map_' = Added(Cut(map_, {Last(lru_list).key}), k, Fresh(Front(lru_list)))
    <3>1. Cut(map_, {Last(lru_list).key}) = Erased({Last(lru_list).key})
      BY DEF Cut, Erased
    <3>2. map_' = Added(Erased({Last(lru_list).key}), k, Fresh(Front(lru_list)))
      BY <1>1, <1>5 DEF PutNew, Emplace, WithoutLast, Added
    <3> QED
      BY <3>1, <3>2
  <2>4. Len(Front(lru_list)) < CacheCapacity
    <3>1. Len(lru_list) <= CacheCapacity
      BY <1>0 DEF Valid
    <3>2. Len(Front(lru_list)) = Len(lru_list) - 1
      BY <1>1, <2>0, FrontIs
    <3> QED
      BY <1>1, <3>1, <3>2
  <2>5. LruInv' /\ Contents' = Holding(Contents, DOMAIN Contents \ {Last(lru_list).key}, k, v)
    BY <1>2, <2>1, <2>2, <2>3, <2>4, EmplaceStep
  <2>6. Last(lru_list).key \in DOMAIN Contents
    <3>1. Len(lru_list) \in DOMAIN lru_list
      BY <1>1, <1>5
    <3> QED
      BY <1>0, <1>2, <3>1 DEF Valid, Last
  <2> QED
    BY <1>3, <1>5, <2>5, <2>6, SameCount DEF Promise!put, Promise!Cached, Promise!Store, Holding
<1> QED
  BY <1>1, <1>4, <1>5

\* Erasing the keys of S erases them from what is seen.
LEMMA EraseStep ==
    ASSUME LruInv, NEW S, EraseAll(S)
    PROVE  LruInv' /\ Contents' = [k \in DOMAIN Contents \ S |-> Contents[k]]
<1>0. Valid(lru_list, map_) /\ Recent(lru_list, uses) /\ Contents = Seen(lru_list, map_)
  BY InvIs, ContentsSeen
<1>1. PICK A : A = {map_[k] : k \in S \cap DOMAIN map_}
  OBVIOUS
<1>2. lru_list' = Unlinked(lru_list, A) /\ uses' = uses
  BY <1>1 DEF EraseAll
<1>3. map_' = Cut(map_, S)
  BY DEF EraseAll, Erased, Cut
<1>4. PICK h : Thins(h, Unlinked(lru_list, A), lru_list, S)
  BY <1>0, <1>1, UnlinkThins
<1>5. Thins(h, lru_list', lru_list, S)
  BY <1>2, <1>4
<1>6. PICK t : t = lru_list'
  OBVIOUS
<1>t. Thins(h, t, lru_list, S)
  BY <1>5, <1>6
<1>v. Valid(t, Cut(map_, S))
  BY <1>0, <1>t, ThinValid
<1>7. Seen(t, Cut(map_, S)) = Cut(Seen(lru_list, map_), S)
  BY <1>0, <1>t, ThinSeen
<1>8. Recent(t, uses)
  BY <1>0, <1>t, ThinRecent DEF Valid
<1> QED
  BY <1>0, <1>2, <1>3, <1>6, <1>v, <1>7, <1>8, InvIs, ContentsSeen DEF Cut

LEMMA ClearStep ==
    ASSUME LruInv, clear
    PROVE  LruInv' /\ Contents' = [k \in DOMAIN Contents \ DOMAIN Contents |-> Contents[k]]
<1>1. lru_list' = <<>> /\ map_' = [k \in {} |-> map_[k]] /\ uses' = uses
  BY DEF clear, Erased
<1>2. Valid(lru_list', map_')
  BY <1>1, LruAssumption DEF Valid
<1>3. Recent(lru_list', uses')
  BY <1>1, InvIs DEF Recent
<1>4. Contents' = [k \in {} |-> Contents[k]]
  BY <1>1 DEF Contents
<1>5. DOMAIN Contents \ DOMAIN Contents = {}
  OBVIOUS
<1> QED
  BY <1>2, <1>3, <1>4, <1>5, InvIs

-----------------------------------------------------------------------------
(* The specification *)

LEMMA InitInv ==
    ASSUME Init
    PROVE  LruInv /\ Promise!CacheInit
<1>1. lru_list = <<>> /\ map_ = [k \in {} |-> 0] /\ uses = <<>>
  BY DEF Init, LruInit
<1>2. Valid(lru_list, map_)
  BY <1>1, LruAssumption DEF Valid
<1>3. Recent(lru_list, uses)
  BY <1>1 DEF Recent
<1>4. Contents = [k \in {} |-> {}]
  BY <1>1 DEF Contents
<1> QED
  BY <1>2, <1>3, <1>4, InvIs DEF Promise!CacheInit

\* A call keeps the invariant, and is a step of the promise or changes nothing seen.
LEMMA NextStep ==
    ASSUME LruInv, [Next]_vars
    PROVE  LruInv' /\ (Promise!CacheNext(CacheKeys, Values) \/ UNCHANGED Contents)
<1>1. CASE UNCHANGED vars
  <2>1. lru_list' = lru_list /\ map_' = map_ /\ uses' = uses
    BY <1>1 DEF vars, lruVars
  <2> QED
    BY <2>1, InvIs, ContentsSeen
<1>2. ASSUME NEW k \in CacheKeys, get(k)
      PROVE  LruInv' /\ UNCHANGED Contents
  BY <1>2, GetStep
<1>3. ASSUME NEW k \in CacheKeys, NEW v \in Values, put(k, v)
      PROVE  LruInv' /\ Promise!put(k, v)
  BY <1>3, PutFoundStep, PutNewStep DEF put
<1>4. ASSUME NEW k \in CacheKeys, invalidate(k)
      PROVE  LruInv' /\ Promise!invalidate(k)
  BY <1>4, EraseStep DEF invalidate, Promise!invalidate, Promise!Without
<1>5. ASSUME NEW n \in Names, invalidate_if(n)
      PROVE  LruInv' /\ Promise!invalidate_table_cache(n)
  <2>1. PICK S : S = {k \in CacheKeys : Promise!Matches(n, k)}
    OBVIOUS
  <2>2. LruInv' /\ Contents' = [k \in DOMAIN Contents \ S |-> Contents[k]]
    BY <1>5, <2>1, EraseStep DEF invalidate_if
  <2>3. DOMAIN Contents \subseteq CacheKeys
    BY InvIs DEF Valid, Contents
  <2>4. DOMAIN Contents \ S = DOMAIN Contents \ {k \in DOMAIN Contents : Promise!Matches(n, k)}
    BY <2>1, <2>3
  <2> QED
    BY <2>2, <2>4 DEF Promise!invalidate_table_cache, Promise!Without
<1>6. ASSUME clear PROVE LruInv' /\ Promise!clear
  BY <1>6, ClearStep DEF Promise!clear, Promise!Without
<1> QED
  BY <1>1, <1>2, <1>3, <1>4, <1>5, <1>6 DEF Next, Promise!CacheNext

\* In every state LruInv holds: after any sequence of calls on LRUCache.
THEOREM LruInvariant == Spec => []LruInv
<1>1. Init => LruInv
  BY InitInv
<1>2. LruInv /\ [Next]_vars => LruInv'
  BY NextStep
<1> QED
  BY <1>1, <1>2, PTL DEF Spec

\* No iterator of map_ dangles or leads to the node of another key, and the list
\* is never above capacity_, for every set of keys and every capacity.
THEOREM IteratorsAlwaysValid == Spec => []IteratorsValid
<1>1. LruInv => IteratorsValid
  BY DEF LruInv
<1> QED
  BY <1>1, LruInvariant, PTL

\* The list is the order of the last uses, and each node holds the value last
\* put: what get splices and what an eviction drops follow that order.
THEOREM ListAlwaysRecentUse == Spec => []ListIsRecentUse
<1>1. ASSUME LruInv PROVE ListIsRecentUse
  <2> DEFINE S == {u \in ToSet(uses) : Found(u.key)}
             t == [i \in DOMAIN lru_list |->
                      [key |-> lru_list[i].key, value |-> lru_list[i].value]]
             h == [i \in DOMAIN t |->
                      CHOOSE j \in DOMAIN uses : uses[j].key = lru_list[i].key]
  <2>0. Valid(lru_list, map_) /\ Recent(lru_list, uses)
    BY <1>1, InvIs
  <2>1. /\ lru_list \in Seq(Node) /\ uses \in Seq(Use)
        /\ DOMAIN lru_list = 1 .. Len(lru_list) /\ Len(lru_list) \in Nat
    BY <2>0 DEF Valid, Recent
  <2>2. t \in Seq(Use) /\ DOMAIN t = DOMAIN lru_list
    <3>1. \A i \in DOMAIN lru_list : t[i] \in Use
      <4> SUFFICES ASSUME NEW i \in DOMAIN lru_list PROVE t[i] \in Use
        OBVIOUS
      <4>1. lru_list[i] \in Node
        BY <2>1
      <4> QED
        BY <4>1 DEF Node, Use
    <3>2. DOMAIN t = 1 .. Len(lru_list)
      BY <2>1
    <3> HIDE DEF t
    <3>3. t \in [1 .. Len(lru_list) -> Use]
      BY <2>1, <3>1, <3>2 DEF t
    <3> QED
      BY <2>1, <3>2, <3>3
  <2>3. ASSUME NEW i \in DOMAIN t
        PROVE  /\ h[i] \in DOMAIN uses /\ uses[h[i]].key = lru_list[i].key
               /\ t[i] = uses[h[i]]
    <3>1. PICK j \in DOMAIN uses :
             uses[j].key = lru_list[i].key /\ uses[j].value = lru_list[i].value
      BY <2>0, <2>2 DEF Recent
    <3>2. h[i] \in DOMAIN uses /\ uses[h[i]].key = lru_list[i].key
      BY <3>1
    <3>3. h[i] = j
      BY <2>0, <3>1, <3>2 DEF Recent
    <3>4. uses[j] = [key |-> lru_list[i].key, value |-> lru_list[i].value]
      <4>1. uses[j] \in Use
        BY <2>1
      <4> QED
        BY <3>1, <4>1 DEF Use
    <3> QED
      BY <2>2, <3>2, <3>3, <3>4
  <2>4. \A i \in DOMAIN uses : uses[i] \in S <=> Found(uses[i].key)
    BY <2>1 DEF ToSet
  <2>5. h \in [DOMAIN t -> DOMAIN uses]
    BY <2>3
  <2> HIDE DEF S, t, h
  <2>6. \A i \in DOMAIN t : uses[h[i]] \in S
    BY <2>0, <2>2, <2>3, <2>4 DEF Valid, Found
  <2>7. \A a, b \in DOMAIN t : a < b => h[a] < h[b]
    BY <2>0, <2>2, <2>3 DEF Recent
  <2>8. ASSUME NEW j \in DOMAIN uses, uses[j] \in S PROVE \E i \in DOMAIN t : h[i] = j
    <3>1. PICK i \in DOMAIN lru_list : lru_list[i].key = uses[j].key
      BY <2>0, <2>4, <2>8 DEF Valid, Found
    <3> QED
      BY <2>0, <2>2, <2>3, <3>1 DEF Recent
  <2>9. Embeds(h, t, uses, S)
    BY <2>2, <2>3, <2>5, <2>6, <2>7, <2>8 DEF Embeds
  <2>10. Filter(uses, S) = t
    BY <2>1, <2>2, <2>9, FilterOnly
  <2> QED
    BY <2>10 DEF ListIsRecentUse, S, t
<1> QED
  BY <1>1, LruInvariant, PTL

\* LRUCache implements the map PartitionRegistry is modelled with: every call
\* is one step of PartitionCache, or one that does not show.
THEOREM CacheAlwaysImplemented == Spec => CacheImplemented
<1>1. Init => Promise!CacheInit
  BY InitInv
<1>2. LruInv /\ [Next]_vars => [Promise!CacheNext(CacheKeys, Values)]_Contents
  BY NextStep
<1> QED
  BY <1>1, <1>2, LruInvariant, PTL DEF Spec, CacheImplemented

=============================================================================
