----------------------------- MODULE QueryProofs ----------------------------
(***************************************************************************)
(* What the reading handlers return: ListSnapshots the newest part of one  *)
(* chain, with everything that was committed before the call, and a walk   *)
(* over the pages neither more nor less than the table.                    *)
(***************************************************************************)
EXTENDS HandlerProofs, OrderingProofs, SequenceTheorems

-----------------------------------------------------------------------------
(* build_snapshot_chain *)

\* Rows from the newest to the oldest, each the child of the next one.
Chain(list) ==
    /\ list \in Seq(SnapshotRow)
    /\ \A i \in DOMAIN list : list[i].parent_snapshot_id < list[i].snapshot_id
    /\ \A i, j \in DOMAIN list : i < j => list[j].snapshot_id < list[i].snapshot_id
    /\ \A i \in DOMAIN list :
          i + 1 \in DOMAIN list => list[i].parent_snapshot_id = list[i + 1].snapshot_id

\* The rows that the loop has visited after n turns, and its next turn.
NextId(chain, from) == IF chain = <<>> THEN from ELSE Last(chain).parent_snapshot_id

Turn(all, from, chain) ==
    IF NextId(chain, from) = 0 \/ Rows(all, NextId(chain, from)) = {} THEN chain
    ELSE Append(chain, index(all, NextId(chain, from)))

Walks(w, all, from) ==
    w = [n \in 0 .. Len(all) |-> IF n = 0 THEN <<>> ELSE Turn(all, from, w[n - 1])]

LEMMA ChainBuilt ==
    ASSUME NEW all, NEW from
    PROVE  build_snapshot_chain(all, from) = (CHOOSE w : Walks(w, all, from))[Len(all)]
BY DEF build_snapshot_chain, Walks, Turn, NextId

LEMMA ChainRows ==
    ASSUME NEW list, Chain(list), NEW i \in DOMAIN list
    PROVE  /\ list[i] \in SnapshotRow
           /\ list[i].snapshot_id \in Nat /\ list[i].parent_snapshot_id \in Nat
           /\ list[i].parent_snapshot_id < list[i].snapshot_id
<1>1. list[i] \in SnapshotRow
  BY DEF Chain
<1> QED
  BY <1>1 DEF Chain, SnapshotRow

\* The n-th turn on a chain visits its n-th row.
LEMMA ChainTurn ==
    ASSUME NEW list, Chain(list), NEW n \in 1 .. Len(list)
    PROVE  Turn(list, list[1].snapshot_id, SubSeq(list, 1, n - 1)) = SubSeq(list, 1, n)
<1> DEFINE c == SubSeq(list, 1, n - 1)
           x == NextId(c, list[1].snapshot_id)
<1>1. list \in Seq(SnapshotRow) /\ Len(list) \in Nat /\ DOMAIN list = 1 .. Len(list)
  BY DEF Chain
<1>2. c \in Seq(SnapshotRow) /\ Len(c) = n - 1
  BY <1>1
<1>3. \A i \in DOMAIN list :
         /\ list[i] \in SnapshotRow /\ list[i].snapshot_id \in Nat
         /\ list[i].parent_snapshot_id \in Nat
         /\ list[i].parent_snapshot_id < list[i].snapshot_id
  BY ChainRows
<1>4. n \in DOMAIN list
  BY <1>1
<1>5. x = list[n].snapshot_id
  <2>1. CASE n = 1
    <3>1. c = <<>>
      BY <1>2, <2>1
    <3> QED
      BY <2>1, <3>1 DEF NextId
  <2>2. CASE n # 1
    <3>1. n - 1 \in DOMAIN list /\ (n - 1) + 1 = n /\ n - 1 \in 1 .. Len(list)
      BY <1>1, <2>2
    <3>2. c # <<>>
      BY <1>2, <2>2
    <3>3. Last(c) = list[n - 1]
      BY <1>1, <1>2, <3>1 DEF Last
    <3>4. list[n - 1].parent_snapshot_id = list[n].snapshot_id
      BY <1>4, <3>1 DEF Chain
    <3> QED
      BY <3>2, <3>3, <3>4 DEF NextId
  <2> QED
    BY <2>1, <2>2
<1>6. x # 0
  BY <1>3, <1>4, <1>5
<1> HIDE DEF x
<1>7. Rows(list, x) = {n}
  <2>1. ASSUME NEW i \in DOMAIN list, list[i].snapshot_id = list[n].snapshot_id PROVE i = n
    <3>1. ~(i < n) /\ ~(n < i)
      BY <1>3, <1>4, <2>1 DEF Chain
    <3> QED
      BY <1>1, <3>1
  <2> QED
    BY <1>4, <1>5, <2>1 DEF Rows
<1>8. index(list, x) = list[n]
  BY <1>4, <1>7 DEF index
<1>9. Turn(list, list[1].snapshot_id, c) = Append(c, list[n])
  BY <1>6, <1>7, <1>8 DEF Turn, x
<1>10. Append(c, list[n]) = SubSeq(list, 1, n)
  <2>0. list[n] \in SnapshotRow /\ n \in Nat
    BY <1>3, <1>4
  <2>1. /\ Append(c, list[n]) \in Seq(SnapshotRow) /\ Len(Append(c, list[n])) = n
        /\ SubSeq(list, 1, n) \in Seq(SnapshotRow) /\ Len(SubSeq(list, 1, n)) = n
    BY <1>1, <1>2, <2>0
  <2>2. \A i \in 1 .. n : Append(c, list[n])[i] = SubSeq(list, 1, n)[i]
    BY <1>1, <1>2, <2>0
  <2> HIDE DEF c
  <2> QED
    BY <2>1, <2>2, SeqEqual
<1> QED
  BY <1>9, <1>10

\* The loop, started at the first row of a chain, gives the chain back.
LEMMA ChainGivenBack ==
    ASSUME NEW list, Chain(list), list # <<>>
    PROVE  build_snapshot_chain(list, list[1].snapshot_id) = list
<1> DEFINE L == Len(list)
           from == list[1].snapshot_id
           c == [n \in 0 .. L |-> SubSeq(list, 1, n)]
<1>1. list \in Seq(SnapshotRow) /\ L \in Nat /\ DOMAIN list = 1 .. L
  BY DEF Chain
<1>2. \A n \in 1 .. L : Turn(list, from, SubSeq(list, 1, n - 1)) = SubSeq(list, 1, n)
  BY ChainTurn
<1>3. SubSeq(list, 1, 0) = <<>> /\ SubSeq(list, 1, L) = list
  BY <1>1
<1>4. Walks(c, list, from)
  <2>1. \A n \in 0 .. L : n # 0 => n - 1 \in 0 .. L /\ n \in 1 .. L
    BY <1>1
  <2>2. \A n \in 0 .. L :
           c[n] = IF n = 0 THEN <<>> ELSE Turn(list, from, c[n - 1])
    BY <1>2, <1>3, <2>1
  <2>3. c = [n \in 0 .. L |-> c[n]]
    OBVIOUS
  <2> HIDE DEF c, from
  <2> QED
    BY <2>2, <2>3 DEF Walks
<1>5. ASSUME NEW w, Walks(w, list, from) PROVE w = c
  <2>1. /\ DOMAIN w = 0 .. L /\ w = [n \in 0 .. L |-> w[n]]
        /\ \A n \in 0 .. L : w[n] = IF n = 0 THEN <<>> ELSE Turn(list, from, w[n - 1])
    <3> HIDE DEF from
    <3> QED
      BY <1>5 DEF Walks
  <2> DEFINE Bad == {n \in 0 .. L : w[n] # c[n]}
  <2>2. CASE Bad = {}
    BY <2>1, <2>2
  <2>3. CASE Bad # {}
    <3>1. Bad \subseteq Nat
      BY <1>1
    <3>2. PICK m \in Bad : \A x \in Bad : m <= x
      <4> HIDE DEF Bad
      <4> QED
        BY <2>3, <3>1, Least
    <3>3. m \in 0 .. L /\ m # 0
      BY <1>3, <2>1
    <3>4. m - 1 \in 0 .. L /\ m \in 1 .. L /\ ~(m <= m - 1)
      BY <1>1, <3>3
    <3>5. w[m - 1] = SubSeq(list, 1, m - 1)
      BY <3>2, <3>4
    <3>6. w[m] = SubSeq(list, 1, m)
      BY <1>2, <2>1, <3>3, <3>4, <3>5
    <3> QED
      BY <3>2, <3>3, <3>6
  <2> QED
    BY <2>2, <2>3
<1> HIDE DEF c, from
<1>6. (CHOOSE w : Walks(w, list, from)) = c
  BY <1>4, <1>5
<1>7. c[L] = list
  BY <1>1, <1>3 DEF c
<1> QED
  BY <1>6, <1>7, ChainBuilt DEF from

\* A row of a chain is an ancestor of the rows before it, and of no other.
LEMMA ChainAncestors ==
    ASSUME NEW list, Chain(list), NEW i \in DOMAIN list, NEW j \in DOMAIN list
    PROVE  is_ancestor_of(list[j], list[i].parent_snapshot_id) <=> j > i
<1>1. list \in Seq(SnapshotRow) /\ Len(list) \in Nat /\ DOMAIN list = 1 .. Len(list)
  BY DEF Chain
<1>2. \A k \in DOMAIN list :
         /\ list[k].snapshot_id \in Nat /\ list[k].parent_snapshot_id \in Nat
         /\ list[k].parent_snapshot_id < list[k].snapshot_id
  BY ChainRows
<1>3. CASE j > i
  <2>1. i + 1 \in DOMAIN list /\ (i + 1 = j \/ i + 1 < j)
    BY <1>1, <1>3
  <2>2. list[i].parent_snapshot_id = list[i + 1].snapshot_id
    BY <2>1 DEF Chain
  <2>3. i + 1 < j => list[j].snapshot_id < list[i + 1].snapshot_id
    BY <2>1 DEF Chain
  <2>4. list[j].snapshot_id <= list[i + 1].snapshot_id
    BY <1>2, <2>1, <2>3
  <2> QED
    BY <1>3, <2>2, <2>4 DEF is_ancestor_of
<1>4. CASE ~(j > i)
  <2>1. j = i \/ j < i
    BY <1>1, <1>4
  <2>2. j < i => list[i].snapshot_id < list[j].snapshot_id
    BY DEF Chain
  <2>3. ~(list[j].snapshot_id <= list[i].parent_snapshot_id)
    BY <1>2, <2>1, <2>2
  <2> QED
    BY <1>4, <2>3 DEF is_ancestor_of
<1> QED
  BY <1>3, <1>4

-----------------------------------------------------------------------------
(* The rows of ListSnapshots *)

\* The snapshots of one table, as the relations hold them.
TableHistory(id) ==
    /\ \A a \in SnapshotsOf(id) : a \in SnapshotRow /\ a.parent_snapshot_id < a.snapshot_id
    /\ \A a, b \in SnapshotsOf(id) :
          ~(a.parent_snapshot_id < b.snapshot_id /\ b.snapshot_id < a.snapshot_id)
    /\ \A a \in SnapshotsOf(id) :
          a.parent_snapshot_id = 0 \/ a.parent_snapshot_id \in IdsOf(id)
    /\ IdsOf(id) \subseteq Nat /\ IsFiniteSet(IdsOf(id))

\* Also a dropped table has its history, and a purged one has none.
LEMMA HistoryHeld ==
    ASSUME DbTypeOK, LinearHistory, RowsInv, OwnedInv, NEW id
    PROVE  TableHistory(id)
<1>1. ASSUME NEW a \in SnapshotsOf(id)
      PROVE  /\ a \in SnapshotRow /\ a \in snapshots /\ a.table_id = id
             /\ a.snapshot_id \in Nat /\ a.snapshot_id \in IdsOf(id)
             /\ \E t \in tables : t.table_id = id
  BY DEF DbTypeOK, SnapshotRow, SnapshotsOf, IdsOf, OwnedInv
<1>2. ASSUME NEW a \in SnapshotsOf(id)
      PROVE  a.parent_snapshot_id = 0 \/ a.parent_snapshot_id \in IdsOf(id)
  <2>1. PICK t \in tables : t.table_id = id
    BY <1>1
  <2>2. CASE a.parent_snapshot_id # 0
    <3>1. PICK b \in snapshots : b.table_id = id /\ b.snapshot_id = a.parent_snapshot_id
      BY <1>1, <2>1, <2>2 DEF LinearHistory
    <3>2. b \in SnapshotsOf(id)
      BY <3>1 DEF SnapshotsOf
    <3> QED
      BY <3>1, <3>2 DEF IdsOf
  <2> QED
    BY <2>2
<1>3. IdsOf(id) \subseteq Nat
  BY <1>1 DEF IdsOf
<1>4. IsFiniteSet(IdsOf(id))
  <2>1. CASE SnapshotsOf(id) = {}
    <3>1. IdsOf(id) = {}
      BY <2>1 DEF IdsOf
    <3> QED
      BY <3>1, FS_EmptySet
  <2>2. CASE SnapshotsOf(id) # {}
    <3>1. PICK t \in tables : t.table_id = id
      BY <1>1, <2>2
    <3>2. PICK c \in Nat : c = t.current_snapshot_id
      BY DEF DbTypeOK, TableRow
    <3>3. \A a \in SnapshotsOf(id) : a.snapshot_id \in 0 .. c
      <4> SUFFICES ASSUME NEW a \in SnapshotsOf(id) PROVE a.snapshot_id \in 0 .. c
        OBVIOUS
      <4>1. a.snapshot_id <= c /\ a.snapshot_id \in Nat
        BY <1>1, <3>1, <3>2 DEF RowsInv
      <4> QED
        BY <4>1
    <3>4. IdsOf(id) \in SUBSET (0 .. c)
      BY <3>3 DEF IdsOf
    <3>5. IsFiniteSet(0 .. c)
      BY FS_Interval
    <3> QED
      BY <3>4, <3>5, FS_Subset
  <2> QED
    BY <2>1, <2>2
<1>5. \A a \in SnapshotsOf(id) : a \in SnapshotRow /\ a.parent_snapshot_id < a.snapshot_id
  BY <1>1 DEF LinearHistory
<1>6. \A a, b \in SnapshotsOf(id) :
         ~(a.parent_snapshot_id < b.snapshot_id /\ b.snapshot_id < a.snapshot_id)
  BY <1>1 DEF LinearHistory
<1> QED
  BY <1>2, <1>3, <1>4, <1>5, <1>6 DEF TableHistory

\* The row of a snapshot.
LEMMA RowFound ==
    ASSUME NEW id, NEW s \in IdsOf(id)
    PROVE  RowOf(id, s) \in SnapshotsOf(id) /\ RowOf(id, s).snapshot_id = s
<1>1. \E a \in SnapshotsOf(id) : a.snapshot_id = s
  BY DEF IdsOf
<1> QED
  BY <1>1 DEF RowOf

\* The listing is a chain from the newest snapshot on, cut at its size.
LEMMA ListingChain ==
    ASSUME NEW id, TableHistory(id), NEW size \in Nat \ {0},
           NEW list, list = list_snapshots(id, size)
    PROVE  /\ Chain(list)
           /\ list # <<>> => Len(list) = size \/ Last(list).parent_snapshot_id = 0
           /\ \A s \in IdsOf(id) : list # <<>> /\ list[1].snapshot_id >= s
<1> DEFINE I == IdsOf(id)
           N == Cardinality(I)
           L == Limited(id, size)
<1>1. /\ N \in Nat
      /\ \A n \in 1 .. N : Nth(I, n) \in I
      /\ \A n, m \in 1 .. N : n < m => Nth(I, n) < Nth(I, m)
      /\ \A i \in I : \E n \in 1 .. N : Nth(I, n) = i
  <2>1. I \subseteq Int /\ IsFiniteSet(I)
    BY DEF TableHistory
  <2> HIDE DEF I
  <2> QED
    BY <2>1, NthMember
<1>2. L \in Nat /\ L <= N /\ (L = size \/ L = N) /\ (N # 0 => L # 0)
  BY <1>1 DEF Limited
<1>i. \A s \in I : s \in Nat
  BY DEF TableHistory
<1> HIDE DEF I, N, L
<1>3. /\ list = [i \in 1 .. L |-> RowOf(id, Nth(I, N + 1 - i))]
      /\ DOMAIN list = 1 .. L
  BY DEF list_snapshots, I, N, L
<1>4. ASSUME NEW i \in 1 .. L
      PROVE  /\ N + 1 - i \in 1 .. N /\ Nth(I, N + 1 - i) \in I
             /\ list[i] \in SnapshotsOf(id) /\ list[i].snapshot_id = Nth(I, N + 1 - i)
             /\ list[i] \in SnapshotRow
             /\ list[i].parent_snapshot_id < list[i].snapshot_id
             /\ list[i].snapshot_id \in Nat /\ list[i].parent_snapshot_id \in Nat
  <2>1. N + 1 - i \in 1 .. N
    BY <1>1, <1>2
  <2>2. Nth(I, N + 1 - i) \in I
    BY <1>1, <2>1
  <2>3. list[i] = RowOf(id, Nth(I, N + 1 - i))
    BY <1>3
  <2>4. list[i] \in SnapshotsOf(id) /\ list[i].snapshot_id = Nth(I, N + 1 - i)
    BY <2>2, <2>3, RowFound DEF I
  <2>5. list[i] \in SnapshotRow /\ list[i].parent_snapshot_id < list[i].snapshot_id
    BY <2>4 DEF TableHistory
  <2> QED
    BY <2>1, <2>2, <2>4, <2>5 DEF SnapshotRow
<1>5. list \in Seq(SnapshotRow) /\ Len(list) = L
  <2>1. list \in [1 .. L -> SnapshotRow]
    BY <1>3, <1>4
  <2> QED
    BY <1>2, <2>1, <1>3
<1>6. ASSUME NEW i \in 1 .. L, NEW j \in 1 .. L, i < j
      PROVE  list[j].snapshot_id < list[i].snapshot_id
  <2>1. N + 1 - j < N + 1 - i
    BY <1>1, <1>2, <1>6
  <2> QED
    BY <1>1, <1>4, <2>1
<1>7. ASSUME NEW i \in 1 .. L, i + 1 \in 1 .. L
      PROVE  list[i].parent_snapshot_id = list[i + 1].snapshot_id
  <2>1. PICK p \in Nat : p = list[i].parent_snapshot_id
    BY <1>4
  <2>2. PICK s \in Nat : s = list[i + 1].snapshot_id
    BY <1>4, <1>7
  <2>3. list[i + 1].snapshot_id < list[i].snapshot_id /\ i \in Nat
    BY <1>2, <1>6, <1>7
  <2>4. s <= p
    <3>1. ~(p < s)
      BY <1>4, <1>7, <2>1, <2>2, <2>3 DEF TableHistory
    <3> QED
      BY <3>1
  <2>5. 0 < s
    BY <1>4, <1>7, <2>2
  <2>6. p \in I
    <3>1. p # 0
      BY <2>4, <2>5
    <3> QED
      BY <1>4, <2>1, <3>1 DEF TableHistory, I
  <2>7. PICK m \in 1 .. N : Nth(I, m) = p
    BY <1>1, <2>6
  <2>8. p < Nth(I, N + 1 - i) /\ N + 1 - i \in 1 .. N
    BY <1>4, <2>1
  <2>9. ~(N + 1 - i <= m)
    <3>1. N + 1 - i = m => Nth(I, N + 1 - i) = p
      BY <2>7
    <3>2. N + 1 - i < m => Nth(I, N + 1 - i) < p
      BY <1>1, <2>7, <2>8
    <3>3. Nth(I, N + 1 - i) \in Nat
      BY <1>4
    <3> QED
      BY <1>1, <1>2, <2>8, <3>1, <3>2, <3>3
  <2>10. N + 1 - (i + 1) \in 1 .. N /\ s = Nth(I, N + 1 - (i + 1))
    BY <1>4, <1>7, <2>2
  <2>11. m = N + 1 - (i + 1) \/ m < N + 1 - (i + 1)
    BY <1>1, <1>2, <2>9
  <2>12. m < N + 1 - (i + 1) => p < s
    BY <1>1, <2>7, <2>10
  <2>13. m = N + 1 - (i + 1) => p = s
    BY <2>7, <2>10
  <2> QED
    BY <2>1, <2>2, <2>4, <2>11, <2>12, <2>13
<1>8. Chain(list)
  BY <1>3, <1>4, <1>5, <1>6, <1>7 DEF Chain
<1>9. ASSUME list # <<>> PROVE Len(list) = size \/ Last(list).parent_snapshot_id = 0
  <2>1. CASE L = size
    BY <1>5, <2>1
  <2>2. CASE L = N
    <3>1. L \in 1 .. L
      BY <1>2, <1>5, <1>9
    <3>2. Last(list) = list[L]
      BY <1>5 DEF Last
    <3>3. PICK p \in Nat : p = list[L].parent_snapshot_id
      BY <1>4, <3>1
    <3>4. CASE p \in I
      <4>1. PICK m \in 1 .. N : Nth(I, m) = p
        BY <1>1, <3>4
      <4>2. N + 1 - L = 1
        BY <1>1, <2>2
      <4>3. p < Nth(I, 1) /\ Nth(I, 1) \in Nat /\ 1 \in 1 .. N
        BY <1>4, <3>1, <3>3, <4>2
      <4>4. 1 < m => Nth(I, 1) < p
        BY <1>1, <4>1, <4>3
      <4>5. 1 = m => Nth(I, 1) = p
        BY <4>1
      <4> QED
        BY <4>1, <4>3, <4>4, <4>5
    <3>5. CASE p \notin I
      BY <1>4, <3>1, <3>2, <3>3, <3>5 DEF TableHistory, I
    <3> QED
      BY <3>4, <3>5
  <2> QED
    BY <1>2, <2>1, <2>2
<1>10. ASSUME NEW s \in I PROVE list # <<>> /\ list[1].snapshot_id >= s
  <2>1. PICK m \in 1 .. N : Nth(I, m) = s
    BY <1>1, <1>10
  <2>2. N # 0 /\ 1 \in 1 .. L /\ N \in 1 .. N
    BY <1>1, <1>2, <2>1
  <2>3. N + 1 - 1 = N
    BY <1>1
  <2>4. list[1].snapshot_id = Nth(I, N) /\ list[1].snapshot_id \in Nat
    BY <1>4, <2>2, <2>3
  <2>5. m < N => s < Nth(I, N)
    BY <1>1, <2>1, <2>2
  <2>6. m = N \/ m < N
    BY <1>1
  <2>7. s \in Nat
    BY <1>i
  <2>8. list[1].snapshot_id >= s
    BY <2>1, <2>4, <2>5, <2>6, <2>7
  <2> QED
    BY <1>2, <1>5, <2>2, <2>8
<1> QED
  BY <1>8, <1>9, <1>10 DEF I

-----------------------------------------------------------------------------
(* What the other handlers leave to a query *)

\* A table that was there before a step had an older pointer, or the same.
LEMMA TableAdvances ==
    ASSUME SafetyInv, NEW th \in Threads, ThreadStep(th),
           NEW u \in tables', u.table_id <= table_seq
    PROVE  \E t \in tables : /\ t.table_id = u.table_id
                             /\ t.current_snapshot_id <= u.current_snapshot_id
<1>a. DbTypeOK /\ DbInv /\ TypeOK /\ snap[th] \in Nat
  BY DEF SafetyInv, TypeOK, ThreadTypeOK
<1>b. \A t \in tables : t \in TableRow /\ t.table_id \in Nat /\ t.current_snapshot_id \in Nat
  BY <1>a DEF DbTypeOK, TableRow
<1>1. CASE u \in tables
  BY <1>1, <1>b
<1>2. CASE u \notin tables
  <2>1. CASE RowsKept
    BY <1>2, <2>1 DEF RowsKept
  <2>2. CASE Creates(th)
    <3>1. u.table_id = table_seq + 1
      BY <1>2, <2>2 DEF Creates, NewTable
    <3> QED
      BY <1>a, <3>1 DEF DbTypeOK
  <2>3. ASSUME NEW r \in get_table(Name(th)), CommitsTo(th, r)
        PROVE  r.table_id = u.table_id /\ r.current_snapshot_id <= u.current_snapshot_id
    <3>1. r \in TableRow /\ u = [r EXCEPT !.current_snapshot_id = snap[th]]
      BY <1>2, <1>b, <2>3 DEF CommitsTo, RowBecomes, get_table
    <3>2. u.table_id = r.table_id /\ u.current_snapshot_id = snap[th]
      BY <3>1 DEF TableRow
    <3>3. r.current_snapshot_id \in Nat /\ r.current_snapshot_id < snap[th]
      BY <2>3, <3>1 DEF CommitsTo, TableRow
    <3> QED
      BY <1>a, <3>2, <3>3
  <2>4. ASSUME NEW r \in get_table(Name(th)), Alters(th, r)
        PROVE  r.table_id = u.table_id /\ r.current_snapshot_id <= u.current_snapshot_id
    <3>1. r \in TableRow /\ u = [r EXCEPT !.schema = req[th].schema,
                                          !.schema_version = r.schema_version + 1]
      BY <1>2, <1>b, <2>4 DEF Alters, RowBecomes, get_table
    <3> QED
      BY <3>1 DEF TableRow
  <2>5. ASSUME NEW r \in get_table(Name(th)), Renames(th, r)
        PROVE  r.table_id = u.table_id /\ r.current_snapshot_id <= u.current_snapshot_id
    <3>1. r \in TableRow /\ u = [r EXCEPT !.table_name = req[th].to]
      BY <1>2, <1>b, <2>5 DEF Renames, RowBecomes, get_table
    <3> QED
      BY <3>1 DEF TableRow
  <2>6. ASSUME NEW r \in get_table(Name(th)), SoftDrops(r)
        PROVE  r.table_id = u.table_id /\ r.current_snapshot_id <= u.current_snapshot_id
    <3>1. r \in TableRow /\ u = [r EXCEPT !.is_deleted = TRUE]
      BY <1>2, <1>b, <2>6 DEF SoftDrops, RowBecomes, get_table
    <3> QED
      BY <3>1 DEF TableRow
  <2>7. ASSUME NEW r \in get_table(Name(th)), Purges(r) PROVE FALSE
    BY <1>2, <2>7 DEF Purges
  <2>8. \A r \in get_table(Name(th)) : r \in tables
    BY DEF get_table
  <2> QED
    BY <2>1, <2>2, <2>3, <2>4, <2>5, <2>6, <2>7, <2>8, Effects
<1> QED
  BY <1>1, <1>2

\* A snapshot stays as long as its table does.
LEMMA SnapshotStays ==
    ASSUME SafetyInv, NEW th \in Threads, ThreadStep(th), NEW a \in snapshots,
           NEW u \in tables', u.table_id = a.table_id
    PROVE  a \in snapshots'
<1>a. DbInv
  BY DEF SafetyInv
<1>1. ASSUME NEW r \in get_table(Name(th)), Purges(r) PROVE a \in snapshots'
  <2>1. r \in tables /\ u \in tables /\ u # r
    BY <1>1 DEF Purges, get_table
  <2>2. a.table_id # r.table_id
    BY <1>a, <2>1 DEF DbInv
  <2> QED
    BY <1>1, <2>2 DEF Purges, DeleteFrom
<1> QED
  BY <1>1, Effects DEF RowsKept, Creates, CommitsTo, Alters, Renames, SoftDrops

\* Snapshots are written for tables that are there, and go with them.
LEMMA OwnedStep ==
    ASSUME SafetyInv, OwnedInv, NEW th \in Threads, ThreadStep(th)
    PROVE  OwnedInv'
<1>a. DbInv /\ DbTypeOK
  BY DEF SafetyInv, TypeOK
<1>b. ASSUME NEW r \in tables, NEW u, RowBecomes(r, u), u.table_id = r.table_id,
             NEW a, \E t \in tables : t.table_id = a.table_id
      PROVE  \E t \in tables' : t.table_id = a.table_id
  <2>1. PICK t \in tables : t.table_id = a.table_id
    BY <1>b
  <2>2. u \in tables' /\ (t = r \/ t \in tables')
    BY <1>b DEF RowBecomes
  <2> QED
    BY <1>b, <2>1, <2>2
<1>c. \A r \in get_table(Name(th)) : r \in tables /\ r \in TableRow
  BY <1>a DEF get_table, DbTypeOK
<1>1. CASE RowsKept \/ Creates(th)
  BY <1>1 DEF RowsKept, Creates, OwnedInv
<1>2. ASSUME NEW r \in get_table(Name(th)), CommitsTo(th, r) PROVE OwnedInv'
  <2>1. PICK u : u = [r EXCEPT !.current_snapshot_id = snap[th]]
    OBVIOUS
  <2>2. u.table_id = r.table_id /\ RowBecomes(r, u) /\ r \in tables
    BY <1>2, <1>c, <2>1 DEF CommitsTo, TableRow
  <2>3. \A a \in snapshots' : a \in snapshots \/ a.table_id = r.table_id
    BY <1>2 DEF CommitsTo
  <2>4. \A a \in snapshots' : \E t \in tables : t.table_id = a.table_id
    BY <2>2, <2>3 DEF OwnedInv
  <2> QED
    BY <1>b, <2>2, <2>4 DEF OwnedInv
<1>3. ASSUME NEW r \in get_table(Name(th)), NEW u, RowBecomes(r, u),
             u.table_id = r.table_id, UNCHANGED snapshots
      PROVE  OwnedInv'
  BY <1>3, <1>b, <1>c DEF OwnedInv
<1>4. ASSUME NEW r \in get_table(Name(th)), Alters(th, r) PROVE OwnedInv'
  <2>1. PICK u : u = [r EXCEPT !.schema = req[th].schema,
                               !.schema_version = r.schema_version + 1]
    OBVIOUS
  <2>2. u.table_id = r.table_id /\ RowBecomes(r, u) /\ UNCHANGED snapshots
    BY <1>4, <1>c, <2>1 DEF Alters, TableRow
  <2> QED
    BY <1>3, <2>2
<1>5. ASSUME NEW r \in get_table(Name(th)), Renames(th, r) PROVE OwnedInv'
  <2>1. PICK u : u = [r EXCEPT !.table_name = req[th].to]
    OBVIOUS
  <2>2. u.table_id = r.table_id /\ RowBecomes(r, u) /\ UNCHANGED snapshots
    BY <1>5, <1>c, <2>1 DEF Renames, TableRow
  <2> QED
    BY <1>3, <2>2
<1>6. ASSUME NEW r \in get_table(Name(th)), SoftDrops(r) PROVE OwnedInv'
  <2>1. PICK u : u = [r EXCEPT !.is_deleted = TRUE]
    OBVIOUS
  <2>2. u.table_id = r.table_id /\ RowBecomes(r, u) /\ UNCHANGED snapshots
    BY <1>6, <1>c, <2>1 DEF SoftDrops, TableRow
  <2> QED
    BY <1>3, <2>2
<1>7. ASSUME NEW r \in get_table(Name(th)), Purges(r) PROVE OwnedInv'
  <2>1. \A a \in snapshots' : a \in snapshots /\ a.table_id # r.table_id
    BY <1>7 DEF Purges, DeleteFrom
  <2>2. \A t \in tables : t.table_id # r.table_id => t \in tables'
    BY <1>7 DEF Purges
  <2> QED
    BY <2>1, <2>2 DEF OwnedInv
<1> QED
  BY <1>1, <1>2, <1>4, <1>5, <1>6, <1>7, Effects

\* What a query has seen stays.
LEMMA SeenStep ==
    ASSUME SafetyInv, QueryTypeOK, SeenInv, NEW th \in Threads, ThreadStep(th),
           UNCHANGED query
    PROVE  SeenInv'
<1> SUFFICES ASSUME NEW q \in Threads, query[q].at # "idle",
                    NEW seen, seen = query[q].seen
             PROVE  /\ seen.id <= table_seq'
                    /\ \A t \in tables' : t.table_id = seen.id =>
                          /\ seen.current <= t.current_snapshot_id
                          /\ seen.current # 0 =>
                                \E a \in snapshots' : /\ a.table_id = seen.id
                                                      /\ a.snapshot_id = seen.current
  BY DEF SeenInv, Asking
<1>0. query[q] \in Query
  BY DEF QueryTypeOK, NoQuery
<1>1. seen.id \in Nat \cup {-1} /\ seen.current \in Nat
  BY <1>0 DEF Query
<1>2. /\ seen.id <= table_seq
      /\ \A t \in tables : t.table_id = seen.id =>
            /\ seen.current <= t.current_snapshot_id
            /\ seen.current # 0 =>
                  \E a \in snapshots : a.table_id = seen.id /\ a.snapshot_id = seen.current
  BY DEF SeenInv, Asking
<1>a. DbTypeOK /\ DbTypeOK' /\ SafetyInv'
  BY ThreadStepSafe DEF SafetyInv, TypeOK
<1>3. table_seq' >= table_seq
  <2>0. table_seq \in Nat
    BY <1>a DEF DbTypeOK
  <2>1. CASE RowsKept
    BY <2>1 DEF RowsKept
  <2>2. CASE Creates(th)
    BY <2>0, <2>2 DEF Creates
  <2>3. ASSUME NEW r, CommitsTo(th, r) \/ Alters(th, r) \/ Renames(th, r)
                      \/ SoftDrops(r) \/ Purges(r)
        PROVE  table_seq' = table_seq
    BY <2>3 DEF CommitsTo, Alters, Renames, SoftDrops, Purges
  <2> QED
    BY <2>0, <2>1, <2>2, <2>3, Effects
<1>4. seen.id <= table_seq'
  BY <1>a, <1>1, <1>2, <1>3 DEF DbTypeOK
<1>5. ASSUME NEW u \in tables', u.table_id = seen.id
      PROVE  /\ seen.current <= u.current_snapshot_id
             /\ seen.current # 0 =>
                   \E a \in snapshots' : a.table_id = seen.id /\ a.snapshot_id = seen.current
  <2>1. PICK t \in tables : /\ t.table_id = u.table_id
                            /\ t.current_snapshot_id <= u.current_snapshot_id
    BY <1>2, <1>5, TableAdvances
  <2>2. t.current_snapshot_id \in Nat /\ u.current_snapshot_id \in Nat
    BY <1>a DEF DbTypeOK, TableRow
  <2>3. seen.current <= u.current_snapshot_id
    BY <1>1, <1>2, <1>5, <2>1, <2>2
  <2>4. CASE seen.current # 0
    <3>1. PICK a \in snapshots : a.table_id = seen.id /\ a.snapshot_id = seen.current
      BY <1>2, <1>5, <2>1, <2>4
    <3>2. a \in snapshots'
      BY <1>5, <3>1, SnapshotStays
    <3> QED
      BY <2>3, <3>1, <3>2
  <2> QED
    BY <2>3, <2>4
<1> QED
  BY <1>4, <1>5

-----------------------------------------------------------------------------
(* The steps of a query *)

\* What th asks: its query is new.
Asked(th) ==
    \E r \in Queries :
       query'[th] = [at |-> FirstStep(r.op), ask |-> r, snap |-> r.snap, rows |-> {},
                     tid |-> -1, list |-> <<>>,
                     seen |-> [id |-> get_table_id(r.name),
                               current |-> get_current_snapshot(r.name)]]

\* The rows a listing or a lookup answers with.
Listed(th) ==
    /\ query'[th].tid = query[th].tid
    /\ query'[th].list \in OrNothing(IF Q(th).op = "list"
                                       THEN list_snapshots(query[th].tid, Q(th).size)
                                       ELSE get_snapshot(query[th].tid, Q(th).snap), <<>>)

\* A query goes on: what was asked and seen stays.
Moved(th) ==
    /\ query[th] \in Query
    /\ query'[th] \in Query
    /\ query'[th].ask = query[th].ask /\ query'[th].seen = query[th].seen
    /\ query'[th].at # "done" \/ Q(th).op \in {"walk", "stats"} \/ Listed(th)

\* What the lookups of a query return.
LEMMA AnswerTypes ==
    ASSUME DbTypeOK, DbInv, \A id : TableHistory(id)
    PROVE  /\ \A n : get_table_id(n) \in Nat \cup {-1} /\ get_current_snapshot(n) \in Nat
           /\ \A n : \A s \in CurrentSnapshotRead(n) : s \in Nat
           /\ \A n, s : query_partitions(n, s) \in SUBSET PartitionRow
           /\ \A n, s, k, m : query_partitions_paged(n, s, k, m) \in SUBSET PartitionRow
           /\ \A id : \A k \in Nat \ {0} : list_snapshots(id, k) \in Seq(SnapshotRow)
           /\ \A id, s : get_snapshot(id, s) \in Seq(SnapshotRow)
<1>1. \A n : get_table_id(n) \in Nat \cup {-1} /\ get_current_snapshot(n) \in Nat
  BY LookupType DEF get_table_id
<1>2. \A n : \A s \in CurrentSnapshotRead(n) : s \in Nat
  BY <1>1 DEF CurrentSnapshotRead
<1>3. \A n, s : query_partitions(n, s) \in SUBSET PartitionRow
  BY ViewType DEF query_partitions
<1>4. \A n, s, k, m : query_partitions_paged(n, s, k, m) \in SUBSET PartitionRow
  BY <1>3 DEF query_partitions_paged
<1>5. \A id : \A k \in Nat \ {0} : list_snapshots(id, k) \in Seq(SnapshotRow)
  BY ListingChain DEF Chain
<1>6. ASSUME NEW id, NEW s PROVE get_snapshot(id, s) \in Seq(SnapshotRow)
  <2>1. CASE s \in IdsOf(id)
    <3>1. RowOf(id, s) \in SnapshotRow
      BY <2>1, RowFound DEF TableHistory
    <3> QED
      BY <2>1, <3>1 DEF get_snapshot
  <2>2. CASE s \notin IdsOf(id)
    BY <2>2 DEF get_snapshot
  <2> QED
    BY <2>1, <2>2
<1> QED
  BY <1>1, <1>2, <1>3, <1>4, <1>5, <1>6

\* A step of a query ends it, starts it or moves it on, and keeps its type.
LEMMA QueryMoves ==
    ASSUME SafetyInv, QueryTypeOK, \A id : TableHistory(id),
           NEW th \in Threads, StartQuery(th) \/ QueryStep(th)
    PROVE  /\ QueryTypeOK'
           /\ \A t \in Threads \ {th} : query'[t] = query[t]
           /\ query'[th] = NoQuery \/ Asked(th) \/ Moved(th)
<1>a. DbTypeOK /\ DbInv /\ latest \in Nat
  BY DEF SafetyInv, TypeOK, ThreadTypeOK
<1>b. /\ \A n : get_table_id(n) \in Nat \cup {-1} /\ get_current_snapshot(n) \in Nat
      /\ \A n : \A s \in CurrentSnapshotRead(n) : s \in Nat
      /\ \A n, s : query_partitions(n, s) \in SUBSET PartitionRow
      /\ \A n, s, k, m : query_partitions_paged(n, s, k, m) \in SUBSET PartitionRow
      /\ \A id : \A k \in Nat \ {0} : list_snapshots(id, k) \in Seq(SnapshotRow)
      /\ \A id, s : get_snapshot(id, s) \in Seq(SnapshotRow)
  BY <1>a, AnswerTypes
<1>c. \A r \in Queries : r \in QueryRequest /\ r.snap \in Nat /\ r.size \in Nat \ {0}
                         /\ r.op \in QueryOps
  BY QueryAssumption DEF QueryRequest
<1>d. query[th].at # "idle" => query[th] \in Query
  BY DEF QueryTypeOK, NoQuery
<1>e. ASSUME NEW q, Advance(th, q), q = NoQuery \/ q \in Query
      PROVE  /\ QueryTypeOK' /\ query'[th] = q
             /\ \A t \in Threads \ {th} : query'[t] = query[t]
  BY <1>e DEF QueryTypeOK, Advance
<1>f. ASSUME query[th] \in Query, NEW q \in Query, Advance(th, q),
             q.ask = query[th].ask, q.seen = query[th].seen,
             \/ q.at # "done"
             \/ Q(th).op \in {"walk", "stats"}
             \/ /\ q.tid = query[th].tid
                /\ q.list \in OrNothing(IF Q(th).op = "list"
                                          THEN list_snapshots(query[th].tid, Q(th).size)
                                          ELSE get_snapshot(query[th].tid, Q(th).snap), <<>>)
      PROVE  /\ QueryTypeOK'
             /\ \A t \in Threads \ {th} : query'[t] = query[t]
             /\ Moved(th)
  BY <1>e, <1>f DEF Moved, Listed
<1>1. CASE StartQuery(th)
  <2>1. PICK r \in Queries :
           Advance(th, [at |-> FirstStep(r.op), ask |-> r, snap |-> r.snap, rows |-> {},
                        tid |-> -1, list |-> <<>>,
                        seen |-> [id |-> get_table_id(r.name),
                                  current |-> get_current_snapshot(r.name)]])
    BY <1>1 DEF StartQuery
  <2>2. PICK q : q = [at |-> FirstStep(r.op), ask |-> r, snap |-> r.snap, rows |-> {},
                      tid |-> -1, list |-> <<>>,
                      seen |-> [id |-> get_table_id(r.name),
                                current |-> get_current_snapshot(r.name)]]
    OBVIOUS
  <2>3. q \in Query
    BY <1>b, <1>c, <2>2 DEF Query, FirstStep
  <2>4. Advance(th, q)
    BY <2>1, <2>2
  <2> QED
    BY <1>e, <2>2, <2>3, <2>4 DEF Asked
<1>2. CASE LockForPage(th)
  <2>1. PICK q : q = [query[th] EXCEPT !.at = "resolve"]
    OBVIOUS
  <2>2. query[th] \in Query /\ Advance(th, q)
    BY <1>2, <1>d, <2>1 DEF LockForPage, Asking
  <2>3. q \in Query /\ q.ask = query[th].ask /\ q.seen = query[th].seen /\ q.at # "done"
    BY <2>1, <2>2 DEF Query
  <2> QED
    BY <1>f, <2>2, <2>3
<1>3. CASE ResolvePage(th)
  <2>0. PICK s \in PageSnapshot(th) :
           Advance(th, [query[th] EXCEPT !.at = "select", !.snap = s])
    BY <1>3 DEF ResolvePage
  <2>1. PICK q : q = [query[th] EXCEPT !.at = "select", !.snap = s]
    OBVIOUS
  <2>2. query[th] \in Query /\ Advance(th, q)
    BY <1>3, <1>d, <2>0, <2>1 DEF ResolvePage, Asking
  <2>s. s \in Nat
    BY <1>a, <1>b, <1>c, <2>2 DEF PageSnapshot, Query, Q
  <2>3. q \in Query /\ q.ask = query[th].ask /\ q.seen = query[th].seen /\ q.at # "done"
    BY <2>1, <2>2, <2>s DEF Query
  <2> QED
    BY <1>f, <2>2, <2>3
<1>4. CASE SelectPage(th)
  <2>0. PICK page : page = query_partitions_paged(Q(th).name, query[th].snap, Q(th).size,
                                                  LastId(th))
    OBVIOUS
  <2>p. page \in SUBSET PartitionRow
    BY <1>b, <2>0
  <2>1. PICK q : q = [query[th] EXCEPT !.at = IF page = {} THEN "done" ELSE "lock",
                                       !.rows = query[th].rows \cup page]
    OBVIOUS
  <2>2. query[th] \in Query /\ Advance(th, q) /\ Q(th).op = "walk"
    BY <1>4, <1>d, <2>0, <2>1 DEF SelectPage, Asking
  <2>3. q \in Query /\ q.ask = query[th].ask /\ q.seen = query[th].seen
    BY <2>1, <2>2, <2>p DEF Query
  <2> QED
    BY <1>f, <2>2, <2>3
<1>5. CASE ResolveStats(th)
  <2>1. PICK q : q = [query[th] EXCEPT !.at = "select", !.snap = latest]
    OBVIOUS
  <2>2. query[th] \in Query /\ Advance(th, q)
    BY <1>5, <1>d, <2>1 DEF ResolveStats, Asking
  <2>3. q \in Query /\ q.ask = query[th].ask /\ q.seen = query[th].seen /\ q.at # "done"
    BY <1>a, <2>1, <2>2 DEF Query
  <2> QED
    BY <1>f, <2>2, <2>3
<1>6. CASE SelectStats(th)
  <2>0. PICK s : Advance(th, [query[th] EXCEPT !.at = "done",
                                               !.rows = query_partitions(Q(th).name, s)])
    BY <1>6 DEF SelectStats
  <2>p. PICK page \in SUBSET PartitionRow : page = query_partitions(Q(th).name, s)
    BY <1>b
  <2>1. PICK q : q = [query[th] EXCEPT !.at = "done", !.rows = page]
    OBVIOUS
  <2>2. query[th] \in Query /\ Advance(th, q) /\ Q(th).op = "stats"
    BY <1>6, <1>d, <2>0, <2>p, <2>1 DEF SelectStats, Asking
  <2>3. q \in Query /\ q.ask = query[th].ask /\ q.seen = query[th].seen
    BY <2>1, <2>2 DEF Query
  <2> QED
    BY <1>f, <2>2, <2>3
<1>7. CASE Identify(th)
  <2>0. PICK id \in OrNothing(get_table_id(Q(th).name), -1) :
           Advance(th, [query[th] EXCEPT !.at = "history", !.tid = id])
    BY <1>7 DEF Identify
  <2>i. id \in Nat \cup {-1}
    BY <1>b DEF OrNothing
  <2>1. PICK q : q = [query[th] EXCEPT !.at = "history", !.tid = id]
    OBVIOUS
  <2>2. query[th] \in Query /\ Advance(th, q)
    BY <1>7, <1>d, <2>0, <2>1 DEF Identify, Asking
  <2>3. q \in Query /\ q.ask = query[th].ask /\ q.seen = query[th].seen /\ q.at # "done"
    BY <2>1, <2>2, <2>i DEF Query
  <2> QED
    BY <1>f, <2>2, <2>3
<1>8. CASE SelectHistory(th)
  <2>0. PICK found \in OrNothing(IF Q(th).op = "list"
                                   THEN list_snapshots(query[th].tid, Q(th).size)
                                   ELSE get_snapshot(query[th].tid, Q(th).snap), <<>>) :
           Advance(th, [query[th] EXCEPT !.at = "done", !.list = found])
    BY <1>8 DEF SelectHistory
  <2>1. PICK q : q = [query[th] EXCEPT !.at = "done", !.list = found]
    OBVIOUS
  <2>2. query[th] \in Query /\ Advance(th, q)
    BY <1>8, <1>d, <2>0, <2>1 DEF SelectHistory, Asking
  <2>i. found \in Seq(SnapshotRow)
    <3>1. Q(th).size \in Nat \ {0}
      BY <1>c, <2>2 DEF Query, Q
    <3>2. <<>> \in Seq(SnapshotRow)
      OBVIOUS
    <3> QED
      BY <1>b, <3>1, <3>2 DEF OrNothing
  <2>3. /\ q \in Query /\ q.ask = query[th].ask /\ q.seen = query[th].seen
        /\ q.tid = query[th].tid /\ q.list = found
    BY <2>1, <2>2, <2>i DEF Query
  <2> QED
    BY <1>f, <2>0, <2>2, <2>3
<1>9. CASE Advance(th, NoQuery)
  BY <1>9, <1>e
<1> QED
  BY <1>1, <1>2, <1>3, <1>4, <1>5, <1>6, <1>7, <1>8, <1>9
     DEF QueryStep, SelectNothing, QueryThrows, Answer

-----------------------------------------------------------------------------
(* ListSnapshots and GetSnapshot *)

ListInv == QueryTypeOK /\ OwnedInv /\ SeenInv /\ ListIsChain /\ CommittedIsListed

\* What ListIsChain and CommittedIsListed say of one query.
ChainListed(q) ==
    q.at = "done" /\ q.ask.op = "list" /\ q.list # <<>> =>
       /\ build_snapshot_chain(q.list, q.list[1].snapshot_id) = q.list
       /\ Len(q.list) = q.ask.size \/ Last(q.list).parent_snapshot_id = 0
       /\ \A i, j \in DOMAIN q.list :
             is_ancestor_of(q.list[j], q.list[i].parent_snapshot_id) <=> j > i

NewestListed(q) ==
    /\ q.at = "done" /\ q.ask.op \in {"list", "snapshot"} /\ "statement" \notin Faults
    /\ q.tid = q.seen.id /\ q.seen.current # 0
    =>
       /\ q.ask.op = "list" => q.list # <<>> /\ q.list[1].snapshot_id >= q.seen.current
       /\ q.ask.snap = q.seen.current => q.list # <<>>

LEMMA ListedIs ==
    /\ ListIsChain <=> \A th \in Threads : ChainListed(query[th])
    /\ ListIsChain' <=> \A th \in Threads : ChainListed(query'[th])
    /\ CommittedIsListed <=>
          \A th \in Threads :
             (\E t \in tables : t.table_id = query[th].seen.id) => NewestListed(query[th])
    /\ CommittedIsListed' <=>
          \A th \in Threads :
             (\E t \in tables' : t.table_id = query'[th].seen.id) => NewestListed(query'[th])
BY DEF ListIsChain, CommittedIsListed, ChainListed, NewestListed, Done, Asking, Q

\* What is listed is the newest part of the history, with all that was committed.
LEMMA ListingGood ==
    ASSUME QueryTypeOK, SeenInv, \A id : TableHistory(id), NEW th \in Threads,
           query[th] \in Query, query'[th] \in Query, query[th].at # "idle",
           query'[th].ask = query[th].ask, query'[th].seen = query[th].seen, Listed(th)
    PROVE  /\ ChainListed(query'[th])
           /\ (\E t \in tables : t.table_id = query'[th].seen.id) => NewestListed(query'[th])
<1>1. PICK id : id = query[th].tid
  OBVIOUS
<1>2. PICK size \in Nat \ {0} : size = Q(th).size
  BY QueryAssumption DEF Q, Query, QueryRequest
<1>3. PICK list : list = query'[th].list
  OBVIOUS
<1>4. TableHistory(id) /\ query'[th].tid = id
  BY <1>1 DEF Listed
<1>5. \/ list = <<>> /\ "statement" \in Faults
      \/ list = IF Q(th).op = "list" THEN list_snapshots(id, size)
                                     ELSE get_snapshot(id, Q(th).snap)
  BY <1>1, <1>2, <1>3 DEF Listed, OrNothing
<1>6. ASSUME list = list_snapshots(id, size)
      PROVE  /\ Chain(list)
             /\ list # <<>> => Len(list) = size \/ Last(list).parent_snapshot_id = 0
             /\ \A s \in IdsOf(id) : list # <<>> /\ list[1].snapshot_id >= s
  BY <1>4, <1>6, ListingChain
<1>7. ChainListed(query'[th])
  <2> SUFFICES ASSUME Q(th).op = "list", list # <<>>
               PROVE  /\ build_snapshot_chain(list, list[1].snapshot_id) = list
                      /\ Len(list) = size \/ Last(list).parent_snapshot_id = 0
                      /\ \A i, j \in DOMAIN list :
                            is_ancestor_of(list[j], list[i].parent_snapshot_id) <=> j > i
    BY <1>2, <1>3 DEF ChainListed, Q
  <2>1. Chain(list) /\ (Len(list) = size \/ Last(list).parent_snapshot_id = 0)
    BY <1>5, <1>6
  <2> QED
    BY <2>1, ChainGivenBack, ChainAncestors
<1>8. ASSUME NEW t \in tables, t.table_id = query[th].seen.id PROVE NewestListed(query'[th])
  <2> SUFFICES ASSUME "statement" \notin Faults, id = query[th].seen.id,
                      query[th].seen.current # 0, Q(th).op \in {"list", "snapshot"}
               PROVE  /\ Q(th).op = "list" =>
                            list # <<>> /\ list[1].snapshot_id >= query[th].seen.current
                      /\ Q(th).snap = query[th].seen.current => list # <<>>
    BY <1>3, <1>4 DEF NewestListed, Q
  <2>1. PICK a \in snapshots : a.table_id = id /\ a.snapshot_id = query[th].seen.current
    BY <1>8 DEF SeenInv, Asking
  <2>2. query[th].seen.current \in IdsOf(id)
    BY <2>1 DEF IdsOf, SnapshotsOf
  <2>3. CASE Q(th).op = "list"
    BY <1>5, <1>6, <2>2, <2>3
  <2>4. CASE Q(th).op # "list"
    <3>1. list = get_snapshot(id, Q(th).snap)
      BY <1>5, <2>4
    <3>2. ASSUME Q(th).snap = query[th].seen.current PROVE list # <<>>
      <4>1. list = <<RowOf(id, Q(th).snap)>>
        BY <2>2, <3>1, <3>2 DEF get_snapshot
      <4> QED
        BY <4>1
    <3> QED
      BY <2>4, <3>2
  <2> QED
    BY <2>3, <2>4
<1> QED
  BY <1>7, <1>8

\* A step of a query keeps what the queries have seen and listed.
LEMMA ListMoves ==
    ASSUME SafetyInv, ListInv, LinearHistory, RowsInv, NEW th \in Threads,
           StartQuery(th) \/ QueryStep(th), UNCHANGED dbVars
    PROVE  ListInv'
<1>a. DbTypeOK /\ DbInv /\ QueryTypeOK /\ OwnedInv /\ SeenInv /\ ListIsChain /\ CommittedIsListed
  BY DEF SafetyInv, TypeOK, ListInv
<1>b. \A id : TableHistory(id)
  BY <1>a, HistoryHeld
<1>c. /\ QueryTypeOK'
      /\ \A t \in Threads \ {th} : query'[t] = query[t]
      /\ query'[th] = NoQuery \/ Asked(th) \/ Moved(th)
  BY <1>a, <1>b, QueryMoves
<1>d. /\ UNCHANGED <<tables, snapshots, table_seq>> /\ OwnedInv'
  BY <1>a DEF dbVars, seqVars, OwnedInv
<1>1. CASE query'[th] = NoQuery
  <2>1. SeenInv'
    BY <1>a, <1>c, <1>d, <1>1 DEF SeenInv, Asking, NoQuery
  <2>2. ChainListed(query'[th]) /\ NewestListed(query'[th])
    BY <1>1 DEF ChainListed, NewestListed, NoQuery
  <2> QED
    BY <1>a, <1>c, <1>d, <2>1, <2>2, ListedIs DEF ListInv
<1>2. CASE Asked(th)
  <2>1. PICK r \in Queries :
           query'[th] = [at |-> FirstStep(r.op), ask |-> r, snap |-> r.snap, rows |-> {},
                         tid |-> -1, list |-> <<>>,
                         seen |-> [id |-> get_table_id(r.name),
                                   current |-> get_current_snapshot(r.name)]]
    BY <1>2 DEF Asked
  <2>2. /\ query'[th].seen.id = get_table_id(r.name)
        /\ query'[th].seen.current = get_current_snapshot(r.name)
        /\ query'[th].at # "done"
    BY <2>1 DEF FirstStep
  <2>3. get_table_id(r.name) <= table_seq
    <3>1. CASE get_table(r.name) = {}
      BY <1>a, <3>1 DEF get_table_id, DbTypeOK
    <3>2. ASSUME NEW x \in get_table(r.name) PROVE get_table_id(r.name) <= table_seq
      BY <1>a, Lookup DEF DbInv
    <3> QED
      BY <3>1, <3>2
  <2>4. ASSUME NEW t \in tables, t.table_id = get_table_id(r.name)
        PROVE  /\ get_current_snapshot(r.name) <= t.current_snapshot_id
               /\ get_current_snapshot(r.name) # 0 =>
                     \E a \in snapshots : /\ a.table_id = t.table_id
                                          /\ a.snapshot_id = get_current_snapshot(r.name)
    <3>1. get_table(r.name) # {}
      BY <1>a, <2>4 DEF get_table_id, DbTypeOK, TableRow
    <3>2. PICK x \in get_table(r.name) : TRUE
      BY <3>1
    <3>3. t = x /\ get_current_snapshot(r.name) = t.current_snapshot_id
      BY <1>a, <2>4, <3>2, Lookup DEF DbInv
    <3>4. t.current_snapshot_id \in Nat
      BY <1>a DEF DbTypeOK, TableRow
    <3>5. t.current_snapshot_id = 0 \/
          \E a \in snapshots : a.table_id = t.table_id /\ a.snapshot_id = t.current_snapshot_id
      BY DEF LinearHistory
    <3> QED
      BY <3>3, <3>4, <3>5
  <2>5. SeenInv'
    BY <1>a, <1>c, <1>d, <2>2, <2>3, <2>4 DEF SeenInv, Asking
  <2>6. ChainListed(query'[th]) /\ NewestListed(query'[th])
    BY <2>2 DEF ChainListed, NewestListed
  <2> QED
    BY <1>a, <1>c, <1>d, <2>5, <2>6, ListedIs DEF ListInv
<1>3. CASE Moved(th)
  <2>1. query[th].at # "idle"
    BY <1>3 DEF Moved, Query
  <2>2. SeenInv'
    BY <1>a, <1>c, <1>d, <1>3, <2>1 DEF SeenInv, Asking, Moved
  <2>3. /\ ChainListed(query'[th])
        /\ (\E t \in tables : t.table_id = query'[th].seen.id) => NewestListed(query'[th])
    <3>1. CASE Listed(th)
      BY <1>a, <1>b, <1>3, <2>1, <3>1, ListingGood DEF Moved
    <3>2. CASE ~Listed(th)
      BY <1>3, <3>2 DEF Moved, ChainListed, NewestListed, Q
    <3> QED
      BY <3>1, <3>2
  <2> QED
    BY <1>a, <1>c, <1>d, <2>2, <2>3, ListedIs DEF ListInv
<1> QED
  BY <1>c, <1>1, <1>2, <1>3

\* A step of another handler keeps it too.
LEMMA ListKept ==
    ASSUME SafetyInv, ListInv, NEW th \in Threads, ThreadStep(th), UNCHANGED query
    PROVE  ListInv'
<1>1. QueryTypeOK' /\ OwnedInv' /\ SeenInv' /\ ListIsChain'
  BY OwnedStep, SeenStep, ListedIs DEF ListInv, QueryTypeOK
<1>2. CommittedIsListed'
  <2> SUFFICES ASSUME NEW q \in Threads, NEW u \in tables', u.table_id = query[q].seen.id
               PROVE  NewestListed(query[q])
    BY ListedIs
  <2>1. CASE query[q].at = "idle"
    BY <2>1 DEF NewestListed
  <2>2. CASE query[q].at # "idle"
    <3>1. u.table_id <= table_seq
      BY <2>2 DEF ListInv, SeenInv, Asking
    <3>2. \E t \in tables : t.table_id = query[q].seen.id
      BY <3>1, TableAdvances
    <3> QED
      BY <3>2, ListedIs DEF ListInv
  <2> QED
    BY <2>1, <2>2
<1> QED
  BY <1>1, <1>2 DEF ListInv

\* The steps of the server with its queries, as a query sees them.
LEMMA QuerySees ==
    ASSUME SafetyInv, OneRequest, [QueryNext]_allVars
    PROVE  \/ \E th \in Threads : ThreadStep(th) /\ UNCHANGED query
           \/ \E th \in Threads : /\ StartQuery(th) \/ QueryStep(th)
                                  /\ UNCHANGED <<dbVars, latest>>
           \/ Restart /\ UNCHANGED dbVars /\ query' = [t \in Threads |-> NoQuery]
           \/ UNCHANGED <<dbVars, query>> /\ (latest' = latest \/ CommitTransaction)
<1>1. ASSUME NEW th \in Threads, StartQuery(th) \/ QueryStep(th)
      PROVE  UNCHANGED <<dbVars, latest>>
  BY <1>1, QueryTouches DEF SafetyInv, QueryEffect
<1>2. CASE CommitTransaction /\ UNCHANGED query
  BY <1>2 DEF CommitTransaction
<1>3. CASE Quiet /\ UNCHANGED query
  BY <1>3 DEF Quiet, vars, serverVars
<1>4. CASE Restart /\ query' = Each(NoQuery)
  BY <1>4 DEF Restart, Each
<1>5. CASE UNCHANGED allVars
  BY <1>5 DEF allVars, vars, serverVars
<1> QED
  BY <1>1, <1>2, <1>3, <1>4, <1>5 DEF QueryNext, ThreadStep

LEMMA ListNext ==
    ASSUME SafetyInv, OneRequest, LinearHistory, RowsInv, ListInv, [QueryNext]_allVars
    PROVE  ListInv'
<1>1. CASE Restart /\ UNCHANGED dbVars /\ query' = [t \in Threads |-> NoQuery]
  <2>1. \A th \in Threads : query'[th] = NoQuery
    BY <1>1
  <2>2. QueryTypeOK'
    BY <1>1 DEF QueryTypeOK
  <2>3. OwnedInv'
    BY <1>1 DEF ListInv, OwnedInv, dbVars
  <2>4. SeenInv'
    BY <2>1 DEF SeenInv, Asking, NoQuery
  <2>5. \A th \in Threads : ChainListed(query'[th]) /\ NewestListed(query'[th])
    BY <2>1 DEF ChainListed, NewestListed, NoQuery
  <2> QED
    BY <2>2, <2>3, <2>4, <2>5, ListedIs DEF ListInv
<1>2. CASE UNCHANGED <<dbVars, query>>
  <2>1. UNCHANGED <<tables, snapshots, table_seq, query>>
    BY <1>2 DEF dbVars, seqVars
  <2>2. QueryTypeOK' /\ OwnedInv' /\ SeenInv'
    BY <2>1 DEF ListInv, QueryTypeOK, OwnedInv, SeenInv, Asking
  <2>3. ListIsChain' /\ CommittedIsListed'
    BY <2>1, ListedIs DEF ListInv
  <2> QED
    BY <2>2, <2>3 DEF ListInv
<1> QED
  BY <1>1, <1>2, QuerySees, ListMoves, ListKept

\* The invariants of the listings hold beside those of the relations.
LEMMA ListAlways ==
    ASSUME "current_read" \notin Faults
    PROVE  QuerySpec => [](SafetyInv /\ OneRequest /\ RelationsInv /\ ChainInv /\ ListInv)
<1> DEFINE I == SafetyInv /\ OneRequest /\ RelationsInv /\ ChainInv /\ ListInv
<1>1. QueryInit => I
  <2> SUFFICES ASSUME QueryInit PROVE I
    OBVIOUS
  <2>1. SafetyInv /\ OneRequest /\ RelationsInv /\ ChainInv
    BY InitSafe, RelationsInit DEF QueryInit, OneRequest, Asking, Each, NoQuery
  <2>2. query = [t \in Threads |-> NoQuery] /\ snapshots = {}
    BY DEF QueryInit, Each, Init, DbInit
  <2>3. QueryTypeOK /\ OwnedInv /\ SeenInv
    BY <2>2 DEF QueryTypeOK, OwnedInv, SeenInv, Asking, NoQuery
  <2>4. \A th \in Threads : ChainListed(query[th]) /\ NewestListed(query[th])
    BY <2>2 DEF ChainListed, NewestListed, NoQuery
  <2> QED
    BY <2>1, <2>3, <2>4, ListedIs DEF ListInv
<1>2. I /\ [QueryNext]_allVars => I'
  BY QueryNextSafe, RelationsNext, ListNext DEF RelationsInv, ChainInv
<1> QED
  BY <1>1, <1>2, PTL DEF QuerySpec

\* ListSnapshots takes no lock, and its two statements run beside commits, drops
\* and renames; still, what it returns is the newest part of one table's history,
\* and build_snapshot_chain gives it back.  (No SELECT of a current snapshot
\* fails: commit_snapshot would fork the history.)
THEOREM ListAlwaysChain ==
    ASSUME "current_read" \notin Faults
    PROVE  QuerySpec => []ListIsChain
<1>1. ListInv => ListIsChain
  BY DEF ListInv
<1> QED
  BY <1>1, ListAlways, PTL

\* What was committed before the call of ListSnapshots or GetSnapshot is in its
\* answer, also when the table is dropped while it runs.
THEOREM CommittedAlwaysListed ==
    ASSUME "current_read" \notin Faults
    PROVE  QuerySpec => []CommittedIsListed
<1>1. ListInv => CommittedIsListed
  BY DEF ListInv
<1> QED
  BY <1>1, ListAlways, PTL

-----------------------------------------------------------------------------
(* Partitions and their numbers *)

\* No handler moves the commit counter, and partition ids are never given back.
LEMMA CountersStep ==
    ASSUME SafetyInv, NEW th \in Threads, ThreadStep(th)
    PROVE  latest' = latest /\ partition_seq' \in Nat /\ partition_seq' >= partition_seq
<1>a. partition_seq \in Nat /\ (pc[th] # "idle" => Len(req[th].adds) \in Nat)
  BY LenProperties DEF SafetyInv, TypeOK, DbTypeOK, ThreadTypeOK, Request
<1> USE <1>a DEF ThreadStep, dbVars, seqVars, At
<1>1. CASE LockForRead(th)
  BY <1>1 DEF LockForRead
<1>2. CASE ResolveInMemory(th)
  BY <1>2 DEF ResolveInMemory
<1>3. CASE ResolveFromDb(th)
  BY <1>3 DEF ResolveFromDb
<1>4. CASE CacheHit(th)
  BY <1>4 DEF CacheHit
<1>5. CASE CacheMiss(th)
  BY <1>5 DEF CacheMiss
<1>6. CASE QueryRows(th)
  BY <1>6 DEF QueryRows
<1>7. CASE QueryNothing(th)
  BY <1>7 DEF QueryNothing
<1>8. CASE FillCache(th)
  BY <1>8 DEF FillCache
<1>9. CASE LockForCommit(th)
  BY <1>9 DEF LockForCommit
<1>10. CASE ValidateParent(th)
  BY <1>10 DEF ValidateParent
<1>11. CASE DrawSnapshot(th)
  BY <1>11 DEF DrawSnapshot
<1>12. CASE DrawNothing(th)
  BY <1>12 DEF DrawNothing
<1>13. CASE WriteSnapshot(th)
  BY <1>a, <1>13 DEF WriteSnapshot
<1>14. CASE RollbackSnapshot(th)
  BY <1>a, <1>14 DEF RollbackSnapshot
<1>15. CASE LoseSnapshot(th)
  BY <1>a, <1>15 DEF LoseSnapshot
<1>16. CASE InvalidateAfterCommit(th)
  BY <1>16 DEF InvalidateAfterCommit
<1>17. CASE LockForCreate(th)
  BY <1>17 DEF LockForCreate, LockForMutation
<1>18. CASE CreateTable(th)
  BY <1>18 DEF CreateTable
<1>19. CASE CreateFails(th)
  BY <1>19 DEF CreateFails, StatementFails
<1>20. CASE LockForGet(th)
  BY <1>20 DEF LockForGet, LockForQuery
<1>21. CASE ReadTable(th)
  BY <1>21 DEF ReadTable
<1>22. CASE LockForSchema(th)
  BY <1>22 DEF LockForSchema, LockForQuery
<1>23. CASE CheckSchema(th)
  BY <1>23 DEF CheckSchema
<1>24. CASE LockForAlter(th)
  BY <1>24 DEF LockForAlter, LockForMutation
<1>25. CASE ReadVersion(th)
  BY <1>25 DEF ReadVersion
<1>26. CASE AlterSchema(th)
  BY <1>26 DEF AlterSchema
<1>27. CASE AlterFails(th)
  BY <1>27 DEF AlterFails, StatementFails, CommitLost
<1>28. CASE LockForRename(th)
  BY <1>28 DEF LockForRename, LockForMutation
<1>29. CASE LockNewName(th)
  BY <1>29 DEF LockNewName
<1>30. CASE LockSameName(th)
  BY <1>30 DEF LockSameName
<1>31. CASE RenameTable(th)
  BY <1>31 DEF RenameTable
<1>32. CASE RenameFails(th)
  BY <1>32 DEF RenameFails, StatementFails
<1>33. CASE LockForDrop(th)
  BY <1>33 DEF LockForDrop, LockForMutation
<1>34. CASE DropTable(th)
  BY <1>34 DEF DropTable
<1>35. CASE DropFails(th)
  BY <1>35 DEF DropFails, StatementFails, CommitLost
<1>36. CASE Start(th)
  BY <1>36 DEF Start
<1>37. CASE PickSnapshot(th)
  BY <1>37 DEF PickSnapshot
<1>38. CASE Release(th)
  BY <1>38 DEF Release
<1>39. CASE InvalidateAfterUnlock(th)
  BY <1>39 DEF InvalidateAfterUnlock
<1>40. CASE AcquireThrows(th)
  BY <1>40 DEF AcquireThrows
<1> QED
  BY <1>1, <1>2, <1>3, <1>4, <1>5, <1>6, <1>7, <1>8, <1>9, <1>10, <1>11,
     <1>12, <1>13, <1>14, <1>15, <1>16, <1>17, <1>18, <1>19, <1>20,
     <1>21, <1>22, <1>23, <1>24, <1>25, <1>26, <1>27, <1>28, <1>29,
     <1>30, <1>31, <1>32, <1>33, <1>34, <1>35, <1>36, <1>37, <1>38,
     <1>39, <1>40
     DEF HandlerStep, RegistryStep, CatalogStep


\* Only the rows of one INSERT per added file get new numbers, one each.
LEMMA NumberedWrite ==
    ASSUME DbTypeOK, NEW id, NEW s, NEW adds \in Seq(Keys), NEW dels,
           \A p \in partitions : p.partition_id \in 1 .. partition_seq,
           \A p, r \in partitions : p.partition_id = r.partition_id => p = r,
           NEW marked,
           marked = mark_partitions_deleted(insert_partitions(id, s, adds, partition_seq),
                                            id, dels, s)
    PROVE  /\ \A p \in marked : p.partition_id \in 1 .. partition_seq + Len(adds)
           /\ \A p, r \in marked : p.partition_id = r.partition_id => p = r
<1>a. partition_seq \in Nat /\ Len(adds) \in Nat /\ DOMAIN adds = 1 .. Len(adds)
  BY DEF DbTypeOK
<1> DEFINE new(i) == [partition_id |-> partition_seq + i, table_id |-> id, snapshot_id |-> s,
                      partition_key |-> adds[i], is_deleted |-> FALSE,
                      deleted_snapshot_id |-> 0]
           mark(p) == IF p.table_id = id /\ p.partition_key \in dels /\ ~p.is_deleted
                        THEN [p EXCEPT !.is_deleted = TRUE, !.deleted_snapshot_id = s] ELSE p
<1>1. PICK stored : stored = insert_partitions(id, s, adds, partition_seq)
  OBVIOUS
<1>2. \A p \in stored : p \in partitions \/ \E i \in 1 .. Len(adds) : p = new(i)
  BY <1>a, <1>1 DEF insert_partitions
<1>3. \A i : new(i).partition_id = partition_seq + i
  OBVIOUS
<1>4. \A p \in marked : \E q \in stored : p = mark(q)
  BY <1>1 DEF mark_partitions_deleted
<1>5. \A p \in stored : mark(p).partition_id = p.partition_id
  <2> SUFFICES ASSUME NEW p \in stored PROVE mark(p).partition_id = p.partition_id
    OBVIOUS
  <2>1. CASE p \in partitions
    BY <2>1 DEF DbTypeOK, StoredRow
  <2>2. CASE \E i \in 1 .. Len(adds) : p = new(i)
    BY <2>2
  <2> QED
    BY <1>2, <2>1, <2>2
<1> HIDE DEF new, mark
<1>6. \A p \in stored : p.partition_id \in 1 .. partition_seq + Len(adds)
  <2> SUFFICES ASSUME NEW p \in stored
               PROVE  p.partition_id \in 1 .. partition_seq + Len(adds)
    OBVIOUS
  <2>1. CASE p \in partitions
    BY <1>a, <2>1
  <2>2. ASSUME NEW i \in 1 .. Len(adds), p = new(i)
        PROVE  p.partition_id \in 1 .. partition_seq + Len(adds)
    BY <1>a, <1>3, <2>2
  <2> QED
    BY <1>2, <2>1, <2>2
<1>7. \A p, r \in stored : p.partition_id = r.partition_id => p = r
  <2> SUFFICES ASSUME NEW p \in stored, NEW r \in stored, p.partition_id = r.partition_id
               PROVE  p = r
    OBVIOUS
  <2>1. ASSUME NEW x \in partitions, NEW i \in 1 .. Len(adds)
        PROVE  x.partition_id # new(i).partition_id
    BY <1>a, <1>3
  <2>2. ASSUME NEW i \in 1 .. Len(adds), NEW j \in 1 .. Len(adds),
               new(i).partition_id = new(j).partition_id
        PROVE  i = j
    BY <1>a, <1>3, <2>2
  <2> QED
    BY <1>2, <2>1, <2>2
<1>8. ASSUME NEW p \in marked
      PROVE  p.partition_id \in 1 .. partition_seq + Len(adds)
  BY <1>4, <1>5, <1>6
<1>9. ASSUME NEW p \in marked, NEW r \in marked, p.partition_id = r.partition_id
      PROVE  p = r
  <2>1. PICK q \in stored, y \in stored : p = mark(q) /\ r = mark(y)
    BY <1>4
  <2>2. q = y
    BY <1>5, <1>7, <1>9, <2>1
  <2> QED
    BY <2>1, <2>2
<1> QED
  BY <1>8, <1>9

\* What NumberedInv says of the relation.
Numbered ==
    /\ \A p \in partitions : p.partition_id \in 1 .. partition_seq
    /\ \A p, r \in partitions : p.partition_id = r.partition_id => p = r

LEMMA NumberedStep ==
    ASSUME SafetyInv, Numbered, NEW th \in Threads, ThreadStep(th)
    PROVE  Numbered'
<1>a. /\ TypeOK /\ DbTypeOK /\ partition_seq \in Nat
      /\ pc[th] # "idle" => req[th].adds \in Seq(Keys)
  BY DEF SafetyInv, TypeOK, DbTypeOK, ThreadTypeOK, Request
<1>b. partition_seq' \in Nat /\ partition_seq' >= partition_seq
  BY CountersStep
<1>1. CASE \A p \in partitions' : p \in partitions
  BY <1>a, <1>b, <1>1 DEF Numbered
<1>2. CASE WriteSnapshot(th)
  <2>1. /\ partitions' = mark_partitions_deleted(
                            insert_partitions(get_table_id(Name(th)), snap[th],
                                              req[th].adds, partition_seq),
                            get_table_id(Name(th)), req[th].dels, snap[th])
        /\ partition_seq' = partition_seq + Len(req[th].adds)
        /\ pc[th] # "idle"
    BY <1>2 DEF WriteSnapshot, At
  <2> QED
    BY <1>a, <2>1, NumberedWrite DEF Numbered
<1>3. CASE RowsKept \/ CreateTable(th) \/ AlterSchema(th) \/ RenameTable(th) \/ DropTable(th)
  <2>1. \A p \in partitions' : p \in partitions
    BY <1>3 DEF RowsKept, CreateTable, AlterSchema, RenameTable, DropTable, DeleteFrom
  <2> QED
    BY <1>1, <2>1
<1> QED
  BY <1>2, <1>3, Writers

-----------------------------------------------------------------------------
(* A table and its name *)

\* A thread serves the requests clients may send.
LEMMA RenameStep ==
    ASSUME SafetyInv, RenameInv, NoRenames, NEW th \in Threads, ThreadStep(th)
    PROVE  RenameInv'
<1>a. TypeOK /\ DOMAIN req = Threads
  BY DEF SafetyInv, TypeOK, ThreadTypeOK
<1> SUFFICES ASSUME NEW t \in Threads, pc'[t] # "idle" PROVE req'[t].op # "rename"
  BY DEF RenameInv
<1>1. CASE t # th
  BY <1>a, <1>1, LocalsFrame DEF RenameInv
<1>2. CASE t = th /\ Start(th)
  BY <1>a, <1>2 DEF Start, NoRenames
<1>3. CASE t = th /\ ~Start(th)
  BY <1>3, ReadEffect DEF RenameInv
<1> QED
  BY <1>1, <1>2, <1>3

\* While no table is renamed, a table that is there had its name before.
LEMMA NameStood ==
    ASSUME SafetyInv, RenameInv, NEW th \in Threads, ThreadStep(th),
           NEW u \in tables', ~u.is_deleted, u.table_id <= table_seq
    PROVE  \E r \in tables : /\ r.table_id = u.table_id /\ r.table_name = u.table_name
                             /\ ~r.is_deleted
                             /\ r.current_snapshot_id <= u.current_snapshot_id
<1>a. /\ TypeOK /\ OpInv /\ DbTypeOK /\ DbInv /\ WriteInv /\ snap[th] \in Nat
      /\ table_seq \in Nat
  BY DEF SafetyInv, TypeOK, ThreadTypeOK, DbTypeOK
<1>b. \A r \in tables : r \in TableRow /\ r.current_snapshot_id \in Nat
  BY <1>a DEF DbTypeOK, TableRow
<1>c. ~RenameTable(th)
  BY <1>a DEF RenameInv, OpInv, RenameTable, At
<1>1. CASE u \in tables
  BY <1>1, <1>b
<1>2. CASE u \notin tables
  <2>1. CASE RowsKept \/ CreateTable(th)
    <3>1. u.table_id = table_seq + 1
      BY <1>2, <2>1 DEF RowsKept, CreateTable, create_table, NewTable
    <3> QED
      BY <1>a, <3>1
  <2>2. CASE AlterSchema(th)
    <3>1. PICK r \in tables :
             u = [r EXCEPT !.schema = req[th].schema, !.schema_version = version[th]]
      BY <1>2, <2>2 DEF AlterSchema, update_table_schema
    <3>2. /\ u.table_id = r.table_id /\ u.table_name = r.table_name
          /\ u.is_deleted = r.is_deleted /\ u.current_snapshot_id = r.current_snapshot_id
      BY <1>b, <3>1 DEF TableRow
    <3> QED
      BY <1>b, <3>2
  <2>3. CASE WriteSnapshot(th)
    <3>1. PICK r \in get_table(Name(th)) : u = [r EXCEPT !.current_snapshot_id = snap[th]]
      BY <1>2, <2>3 DEF WriteSnapshot, update_table_snapshot
    <3>2. r \in tables /\ get_current_snapshot(Name(th)) = r.current_snapshot_id
      BY <1>a, <3>1, Lookup
    <3>3. /\ u.table_id = r.table_id /\ u.table_name = r.table_name
          /\ u.is_deleted = r.is_deleted /\ u.current_snapshot_id = snap[th]
      BY <1>b, <3>1, <3>2 DEF TableRow
    <3>4. r.current_snapshot_id < snap[th]
      BY <2>3, <3>2, <1>a DEF WriteSnapshot, WriteInv
    <3>5. r.current_snapshot_id <= snap[th]
      BY <1>a, <1>b, <3>2, <3>4
    <3> QED
      BY <3>2, <3>3, <3>5
  <2>4. CASE DropTable(th)
    <3>1. PICK r \in tables : u = [r EXCEPT !.is_deleted = TRUE]
      BY <1>2, <2>4 DEF DropTable, soft_delete_table
    <3> QED
      BY <1>b, <3>1 DEF TableRow
  <2> QED
    BY <1>c, <2>1, <2>2, <2>3, <2>4, Writers
<1> QED
  BY <1>1, <1>2

\* So the table a name stands for after a step is the one it stood for before, its
\* pointer has only moved forward, and its snapshots are what they were.
LEMMA TableStood ==
    ASSUME SafetyInv, RenameInv, NEW th \in Threads, ThreadStep(th), NEW n, NEW id,
           get_table_id(n)' = id, id # -1, id <= table_seq
    PROVE  /\ get_table(n) # {} /\ get_table(n)' # {} /\ get_table_id(n) = id
           /\ get_current_snapshot(n) \in Nat /\ get_current_snapshot(n)' \in Nat
           /\ get_current_snapshot(n) <= get_current_snapshot(n)'
           /\ \A s \in 0 .. get_current_snapshot(n) : View(id, s)' = View(id, s)
<1>a. DbTypeOK /\ DbInv /\ DbInv' /\ DbTypeOK'
  BY ThreadStepSafe, TablesStep DEF SafetyInv, TypeOK
<1>1. PICK u : u \in get_table(n)'
  BY DEF get_table_id
<1>2. /\ get_table_id(n)' = u.table_id /\ get_current_snapshot(n)' = u.current_snapshot_id
      /\ u \in tables' /\ u.table_name = n /\ ~u.is_deleted
  BY <1>a, <1>1, LookupNext DEF get_table
<1>3. PICK r \in tables : /\ r.table_id = u.table_id /\ r.table_name = u.table_name
                          /\ ~r.is_deleted
                          /\ r.current_snapshot_id <= u.current_snapshot_id
  BY <1>2, NameStood
<1>4. r \in get_table(n)
  BY <1>2, <1>3 DEF get_table
<1>5. get_table_id(n) = id /\ get_current_snapshot(n) = r.current_snapshot_id
  BY <1>a, <1>2, <1>3, <1>4, Lookup
<1>6. r.current_snapshot_id \in Nat /\ u.current_snapshot_id \in Nat
  BY <1>a, <1>2, <1>3 DEF DbTypeOK, TableRow
<1>7. \A s \in 0 .. r.current_snapshot_id : View(r.table_id, s)' = View(r.table_id, s)
  BY <1>2, <1>3, ImmutableStep
<1> QED
  BY <1>1, <1>2, <1>3, <1>4, <1>5, <1>6, <1>7

-----------------------------------------------------------------------------
(* Pages *)

\* The rows of a view have the numbers of their partitions: finitely many.
LEMMA ViewNumbered ==
    ASSUME DbTypeOK, Numbered, NEW id, NEW s
    PROVE  /\ \A r \in View(id, s) : r.partition_id \in 1 .. partition_seq
           /\ \A r, x \in View(id, s) : r.partition_id = x.partition_id => r = x
           /\ IsFiniteSet(View(id, s))
<1>a. partition_seq \in Nat
  BY DEF DbTypeOK
<1>1. \A r \in View(id, s) : \E p \in partitions :
         r = Select(p) /\ r.partition_id = p.partition_id
  BY DEF View, Select
<1>2. \A r \in View(id, s) : r.partition_id \in 1 .. partition_seq
  BY <1>1 DEF Numbered
<1>3. \A r, x \in View(id, s) : r.partition_id = x.partition_id => r = x
  <2> SUFFICES ASSUME NEW r \in View(id, s), NEW x \in View(id, s),
                      r.partition_id = x.partition_id
               PROVE  r = x
    OBVIOUS
  <2>1. PICK p \in partitions : r = Select(p) /\ r.partition_id = p.partition_id
    BY <1>1
  <2>2. PICK y \in partitions : x = Select(y) /\ x.partition_id = y.partition_id
    BY <1>1
  <2>3. p = y
    BY <2>1, <2>2 DEF Numbered
  <2> QED
    BY <2>1, <2>2, <2>3
<1>4. IsFiniteSet(View(id, s))
  <2> DEFINE f == [r \in View(id, s) |-> r.partition_id]
  <2>1. f \in [View(id, s) -> 1 .. partition_seq]
    BY <1>2
  <2>2. \A r, x \in View(id, s) : f[r] = f[x] => r = x
    BY <1>3
  <2>3. f \in Injection(View(id, s), 1 .. partition_seq)
    BY <2>1, <2>2 DEF Injection, IsInjective
  <2>4. IsFiniteSet(1 .. partition_seq)
    BY <1>a, FS_Interval
  <2> QED
    BY <2>3, <2>4, FS_Injection
<1> QED
  BY <1>2, <1>3, <1>4

\* A page is the beginning of what follows the last number, and it is empty only
\* when nothing does.
LEMMA PageBegins ==
    ASSUME DbTypeOK, Numbered, NEW n, NEW s, NEW size \in Nat \ {0}, NEW last \in Nat,
           NEW V, V = query_partitions(n, s),
           NEW page, page = query_partitions_paged(n, s, size, last)
    PROVE  /\ page \subseteq V
           /\ \A r \in page : r.partition_id > last
           /\ \A r \in V, x \in page :
                 last < r.partition_id /\ r.partition_id <= x.partition_id => r \in page
           /\ page = {} => \A r \in V : r.partition_id <= last
<1>a. /\ \A r \in V : r.partition_id \in 1 .. partition_seq
      /\ \A r, x \in V : r.partition_id = x.partition_id => r = x
      /\ IsFiniteSet(V) /\ partition_seq \in Nat
  BY ViewNumbered DEF query_partitions, DbTypeOK
<1>v. \A r \in V : r.partition_id \in Nat
  BY <1>a
<1>1. PICK after : after = {r \in V : r.partition_id > last}
  OBVIOUS
<1> DEFINE Upto(r) == {x \in after : x.partition_id <= r.partition_id}
<1>2. page = {r \in after : Cardinality(Upto(r)) <= size}
  BY <1>1 DEF query_partitions_paged
<1>3. \A r : IsFiniteSet(Upto(r)) /\ Cardinality(Upto(r)) \in Nat
  BY <1>a, <1>1, FS_Subset, FS_CardinalityType
<1>4. ASSUME NEW r \in after, NEW x \in page, r.partition_id <= x.partition_id
      PROVE  r \in page
  <2>1. Upto(r) \in SUBSET Upto(x)
    <3> SUFFICES ASSUME NEW y \in after, y.partition_id <= r.partition_id
                 PROVE  y.partition_id <= x.partition_id
      OBVIOUS
    <3>1. x \in after /\ y.partition_id \in Nat /\ r.partition_id \in Nat /\ x.partition_id \in Nat
      BY <1>v, <1>1, <1>2
    <3> QED
      BY <1>4, <3>1
  <2> HIDE DEF Upto
  <2>2. Cardinality(Upto(r)) <= Cardinality(Upto(x))
    BY <1>3, <2>1, FS_Subset
  <2>3. Cardinality(Upto(x)) <= size
    BY <1>2
  <2> QED
    BY <1>2, <1>3, <2>2, <2>3
<1>5. ASSUME after # {} PROVE page # {}
  <2>1. PICK ids : ids = {r.partition_id : r \in after}
    OBVIOUS
  <2>2. ids \subseteq Nat /\ ids # {}
    BY <1>v, <1>1, <1>5, <2>1
  <2>3. PICK m \in ids : \A i \in ids : m <= i
    BY <2>2, Least
  <2>4. PICK r \in after : r.partition_id = m
    BY <2>1
  <2>5. ASSUME NEW x \in Upto(r) PROVE x = r
    <3>1. x \in V /\ r \in V /\ x.partition_id <= m /\ m <= x.partition_id
      BY <1>1, <2>1, <2>3, <2>4, <2>5
    <3>2. x.partition_id \in Nat /\ m \in Nat
      BY <1>v, <2>2, <3>1
    <3>3. x.partition_id = r.partition_id
      BY <2>4, <3>1, <3>2
    <3> QED
      BY <1>a, <3>1, <3>3
  <2>6. Upto(r) \subseteq {r}
    BY <2>5
  <2> HIDE DEF Upto
  <2>7. Cardinality(Upto(r)) <= Cardinality({r}) /\ Cardinality({r}) = 1
    BY <2>6, FS_Singleton, FS_Subset
  <2>8. Cardinality(Upto(r)) <= size
    BY <1>3, <2>7
  <2> QED
    BY <1>2, <2>8
<1>6. page \subseteq after /\ after \subseteq V /\ \A r \in after : r.partition_id > last
  BY <1>1, <1>2
<1>7. \A r \in V : last < r.partition_id => r \in after
  BY <1>v, <1>1
<1>8. ASSUME page = {}, NEW r \in V PROVE r.partition_id <= last
  <2>1. r \notin after
    BY <1>5, <1>8
  <2> QED
    BY <1>v, <1>7, <2>1
<1> QED
  BY <1>4, <1>6, <1>7, <1>8

\* LastId is the greatest number returned so far, or 0.
LEMMA LastIdIs ==
    ASSUME NEW th, NEW N \in Nat,
           \A r \in query[th].rows : r.partition_id \in 0 .. N
    PROVE  /\ LastId(th) \in Nat
           /\ \A r \in query[th].rows : r.partition_id <= LastId(th)
           /\ LastId(th) = 0 \/ \E r \in query[th].rows : r.partition_id = LastId(th)
<1>1. PICK ids : ids = {0} \cup {r.partition_id : r \in query[th].rows}
  OBVIOUS
<1>2. ids \subseteq 0 .. N /\ ids # {}
  BY <1>1
<1>3. PICK m \in ids : \A x \in ids : x <= m
  BY <1>2, Greatest
<1>4. \A x, y \in ids : y <= x <=> x >= y
  BY <1>2
<1>5. Max(ids) \in ids /\ \A x \in ids : Max(ids) >= x
  BY <1>3, <1>4 DEF Max
<1>6. LastId(th) = Max(ids)
  BY <1>1 DEF LastId
<1>7. \A x \in ids : x \in Nat
  <2>1. \A x \in 0 .. N : x \in Nat
    OBVIOUS
  <2> QED
    BY <1>2, <2>1
<1> HIDE DEF Max
<1>8. LastId(th) \in ids /\ \A x \in ids : x <= LastId(th)
  BY <1>4, <1>5, <1>6
<1> QED
  BY <1>1, <1>7, <1>8


-----------------------------------------------------------------------------
(* Walks, as facts on the rows returned and the views they come from *)

\* New snapshots add views: what was there at some time stays so, and less was
\* there all the time.
LEMMA GaplessGrows ==
    ASSUME NEW q, NEW v, NEW w, Gapless(q, v), DOMAIN v # {},
           \A s \in DOMAIN v : s \in DOMAIN w /\ w[s] = v[s]
    PROVE  Gapless(q, w)
<1>1. Sometime(v) \subseteq Sometime(w)
  BY DEF Sometime
<1>2. Throughout(w) \subseteq Throughout(v)
  <2> SUFFICES ASSUME NEW r \in Throughout(w) PROVE r \in Throughout(v)
    OBVIOUS
  <2>1. \A s \in DOMAIN v : r \in v[s]
    BY DEF Throughout
  <2>2. r \in Sometime(v)
    BY <2>1 DEF Sometime
  <2> QED
    BY <2>1, <2>2 DEF Throughout
<1>3. q.at = "select" => q.snap \in IF q.ask.op = "stats" THEN {0} ELSE DOMAIN w
  BY DEF Gapless
<1> QED
  BY <1>1, <1>2, <1>3 DEF Gapless

\* A query that has returned nothing yet.
LEMMA GaplessStart ==
    ASSUME NEW q, NEW v, q.rows = {}, q.at \notin {"select", "done"}
    PROVE  Gapless(q, v)
  BY DEF Gapless

\* The lock and the snapshot of the next page change no rows.
LEMMA GaplessTurn ==
    ASSUME NEW q, NEW u, NEW v, Gapless(q, v), u.rows = q.rows, u.ask = q.ask, u.at # "done",
           u.at = "select" => u.snap \in IF u.ask.op = "stats" THEN {0} ELSE DOMAIN v
    PROVE  Gapless(u, v)
  BY DEF Gapless

\* All that get_stats counts is read at once.
LEMMA GaplessStats ==
    ASSUME NEW u, NEW v, NEW s \in DOMAIN v, u.rows = v[s], u.at = "done",
           u.ask.op = "stats"
    PROVE  Gapless(u, v)
<1>1. v[s] \subseteq Sometime(v) /\ Throughout(v) \subseteq v[s]
  BY DEF Sometime, Throughout
<1> QED
  BY <1>1 DEF Gapless

\* A page that begins where the rows end leaves no gap, and when it is empty
\* nothing is missing.
LEMMA GaplessPage ==
    ASSUME NEW q, NEW u, NEW v, Gapless(q, v), q.ask.op = "walk",
           NEW s \in DOMAIN v, NEW last \in Nat, NEW page,
           \A t \in DOMAIN v : \A r \in v[t] : r.partition_id \in Nat \ {0},
           \A r \in q.rows : r.partition_id <= last,
           last = 0 \/ \E r \in q.rows : r.partition_id = last,
           page \subseteq v[s],
           \A r \in v[s], x \in page :
              last < r.partition_id /\ r.partition_id <= x.partition_id => r \in page,
           page = {} => \A r \in v[s] : r.partition_id <= last,
           u.ask = q.ask, u.rows = q.rows \cup page,
           u.at = IF page = {} THEN "done" ELSE "lock"
    PROVE  Gapless(u, v)
<1>1. \A r \in Sometime(v) : r.partition_id \in Nat \ {0}
  BY DEF Sometime
<1>2. \A r \in Throughout(v) : r \in v[s] /\ r.partition_id \in Nat \ {0}
  BY DEF Throughout
<1>3. u.rows \subseteq Sometime(v)
  BY DEF Gapless, Sometime
<1>4. ASSUME NEW r \in Throughout(v), r.partition_id <= last PROVE r \in q.rows
  <2>1. last # 0
    BY <1>2, <1>4
  <2>2. PICK x \in q.rows : x.partition_id = last
    BY <2>1
  <2> QED
    BY <1>4, <2>2 DEF Gapless
<1>5. ASSUME NEW r \in Throughout(v), NEW x \in u.rows, r.partition_id <= x.partition_id
      PROVE  r \in u.rows
  <2>1. CASE r.partition_id <= last
    BY <1>4, <2>1
  <2>2. CASE ~(r.partition_id <= last)
    <3>1. r.partition_id \in Nat /\ x.partition_id \in Nat
      BY <1>1, <1>2, <1>3
    <3>2. last < r.partition_id
      BY <2>2, <3>1
    <3>3. ~(x.partition_id <= last)
      BY <1>5, <3>1, <3>2
    <3>4. x \in page
      BY <3>3
    <3> QED
      BY <1>2, <1>5, <3>2, <3>4
  <2> QED
    BY <2>1, <2>2
<1>6. ASSUME page = {} PROVE Throughout(v) \subseteq u.rows
  BY <1>2, <1>4, <1>6
<1>7. u.at # "select" /\ (u.at = "done" => page = {})
  OBVIOUS
<1> QED
  BY <1>3, <1>5, <1>6, <1>7 DEF Gapless


-----------------------------------------------------------------------------
(* GetPartitions page by page, and GetPartitionStats *)

\* The name, the snapshot and the table of a query.
Asks(q, n, id, c, k) ==
    q.ask.name = n /\ q.ask.snap = k /\ q.seen.id = id /\ q.seen.current = c

SnapsOf(k, c, now) == IF k # 0 THEN {k} ELSE c .. now

Same(n, id) == id # -1 /\ get_table_id(n) = id

Standing(n, id, c) ==
    get_table(n) # {} /\ Same(n, id) /\ c <= get_current_snapshot(n)

ViewsOf(id, S) == [s \in S |-> View(id, s)]

\* Stands and Views in terms of them.
LEMMA StandsIs ==
    ASSUME NEW th, NEW n, NEW id, NEW c, NEW k, Asks(query[th], n, id, c, k),
           NEW S, S = SnapsOf(k, c, get_current_snapshot(n))
    PROVE  /\ SameTable(th) <=> Same(n, id)
           /\ Stands(th) <=> Standing(n, id, c)
           /\ Views(th) = ViewsOf(id, S)
  BY DEF Stands, SameTable, Views, Between, Q, Asks, SnapsOf, Standing, Same, ViewsOf

\* The same in the next state.
LEMMA StandsNext ==
    ASSUME NEW th, NEW n, NEW id, NEW c, NEW k, Asks(query'[th], n, id, c, k),
           NEW S, S = SnapsOf(k, c, get_current_snapshot(n)')
    PROVE  /\ SameTable(th)' <=> Same(n, id)'
           /\ Stands(th)' <=> Standing(n, id, c)'
           /\ Views(th)' = ViewsOf(id, S)'
<1> USE DEF Asks
<1>1. get_table(Q(th).name)' = get_table(n)'
  BY DEF get_table, Q
<1>2. /\ get_table_id(Q(th).name)' = get_table_id(n)'
      /\ get_current_snapshot(Q(th).name)' = get_current_snapshot(n)'
  BY <1>1 DEF get_table_id, get_current_snapshot
<1>3. \A s : View(query[th].seen.id, s)' = View(id, s)'
  BY DEF View
<1>4. (SameTable(th)' <=> Same(n, id)') /\ (Stands(th)' <=> Standing(n, id, c)')
  BY <1>1, <1>2 DEF Stands, SameTable, Standing, Same
<1>5. Between(th)' = S
  BY <1>2 DEF Between, Q, SnapsOf
<1>6. Views(th)' = [s \in Between(th)' |-> View(query[th].seen.id, s)']
  BY DEF Views
<1> QED
  BY <1>3, <1>4, <1>5, <1>6 DEF ViewsOf

\* A step that leaves the database and the question alone.
LEMMA StandsKept ==
    ASSUME NEW th, UNCHANGED dbVars,
           query'[th].ask = query[th].ask, query'[th].seen = query[th].seen
    PROVE  /\ SameTable(th)' <=> SameTable(th)
           /\ Stands(th)' <=> Stands(th)
           /\ Views(th)' = Views(th)
<1>1. PICK n, id, c, k : Asks(query[th], n, id, c, k)
  BY DEF Asks
<1>2. UNCHANGED <<tables, partitions>> /\ Asks(query'[th], n, id, c, k)
  BY <1>1 DEF dbVars, Asks
<1>3. get_table(n)' = get_table(n)
  BY <1>2 DEF get_table
<1>4. get_table_id(n)' = get_table_id(n) /\ get_current_snapshot(n)' = get_current_snapshot(n)
  BY <1>3 DEF get_table_id, get_current_snapshot
<1>5. PICK S : S = SnapsOf(k, c, get_current_snapshot(n))
  OBVIOUS
<1>6. S = SnapsOf(k, c, get_current_snapshot(n)')
  BY <1>4, <1>5
<1>7. /\ (Same(n, id)' <=> Same(n, id)) /\ (Standing(n, id, c)' <=> Standing(n, id, c))
      /\ ViewsOf(id, S)' = ViewsOf(id, S)
  BY <1>2, <1>3, <1>4 DEF Standing, Same, ViewsOf, View, Visible, Select
<1>8. /\ (SameTable(th) <=> Same(n, id)) /\ (Stands(th) <=> Standing(n, id, c))
      /\ Views(th) = ViewsOf(id, S)
  BY <1>1, <1>5, StandsIs
<1>9. /\ (SameTable(th)' <=> Same(n, id)') /\ (Stands(th)' <=> Standing(n, id, c)')
      /\ Views(th)' = ViewsOf(id, S)'
  BY <1>2, <1>6, StandsNext
<1> QED
  BY <1>7, <1>8, <1>9

\* A step of another handler: a table that stands stood before, and the views of
\* a query about it grow.
LEMMA ViewsGrow ==
    ASSUME SafetyInv, RenameInv, NEW th \in Threads, ThreadStep(th), UNCHANGED query,
           NEW t \in Threads, query[t] \in Query, query[t].seen.id <= table_seq,
           SameTable(t) => Stands(t), SameTable(t)'
    PROVE  /\ SameTable(t) /\ Stands(t)'
           /\ query[t].ask.snap <= query[t].seen.current =>
                 /\ DOMAIN Views(t) # {}
                 /\ \A s \in DOMAIN Views(t) :
                       s \in DOMAIN Views(t)' /\ Views(t)'[s] = Views(t)[s]
<1>1. PICK n, id, c, k : Asks(query[t], n, id, c, k)
  BY DEF Asks
<1>2. Asks(query'[t], n, id, c, k) /\ id <= table_seq
  BY <1>1 DEF Asks
<1>3. c \in Nat /\ k \in Nat
  BY <1>1, QueryAssumption DEF Query, QueryRequest, Asks
<1>4. PICK now, then : now = get_current_snapshot(n) /\ then = get_current_snapshot(n)'
  OBVIOUS
<1>5. PICK S, T : S = SnapsOf(k, c, now) /\ T = SnapsOf(k, c, then)
  OBVIOUS
<1>6. /\ (SameTable(t) <=> Same(n, id)) /\ (Stands(t) <=> Standing(n, id, c))
      /\ Views(t) = ViewsOf(id, S)
  BY <1>1, <1>4, <1>5, StandsIs
<1>7. /\ (SameTable(t)' <=> Same(n, id)') /\ (Stands(t)' <=> Standing(n, id, c)')
      /\ Views(t)' = ViewsOf(id, T)'
  BY <1>2, <1>4, <1>5, StandsNext
<1>8. id # -1 /\ get_table_id(n)' = id
  BY <1>7 DEF Same
<1>9. /\ get_table(n)' # {} /\ get_table_id(n) = id
      /\ now \in Nat /\ then \in Nat /\ now <= then
      /\ \A s \in 0 .. now : View(id, s)' = View(id, s)
  BY <1>2, <1>4, <1>8, TableStood
<1>10. Same(n, id) /\ SameTable(t)
  BY <1>6, <1>8, <1>9 DEF Same
<1>11. c <= now
  BY <1>4, <1>6, <1>10 DEF Standing
<1>12. c <= then
  BY <1>3, <1>9, <1>11
<1>13. Stands(t)'
  BY <1>4, <1>7, <1>9, <1>12 DEF Standing
<1>14. /\ DOMAIN Views(t) = S /\ DOMAIN Views(t)' = T
       /\ \A s \in S : Views(t)[s] = View(id, s)
       /\ \A s \in T : Views(t)'[s] = View(id, s)'
  BY <1>6, <1>7 DEF ViewsOf
<1>15. ASSUME k <= c PROVE S # {} /\ \A s \in S : s \in T /\ s \in 0 .. now
  <2>1. CASE k # 0
    <3>1. S = {k} /\ T = {k}
      BY <1>5, <2>1 DEF SnapsOf
    <3> QED
      BY <1>3, <1>9, <1>11, <1>15, <3>1
  <2>2. CASE k = 0
    <3>1. S = c .. now /\ T = c .. then /\ c <= now
      BY <1>11, <1>5, <2>2 DEF SnapsOf
    <3>2. now \in Nat /\ then \in Nat /\ now <= then
      BY <1>9
    <3>3. c \in S
      BY <1>3, <3>1, <3>2
    <3>4. ASSUME NEW s \in S PROVE s \in T /\ s \in 0 .. now
      <4>1. s \in Int /\ c <= s /\ s <= now
        BY <3>1, <3>2, <1>3, <3>4
      <4>2. s <= then /\ 0 <= s
        BY <1>3, <3>2, <4>1
      <4> QED
        BY <1>3, <3>1, <3>2, <4>1, <4>2
    <3> QED
      BY <3>3, <3>4
  <2> QED
    BY <2>1, <2>2
<1>16. query[t].ask.snap = k /\ query[t].seen.current = c
  BY <1>1 DEF Asks
<1> QED
  BY <1>9, <1>10, <1>13, <1>14, <1>15, <1>16

\* What WalkInv says of one query.
WalkOf(th) ==
    /\ query[th].at \in {"identify", "history"} => Q(th).op \in {"list", "snapshot"}
    /\ SameTable(th) => Stands(th)
    /\ Claimed(th) => Gapless(query[th], Views(th))

LEMMA WalkIs ==
    /\ WalkInv <=> \A th \in Threads : query[th].at # "idle" => WalkOf(th)
    /\ WalkInv' <=> \A th \in Threads : query'[th].at # "idle" => WalkOf(th)'
BY DEF WalkInv, WalkOf, Asking

\* A query that another thread's step leaves alone.
LEMMA WalkKept ==
    ASSUME SafetyInv, RenameInv, QueryTypeOK, SeenInv, WalkInv,
           NEW th \in Threads, ThreadStep(th), UNCHANGED query
    PROVE  WalkInv'
<1> SUFFICES ASSUME NEW t \in Threads, query[t].at # "idle" PROVE WalkOf(t)'
  BY WalkIs
<1>1. query[t] \in Query /\ WalkOf(t) /\ query[t].seen.id <= table_seq
  BY WalkIs DEF QueryTypeOK, NoQuery, SeenInv, Asking
<1>2. latest' = latest
  BY CountersStep
<1>3. query[t].at \in {"identify", "history"} => Q(t).op \in {"list", "snapshot"}
  BY <1>1 DEF WalkOf
<1>4. SameTable(t) => Stands(t)
  BY <1>1 DEF WalkOf
<1>5. CASE ~SameTable(t)'
  BY <1>3, <1>5 DEF WalkOf, Claimed, Q
<1>6. CASE SameTable(t)'
  <2>1. SameTable(t) /\ Stands(t)'
    BY <1>1, <1>4, <1>6, ViewsGrow
  <2>2. Claimed(t)' <=> Claimed(t)
    BY <1>2, <1>6, <2>1 DEF Claimed, Q
  <2>3. ASSUME Claimed(t) PROVE Gapless(query[t], Views(t)')
    <3>1. Gapless(query[t], Views(t))
      BY <1>1, <2>3 DEF WalkOf
    <3>2. query[t].ask.snap <= query[t].seen.current
      BY <2>3 DEF Claimed, Q
    <3>3. /\ DOMAIN Views(t) # {}
          /\ \A s \in DOMAIN Views(t) : s \in DOMAIN Views(t)' /\ Views(t)'[s] = Views(t)[s]
      BY <1>1, <1>4, <1>6, <3>2, ViewsGrow
    <3>4. PICK v, w : v = Views(t) /\ w = Views(t)'
      OBVIOUS
    <3> QED
      BY <3>1, <3>3, <3>4, GaplessGrows
  <2>4. Gapless(query[t], Views(t))' <=> Gapless(query[t], Views(t)')
    BY DEF Gapless, Sometime, Throughout
  <2> QED
    BY <1>3, <2>1, <2>2, <2>3, <2>4 DEF WalkOf, Q
<1> QED
  BY <1>5, <1>6

\* A step that leaves the database, the commit counter and the question alone.
LEMMA WalkMoved ==
    ASSUME NEW th, UNCHANGED <<dbVars, latest>>, WalkOf(th), NEW u, query'[th] = u,
           u.ask = query[th].ask, u.seen = query[th].seen,
           u.at \in {"identify", "history"} => u.ask.op \in {"list", "snapshot"},
           Claimed(th) => Gapless(u, Views(th))
    PROVE  WalkOf(th)'
<1>1. /\ (SameTable(th)' <=> SameTable(th)) /\ (Stands(th)' <=> Stands(th))
      /\ Views(th)' = Views(th)
  BY StandsKept
<1>2. Claimed(th)' <=> Claimed(th)
  BY <1>1 DEF Claimed, Q
<1>3. Gapless(query[th], Views(th))' <=> Gapless(u, Views(th))
  <2>1. Gapless(query[th], Views(th))' <=> Gapless(query'[th], Views(th)')
    BY DEF Gapless, Sometime, Throughout
  <2> QED
    BY <1>1, <2>1
<1>4. SameTable(th) => Stands(th)
  BY DEF WalkOf
<1> QED
  BY <1>1, <1>2, <1>3, <1>4 DEF WalkOf, Q

\* The client asks.
LEMMA WalkStarts ==
    ASSUME SafetyInv, NEW th \in Threads, Asked(th), UNCHANGED <<dbVars, latest>>
    PROVE  WalkOf(th)' /\ query'[th].rows = {}
<1>1. PICK r \in Queries :
         query'[th] = [at |-> FirstStep(r.op), ask |-> r, snap |-> r.snap, rows |-> {},
                       tid |-> -1, list |-> <<>>,
                       seen |-> [id |-> get_table_id(r.name),
                                 current |-> get_current_snapshot(r.name)]]
  BY DEF Asked
<1>2. PICK u : u = query'[th]
  OBVIOUS
<1>3. PICK n, id, c, k : /\ n = r.name /\ k = r.snap /\ id = get_table_id(r.name)
                         /\ c = get_current_snapshot(r.name)
  OBVIOUS
<1>4. /\ u.at = FirstStep(r.op) /\ u.ask = r /\ u.rows = {}
      /\ Asks(query'[th], n, id, c, k)
  BY <1>1, <1>2, <1>3 DEF Asks
<1>5. /\ u.at \notin {"select", "done"}
      /\ u.at \in {"identify", "history"} => u.ask.op \in {"list", "snapshot"}
  BY <1>4, QueryAssumption DEF FirstStep, QueryRequest, QueryOps
<1>6. DbInv /\ DbTypeOK /\ UNCHANGED tables
  BY DEF SafetyInv, TypeOK, dbVars
<1>7. get_table(n)' = get_table(n)
  BY <1>6 DEF get_table
<1>8. get_table_id(n)' = get_table_id(n) /\ get_current_snapshot(n)' = get_current_snapshot(n)
  BY <1>7 DEF get_table_id, get_current_snapshot
<1>9. PICK S : S = SnapsOf(k, c, get_current_snapshot(n)')
  OBVIOUS
<1>10. /\ SameTable(th)' <=> Same(n, id)'
       /\ Stands(th)' <=> Standing(n, id, c)'
  BY <1>4, <1>9, StandsNext
<1>11. Same(n, id)' => Standing(n, id, c)'
  <2>1. get_table(n) = {} => id = -1
    BY <1>3 DEF get_table_id
  <2>2. c \in Nat /\ c = get_current_snapshot(n)'
    BY <1>3, <1>6, <1>8, LookupType
  <2> QED
    BY <1>3, <1>7, <2>1, <2>2 DEF Standing, Same
<1>12. Gapless(u, Views(th)')
  BY <1>4, <1>5, GaplessStart
<1>13. Gapless(query[th], Views(th))' <=> Gapless(u, Views(th)')
  BY <1>2 DEF Gapless, Sometime, Throughout
<1> QED
  BY <1>2, <1>4, <1>5, <1>10, <1>11, <1>12, <1>13 DEF WalkOf, Q


\* The snapshots of a query whose table stands, up to the current one.
LEMMA ViewsAre ==
    ASSUME SafetyInv, NEW th \in Threads, query[th] \in Query, Stands(th)
    PROVE  /\ DOMAIN Views(th) = Between(th)
           /\ \A s \in Between(th) : Views(th)[s] = query_partitions(Q(th).name, s)
           /\ Q(th).snap # 0 => Q(th).snap \in Between(th)
           /\ Q(th).snap = 0 => get_current_snapshot(Q(th).name) \in Between(th)
<1>1. DOMAIN Views(th) = Between(th)
  BY DEF Views
<1>2. \A s \in Between(th) : Views(th)[s] = query_partitions(Q(th).name, s)
  BY DEF Views, query_partitions, Stands, SameTable
<1>3. Q(th).snap # 0 => Q(th).snap \in Between(th)
  BY DEF Between
<1>4. ASSUME Q(th).snap = 0 PROVE get_current_snapshot(Q(th).name) \in Between(th)
  <2>1. DbInv /\ DbTypeOK
    BY DEF SafetyInv, TypeOK
  <2>2. PICK now, c : now = get_current_snapshot(Q(th).name) /\ c = query[th].seen.current
    OBVIOUS
  <2>3. now \in Nat /\ c \in Nat /\ c <= now
    BY <2>1, <2>2, LookupType DEF Query, Stands
  <2>4. Between(th) = c .. now
    BY <1>4, <2>2 DEF Between
  <2> QED
    BY <2>2, <2>3, <2>4
<1> QED
  BY <1>1, <1>2, <1>3, <1>4

\* A step of a walk leaves no gap, and its rows are partitions.
LEMMA WalkMoves ==
    ASSUME "current_read" \notin Faults, SafetyInv, NumberedInv, NEW th \in Threads,
           query[th] \in Query, WalkOf(th), QueryStep(th), query'[th] # NoQuery,
           UNCHANGED <<dbVars, latest>>, DOMAIN query = Threads
    PROVE  WalkOf(th)' /\ \A r \in query'[th].rows : r.partition_id <= partition_seq
<1>q. PICK q \in Query : q = query[th]
  OBVIOUS
<1>a. /\ DbTypeOK /\ Numbered /\ partition_seq \in Nat
      /\ \A r \in q.rows : r.partition_id <= partition_seq
      /\ q.rows \subseteq PartitionRow /\ q.ask \in Queries /\ q.ask \in QueryRequest
      /\ q.ask.size \in Nat \ {0} /\ q.ask.snap \in Nat /\ q.ask = Q(th)
  BY <1>q, QueryAssumption
     DEF SafetyInv, TypeOK, DbTypeOK, NumberedInv, Numbered, Query, QueryRequest, Q, Asking
<1>b. ASSUME Claimed(th)
      PROVE  /\ DOMAIN Views(th) = Between(th)
             /\ \A s \in Between(th) : Views(th)[s] = query_partitions(Q(th).name, s)
             /\ Q(th).snap # 0 => Q(th).snap \in Between(th)
             /\ Q(th).snap = 0 => get_current_snapshot(Q(th).name) \in Between(th)
  BY <1>q, <1>b, ViewsAre DEF Claimed, WalkOf
<1>c. ASSUME NEW u, Advance(th, u), u.ask = q.ask, u.seen = q.seen,
             u.at \in {"identify", "history"} => u.ask.op \in {"list", "snapshot"},
             \A r \in u.rows : r.partition_id <= partition_seq,
             Claimed(th) => Gapless(u, Views(th))
      PROVE  WalkOf(th)' /\ \A r \in query'[th].rows : r.partition_id <= partition_seq
  <2>1. query'[th] = u
    BY <1>c DEF Advance
  <2> QED
    BY <1>q, <1>c, <2>1, WalkMoved
<1>d. Claimed(th) => Gapless(q, Views(th))
  BY <1>q DEF WalkOf
<1>1. CASE LockForPage(th)
  <2>1. PICK u : u = [q EXCEPT !.at = "resolve"]
    OBVIOUS
  <2>2. Advance(th, u)
    BY <1>q, <1>1, <2>1 DEF LockForPage
  <2>3. u.ask = q.ask /\ u.seen = q.seen /\ u.rows = q.rows /\ u.at = "resolve"
    BY <2>1 DEF Query
  <2>4. Claimed(th) => Gapless(u, Views(th))
    BY <1>d, <2>3, GaplessTurn
  <2> QED
    BY <1>a, <1>c, <2>2, <2>3, <2>4
<1>2. CASE ResolvePage(th)
  <2>0. PICK s \in PageSnapshot(th) :
           Advance(th, [query[th] EXCEPT !.at = "select", !.snap = s])
    BY <1>2 DEF ResolvePage
  <2>1. PICK u : u = [q EXCEPT !.at = "select", !.snap = s]
    OBVIOUS
  <2>2. Advance(th, u) /\ q.ask.op = "walk"
    BY <1>q, <1>a, <1>2, <2>0, <2>1 DEF ResolvePage
  <2>3. u.ask = q.ask /\ u.seen = q.seen /\ u.rows = q.rows /\ u.at = "select" /\ u.snap = s
    BY <2>1 DEF Query
  <2>4. ASSUME Claimed(th) PROVE s \in DOMAIN Views(th)
    <3>1. s = IF Q(th).snap # 0 THEN Q(th).snap ELSE get_current_snapshot(Q(th).name)
      BY <2>4 DEF PageSnapshot, CurrentSnapshotRead, Claimed
    <3> QED
      BY <1>b, <2>4, <3>1
  <2>5. Claimed(th) => Gapless(u, Views(th))
    BY <1>d, <2>2, <2>3, <2>4, GaplessTurn
  <2> QED
    BY <1>a, <1>c, <2>2, <2>3, <2>5
<1>3. CASE SelectPage(th)
  <2>0. PICK n, s, size, last, page :
           /\ n = Q(th).name /\ s = q.snap /\ size = Q(th).size /\ last = LastId(th)
           /\ page = query_partitions_paged(n, s, size, last)
    OBVIOUS
  <2>1. PICK u : u = [q EXCEPT !.at = IF page = {} THEN "done" ELSE "lock",
                               !.rows = q.rows \cup page]
    OBVIOUS
  <2>2. Advance(th, u) /\ q.ask.op = "walk" /\ q.at = "select"
    BY <1>q, <1>a, <1>3, <2>0, <2>1 DEF SelectPage, Asking
  <2>3. /\ u.ask = q.ask /\ u.seen = q.seen /\ u.rows = q.rows \cup page
        /\ u.at = IF page = {} THEN "done" ELSE "lock"
    BY <2>1 DEF Query
  <2>4. /\ last \in Nat
        /\ \A r \in q.rows : r.partition_id <= last
        /\ last = 0 \/ \E r \in q.rows : r.partition_id = last
    <3>1. \A r \in query[th].rows : r.partition_id \in 0 .. partition_seq
      BY <1>q, <1>a DEF PartitionRow
    <3> QED
      BY <1>q, <1>a, <2>0, <3>1, LastIdIs
  <2>5. PICK V : V = query_partitions(n, s)
    OBVIOUS
  <2>6. /\ page \subseteq V
        /\ \A r \in V, x \in page :
              last < r.partition_id /\ r.partition_id <= x.partition_id => r \in page
        /\ page = {} => \A r \in V : r.partition_id <= last
    BY <1>a, <2>0, <2>4, <2>5, PageBegins
  <2>7. \A m, t : \A r \in query_partitions(m, t) : r.partition_id \in 1 .. partition_seq
    BY <1>a, ViewNumbered DEF query_partitions
  <2>8. \A r \in u.rows : r.partition_id <= partition_seq
    BY <1>a, <2>3, <2>5, <2>6, <2>7
  <2>9. ASSUME Claimed(th) PROVE Gapless(u, Views(th))
    <3>1. PICK v : v = Views(th)
      OBVIOUS
    <3>2. Gapless(q, v)
      BY <1>d, <2>9, <3>1
    <3>3. s \in DOMAIN v
      BY <2>0, <2>2, <3>2 DEF Gapless
    <3>4. v[s] = V
      BY <1>b, <2>0, <2>5, <2>9, <3>1, <3>3
    <3>5. \A t \in DOMAIN v : \A r \in v[t] : r.partition_id \in Nat \ {0}
      BY <1>a, <1>b, <2>7, <2>9, <3>1
    <3> QED
      BY <2>2, <2>3, <2>4, <2>6, <3>1, <3>2, <3>3, <3>4, <3>5, GaplessPage
  <2> QED
    BY <1>c, <2>2, <2>3, <2>8, <2>9
<1>4. CASE ResolveStats(th)
  <2>1. PICK u : u = [q EXCEPT !.at = "select", !.snap = latest]
    OBVIOUS
  <2>2. Advance(th, u) /\ q.ask.op = "stats"
    BY <1>q, <1>a, <1>4, <2>1 DEF ResolveStats
  <2>3. u.ask = q.ask /\ u.seen = q.seen /\ u.rows = q.rows /\ u.at = "select" /\ u.snap = latest
    BY <2>1 DEF Query
  <2>4. Claimed(th) => latest = 0
    BY DEF Claimed
  <2>5. Claimed(th) => Gapless(u, Views(th))
    BY <1>d, <2>2, <2>3, <2>4, GaplessTurn
  <2> QED
    BY <1>a, <1>c, <2>2, <2>3, <2>5
<1>5. CASE SelectStats(th)
  <2>0. PICK s \in IF query[th].snap = 0 THEN CurrentSnapshotRead(Q(th).name)
                                           ELSE {query[th].snap} :
           Advance(th, [query[th] EXCEPT !.at = "done",
                                         !.rows = query_partitions(Q(th).name, s)])
    BY <1>5 DEF SelectStats
  <2>1. PICK V : V = query_partitions(Q(th).name, s)
    OBVIOUS
  <2>2. PICK u : u = [q EXCEPT !.at = "done", !.rows = V]
    OBVIOUS
  <2>3. Advance(th, u) /\ q.ask.op = "stats" /\ q.at = "select" /\ q.ask.snap = 0
    BY <1>q, <1>a, <1>5, <2>0, <2>1, <2>2, QueryAssumption DEF SelectStats, Asking
  <2>4. u.ask = q.ask /\ u.seen = q.seen /\ u.rows = V /\ u.at = "done"
    BY <2>2 DEF Query
  <2>5. \A r \in u.rows : r.partition_id <= partition_seq
    <3>1. \A r \in V : r.partition_id \in 1 .. partition_seq
      BY <1>a, <2>1, ViewNumbered DEF query_partitions
    <3> QED
      BY <1>a, <2>4, <3>1
  <2>6. ASSUME Claimed(th) PROVE Gapless(u, Views(th))
    <3>1. q.snap = 0
      BY <1>d, <2>3, <2>6 DEF Gapless
    <3>2. s = get_current_snapshot(Q(th).name)
      BY <1>q, <2>0, <3>1 DEF CurrentSnapshotRead
    <3>3. s \in DOMAIN Views(th) /\ Views(th)[s] = V
      BY <1>a, <1>b, <2>1, <2>3, <2>6, <3>2
    <3> QED
      BY <2>3, <2>4, <3>3, GaplessStats
  <2> QED
    BY <1>c, <2>3, <2>4, <2>5, <2>6
<1>6. CASE Identify(th)
  <2>0. PICK id : Advance(th, [query[th] EXCEPT !.at = "history", !.tid = id])
    BY <1>6 DEF Identify
  <2>1. PICK u : u = [q EXCEPT !.at = "history", !.tid = id]
    OBVIOUS
  <2>2. Advance(th, u) /\ q.ask.op \in {"list", "snapshot"}
    BY <1>q, <1>a, <1>6, <2>0, <2>1 DEF Identify, Asking, WalkOf
  <2>3. u.ask = q.ask /\ u.seen = q.seen /\ u.rows = q.rows
    BY <2>1 DEF Query
  <2>4. ~Claimed(th)
    BY <1>a, <2>2 DEF Claimed
  <2> QED
    BY <1>a, <1>c, <2>2, <2>3, <2>4
<1>7. CASE SelectHistory(th)
  <2>0. PICK found : Advance(th, [query[th] EXCEPT !.at = "done", !.list = found])
    BY <1>7 DEF SelectHistory
  <2>1. PICK u : u = [q EXCEPT !.at = "done", !.list = found]
    OBVIOUS
  <2>2. Advance(th, u) /\ q.ask.op \in {"list", "snapshot"}
    BY <1>q, <1>a, <1>7, <2>0, <2>1 DEF SelectHistory, Asking, WalkOf
  <2>3. u.ask = q.ask /\ u.seen = q.seen /\ u.rows = q.rows
    BY <2>1 DEF Query
  <2>4. ~Claimed(th)
    BY <1>a, <2>2 DEF Claimed
  <2> QED
    BY <1>a, <1>c, <2>2, <2>3, <2>4
<1>8. ~Advance(th, NoQuery)
  BY DEF Advance
<1> QED
  BY <1>1, <1>2, <1>3, <1>4, <1>5, <1>6, <1>7, <1>8
     DEF QueryStep, SelectNothing, QueryThrows, Answer


\* What NumberedInv and WalkInv say of one query and of the relation.
Walked(th) ==
    query[th].at # "idle" =>
       WalkOf(th) /\ \A r \in query[th].rows : r.partition_id <= partition_seq

LEMMA WalkedIs ==
    /\ NumberedInv /\ WalkInv <=> Numbered /\ \A th \in Threads : Walked(th)
    /\ (NumberedInv /\ WalkInv)' <=> Numbered' /\ \A th \in Threads : Walked(th)'
<1>1. NumberedInv /\ WalkInv <=> Numbered /\ \A th \in Threads : Walked(th)
  BY WalkIs DEF NumberedInv, Numbered, Walked, Asking
<1>2. NumberedInv' /\ WalkInv' <=> Numbered' /\ \A th \in Threads : Walked(th)'
  BY WalkIs DEF NumberedInv, Numbered, Walked, Asking
<1> QED
  BY <1>1, <1>2

\* The query of another thread, while the database stands still.
LEMMA WalkStays ==
    ASSUME UNCHANGED dbVars, latest' = latest, NEW th, query'[th] = query[th], Walked(th)
    PROVE  Walked(th)'
<1>1. CASE query[th].at = "idle"
  BY <1>1 DEF Walked
<1>2. CASE query[th].at # "idle"
  <2>1. WalkOf(th) /\ \A r \in query[th].rows : r.partition_id <= partition_seq
    BY <1>2 DEF Walked
  <2>2. PICK u : u = query[th]
    OBVIOUS
  <2>3. /\ u.at \in {"identify", "history"} => u.ask.op \in {"list", "snapshot"}
        /\ Claimed(th) => Gapless(u, Views(th))
    BY <2>1, <2>2 DEF WalkOf, Q
  <2>4. WalkOf(th)'
    BY <2>1, <2>2, <2>3, WalkMoved
  <2>5. partition_seq' = partition_seq
    BY DEF dbVars, seqVars
  <2> QED
    BY <2>1, <2>4, <2>5 DEF Walked
<1> QED
  BY <1>1, <1>2

\* A transaction commits: from then on the commit counter decides what is read.
LEMMA WalkReleased ==
    ASSUME UNCHANGED dbVars, latest' # 0, NEW th, query'[th] = query[th], Walked(th)
    PROVE  Walked(th)'
<1>1. CASE query[th].at = "idle"
  BY <1>1 DEF Walked
<1>2. CASE query[th].at # "idle"
  <2>1. WalkOf(th) /\ \A r \in query[th].rows : r.partition_id <= partition_seq
    BY <1>2 DEF Walked
  <2>2. (SameTable(th)' <=> SameTable(th)) /\ (Stands(th)' <=> Stands(th))
    BY StandsKept
  <2>3. WalkOf(th)'
    BY <2>1, <2>2 DEF WalkOf, Claimed, Q
  <2>4. partition_seq' = partition_seq
    BY DEF dbVars, seqVars
  <2> QED
    BY <2>1, <2>3, <2>4 DEF Walked
<1> QED
  BY <1>1, <1>2

LEMMA WalkNext ==
    ASSUME "current_read" \notin Faults, SafetyInv, OneRequest, RenameInv, LinearHistory,
           RowsInv, ListInv, NumberedInv, WalkInv, [QueryNext]_allVars
    PROVE  NumberedInv' /\ WalkInv'
<1>a. QueryTypeOK /\ OwnedInv /\ SeenInv /\ DbTypeOK /\ latest \in Nat
  BY DEF ListInv, SafetyInv, TypeOK, ThreadTypeOK
<1>b. Numbered /\ \A th \in Threads : Walked(th)
  BY WalkedIs
<1>1. ASSUME NEW th \in Threads, ThreadStep(th), UNCHANGED query
      PROVE  NumberedInv' /\ WalkInv'
  <2>1. Numbered' /\ WalkInv'
    BY <1>a, <1>b, <1>1, NumberedStep, WalkKept
  <2>2. partition_seq' \in Nat /\ partition_seq' >= partition_seq /\ partition_seq \in Nat
    BY <1>a, <1>1, CountersStep DEF DbTypeOK
  <2>3. ASSUME NEW t \in Threads, query'[t].at # "idle", NEW r \in query'[t].rows
        PROVE  r.partition_id <= partition_seq'
    <3>1. query[t] \in Query /\ r \in query[t].rows /\ r.partition_id <= partition_seq
      BY <1>a, <1>b, <1>1, <2>3 DEF QueryTypeOK, NoQuery, Walked
    <3>2. r.partition_id \in Nat
      BY <3>1 DEF Query, PartitionRow
    <3> QED
      BY <2>2, <3>1, <3>2
  <2> QED
    BY <2>1, <2>3, WalkIs, WalkedIs DEF Walked
<1>2. ASSUME NEW th \in Threads, StartQuery(th) \/ QueryStep(th), UNCHANGED <<dbVars, latest>>
      PROVE  NumberedInv' /\ WalkInv'
  <2>1. UNCHANGED <<partitions, partition_seq>>
    BY <1>2 DEF dbVars, seqVars
  <2>2. Numbered'
    BY <1>b, <2>1 DEF Numbered
  <2>3. /\ \A t \in Threads \ {th} : query'[t] = query[t]
        /\ query'[th] = NoQuery \/ Asked(th) \/ Moved(th)
    BY <1>a, <1>2, HistoryHeld, QueryMoves
  <2>4. ASSUME NEW t \in Threads \ {th} PROVE Walked(t)'
    BY <1>b, <1>2, <2>3, WalkStays
  <2>5. Walked(th)'
    <3>1. CASE query'[th] = NoQuery
      BY <3>1 DEF Walked, NoQuery
    <3>2. CASE Asked(th)
      <4>1. WalkOf(th)' /\ query'[th].rows = {}
        BY <1>2, <3>2, WalkStarts
      <4> QED
        BY <4>1 DEF Walked
    <3>3. CASE query'[th] # NoQuery /\ Moved(th)
      <4>1. query[th] \in Query /\ query[th].at # "idle" /\ DOMAIN query = Threads
        BY <1>a, <3>3 DEF Moved, Query, QueryTypeOK
      <4>2. QueryStep(th) /\ WalkOf(th)
        BY <1>b, <1>2, <4>1 DEF StartQuery, Asking, Walked
      <4>3. WalkOf(th)' /\ \A r \in query'[th].rows : r.partition_id <= partition_seq
        BY <1>2, <3>3, <4>1, <4>2, WalkMoves
      <4> QED
        BY <2>1, <4>3 DEF Walked
    <3> QED
      BY <2>3, <3>1, <3>2, <3>3
  <2> QED
    BY <2>2, <2>4, <2>5, WalkedIs
<1>3. CASE Restart /\ UNCHANGED dbVars /\ query' = [t \in Threads |-> NoQuery]
  <2>1. Numbered'
    BY <1>b, <1>3 DEF Numbered, dbVars, seqVars
  <2>2. \A t \in Threads : Walked(t)'
    BY <1>3 DEF Walked, NoQuery
  <2> QED
    BY <2>1, <2>2, WalkedIs
<1>4. CASE UNCHANGED <<dbVars, query>> /\ (latest' = latest \/ CommitTransaction)
  <2>1. Numbered'
    BY <1>b, <1>4 DEF Numbered, dbVars, seqVars
  <2>2. latest' = latest \/ latest' # 0
    BY <1>a, <1>4 DEF CommitTransaction
  <2>3. ASSUME NEW t \in Threads PROVE Walked(t)'
    BY <1>b, <1>4, <2>2, WalkStays, WalkReleased
  <2> QED
    BY <2>1, <2>3, WalkedIs
<1> QED
  BY <1>1, <1>2, <1>3, <1>4, QuerySees

\* No rename is under way.
LEMMA RenameNext ==
    ASSUME NoRenames, SafetyInv, OneRequest, RenameInv, [QueryNext]_allVars
    PROVE  RenameInv'
<1>1. CASE Restart
  BY <1>1, Fresh DEF RenameInv
<1>2. CASE UNCHANGED <<dbVars, cache, pc, localVars>>
  BY <1>2 DEF RenameInv, localVars
<1> QED
  BY <1>1, <1>2, RenameStep, QueryCases

\* A walk over the pages of a table returns every partition that was there all
\* the time and none that never was, whatever is committed between two pages,
\* and so does get_stats.  No table may be renamed while it goes on, so that the
\* name stands for another table for some pages, and no SELECT of a current
\* snapshot fails: it would be taken for 0.
THEOREM WalkAlwaysComplete ==
    ASSUME NoRenames, "current_read" \notin Faults
    PROVE  QuerySpec => []WalkIsComplete
<1>1. QueryInit => RenameInv /\ NumberedInv /\ WalkInv
  <2> SUFFICES ASSUME QueryInit PROVE RenameInv /\ NumberedInv /\ WalkInv
    OBVIOUS
  <2>1. query = [t \in Threads |-> NoQuery] /\ partitions = {}
    BY DEF QueryInit, Each, Init, DbInit
  <2>2. Numbered /\ \A t \in Threads : Walked(t)
    BY <2>1 DEF Numbered, Walked, NoQuery
  <2>3. RenameInv
    BY Fresh DEF RenameInv
  <2> QED
    BY <2>2, <2>3, WalkedIs
<1>2. SafetyInv /\ OneRequest /\ RelationsInv /\ ChainInv /\ ListInv
         /\ RenameInv /\ NumberedInv /\ WalkInv /\ [QueryNext]_allVars
      => RenameInv' /\ NumberedInv' /\ WalkInv'
  BY RenameNext, WalkNext DEF RelationsInv, ChainInv
<1>3. WalkInv => WalkIsComplete
  <2> SUFFICES ASSUME WalkInv, NEW th \in Threads, Done(th, {"walk", "stats"}),
                      SameTable(th), Q(th).snap <= query[th].seen.current, latest = 0
               PROVE  LET views == {View(query[th].seen.id, s) : s \in Between(th)}
                      IN  /\ \A r \in UNION views : (\A V \in views : r \in V)
                                                    => r \in query[th].rows
                          /\ query[th].rows \subseteq UNION views
    BY DEF WalkIsComplete
  <2>1. query[th].at = "done" /\ Claimed(th)
    BY DEF Done, Asking, Claimed
  <2>2. Gapless(query[th], Views(th))
    BY <2>1, WalkIs DEF WalkOf
  <2>3. /\ Throughout(Views(th)) \subseteq query[th].rows
        /\ query[th].rows \subseteq Sometime(Views(th))
    BY <2>1, <2>2 DEF Gapless
  <2>4. /\ DOMAIN Views(th) = Between(th)
        /\ \A s \in Between(th) : Views(th)[s] = View(query[th].seen.id, s)
    BY DEF Views
  <2>5. Sometime(Views(th)) = UNION {View(query[th].seen.id, s) : s \in Between(th)}
    BY <2>4 DEF Sometime
  <2> QED
    BY <2>3, <2>4, <2>5 DEF Throughout
<1> QED
  BY <1>1, <1>2, <1>3, ListAlways, PTL DEF QuerySpec

=============================================================================
