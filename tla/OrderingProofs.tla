--------------------------- MODULE OrderingProofs ---------------------------
(***************************************************************************)
(* What Nth and Filter return, for every finite set and every sequence,    *)
(* and the least and the greatest member of a set of numbers.              *)
(***************************************************************************)
EXTENDS Ordering, FiniteSetTheorems, TLAPS

-----------------------------------------------------------------------------
(* Least and greatest members *)

\* Every non-empty set of natural numbers has a least member: induction, as a
\* search for the least counterexample.
LEMMA Least ==
    ASSUME NEW S, S \subseteq Nat, S # {}
    PROVE  \E m \in S : \A x \in S : m <= x
<1> DEFINE R == OpToRel(<, Nat)
<1>1. \A x, y \in Nat : x < y => <<x, y>> \in R
  BY DEF OpToRel
<1>2. IsWellFoundedOn(R, Nat)
  BY NatLessThanWellFounded
<1> HIDE DEF R
<1>3. PICK m \in S : \A x \in S : ~(<<x, m>> \in R)
  BY <1>2, WFMin
<1>4. ASSUME NEW x \in S PROVE m <= x
  <2>1. m \in Nat /\ x \in Nat /\ ~(x < m)
    BY <1>1, <1>3
  <2> QED
    BY <2>1
<1> QED
  BY <1>3, <1>4

\* A bounded one has a greatest member.
LEMMA Greatest ==
    ASSUME NEW N \in Nat, NEW S, S \subseteq 0 .. N, S # {}
    PROVE  \E m \in S : \A x \in S : x <= m
<1> DEFINE T == {k \in 0 .. N : \E x \in S : x = N - k}
<1>1. T \subseteq Nat
  OBVIOUS
<1>2. \A x \in S : N - x \in T
  OBVIOUS
<1>3. T # {}
  BY <1>2
<1>4. \A k \in T : k \in 0 .. N /\ N - k \in S
  OBVIOUS
<1> HIDE DEF T
<1>5. PICK k \in T : \A x \in T : k <= x
  BY <1>1, <1>3, Least
<1>6. ASSUME NEW x \in S PROVE x <= N - k
  <2>1. k <= N - x /\ k \in 0 .. N /\ x \in 0 .. N
    BY <1>2, <1>4, <1>5
  <2> QED
    BY <2>1
<1> QED
  BY <1>4, <1>5, <1>6

-----------------------------------------------------------------------------
(* Members by rank *)

Rank(I, i) == Cardinality({j \in I : j <= i})

\* Ranks count the members from 1 on, and order them.
LEMMA Ranks ==
    ASSUME NEW I, I \subseteq Int, IsFiniteSet(I)
    PROVE  /\ Cardinality(I) \in Nat
           /\ \A i \in I : Rank(I, i) \in 1 .. Cardinality(I)
           /\ \A i, j \in I : i < j => Rank(I, i) < Rank(I, j)
           /\ \A n \in 1 .. Cardinality(I) : \E i \in I : Rank(I, i) = n
<1> DEFINE Below(i) == {j \in I : j <= i}
<1>0. \A i : Rank(I, i) = Cardinality(Below(i))
  BY DEF Rank
<1>1. \A i : IsFiniteSet(Below(i)) /\ Below(i) \in SUBSET I
  BY FS_Subset
<1>2. Cardinality(I) \in Nat /\ \A i : Cardinality(Below(i)) \in Nat
  BY <1>1, FS_CardinalityType
<1>3. \A i : Cardinality(Below(i)) <= Cardinality(I)
  BY <1>1, FS_Subset
<1>4. \A i \in I : Cardinality(Below(i)) # 0
  <2> SUFFICES ASSUME NEW i \in I PROVE Cardinality(Below(i)) # 0
    OBVIOUS
  <2>1. Below(i) # {}
    OBVIOUS
  <2> QED
    BY <1>1, <2>1, FS_EmptySet
<1>s. ASSUME NEW i \in I, NEW j \in I, i < j
      PROVE  Below(i) \in SUBSET Below(j) /\ Below(i) # Below(j)
  <2>1. i \in Int /\ j \in Int /\ \A x \in I : x \in Int
    OBVIOUS
  <2>2. \A x \in I : x <= i => x <= j
    BY <1>s, <2>1
  <2>3. j \in Below(j) /\ j \notin Below(i)
    BY <1>s, <2>1
  <2> QED
    BY <2>2, <2>3
<1> HIDE DEF Below
<1>5. \A i \in I : Rank(I, i) \in 1 .. Cardinality(I)
  BY <1>0, <1>2, <1>3, <1>4
<1>6. ASSUME NEW i \in I, NEW j \in I, i < j PROVE Rank(I, i) < Rank(I, j)
  <2>1. Below(i) \in SUBSET Below(j) /\ Below(i) # Below(j)
    BY <1>6, <1>s
  <2>2. /\ Cardinality(Below(i)) <= Cardinality(Below(j))
        /\ Cardinality(Below(j)) # Cardinality(Below(i))
    BY <1>1, <2>1, FS_Subset
  <2> QED
    BY <1>0, <1>2, <2>2
<1>7. ASSUME NEW n \in 1 .. Cardinality(I) PROVE \E i \in I : Rank(I, i) = n
  <2> DEFINE f == [i \in I |-> Rank(I, i)]
             T == 1 .. Cardinality(I)
  <2>1. f \in [I -> T]
    BY <1>5
  <2>2. \A i, j \in I : f[i] = f[j] => i = j
    <3> SUFFICES ASSUME NEW i \in I, NEW j \in I, f[i] = f[j] PROVE i = j
      OBVIOUS
    <3>1. i \in Int /\ j \in Int /\ Rank(I, i) = Rank(I, j) /\ Rank(I, i) \in Int
      BY <1>5, <1>2
    <3> QED
      BY <1>6, <3>1
  <2>3. f \in Injection(I, T)
    BY <2>1, <2>2 DEF Injection, IsInjective
  <2>4. IsFiniteSet(T) /\ Cardinality(T) = Cardinality(I)
    BY <1>2, FS_Interval
  <2> HIDE DEF f, T
  <2>5. f \in Surjection(I, T)
    BY <2>3, <2>4, FS_Injection
  <2>6. n \in T
    BY DEF T
  <2>7. \E i \in I : f[i] = n
    BY <2>5, <2>6 DEF Surjection
  <2> QED
    BY <2>7 DEF f
<1> QED
  BY <1>2, <1>5, <1>6, <1>7

\* Nth enumerates the set, upwards.
LEMMA NthMember ==
    ASSUME NEW I, I \subseteq Int, IsFiniteSet(I)
    PROVE  /\ Cardinality(I) \in Nat
           /\ \A n \in 1 .. Cardinality(I) : Nth(I, n) \in I
           /\ \A n, m \in 1 .. Cardinality(I) : n < m => Nth(I, n) < Nth(I, m)
           /\ \A i \in I : \E n \in 1 .. Cardinality(I) : Nth(I, n) = i
<1>0. /\ Cardinality(I) \in Nat
      /\ \A i \in I : Rank(I, i) \in 1 .. Cardinality(I)
      /\ \A i, j \in I : i < j => Rank(I, i) < Rank(I, j)
      /\ \A n \in 1 .. Cardinality(I) : \E i \in I : Rank(I, i) = n
  BY Ranks
<1>1. \A n \in 1 .. Cardinality(I) : Nth(I, n) \in I /\ Rank(I, Nth(I, n)) = n
  BY <1>0 DEF Nth, Rank
<1>2. ASSUME NEW n \in 1 .. Cardinality(I), NEW m \in 1 .. Cardinality(I), n < m
      PROVE  Nth(I, n) < Nth(I, m)
  <2>0. /\ Nth(I, n) \in I /\ Rank(I, Nth(I, n)) = n
        /\ Nth(I, m) \in I /\ Rank(I, Nth(I, m)) = m
    BY <1>1
  <2>1. Nth(I, m) < Nth(I, n) => m < n
    BY <1>0, <2>0
  <2>2. Nth(I, m) # Nth(I, n)
    BY <1>2, <2>0
  <2>3. Nth(I, m) \in Int /\ Nth(I, n) \in Int
    BY <2>0
  <2>4. ~(m < n)
    BY <1>0, <1>2
  <2> QED
    BY <2>1, <2>2, <2>3, <2>4
<1>3. ASSUME NEW i \in I PROVE \E n \in 1 .. Cardinality(I) : Nth(I, n) = i
  <2> DEFINE n == Rank(I, i)
  <2>1. n \in 1 .. Cardinality(I)
    BY Ranks
  <2>2. Nth(I, n) \in I /\ Rank(I, Nth(I, n)) = Rank(I, i)
    BY <1>1, <2>1
  <2>3. ~(Nth(I, n) < i) /\ ~(i < Nth(I, n))
    <3>1. Rank(I, i) \in Int
      BY <2>1
    <3>2. /\ Nth(I, n) < i => Rank(I, Nth(I, n)) < Rank(I, i)
          /\ i < Nth(I, n) => Rank(I, i) < Rank(I, Nth(I, n))
      BY <1>0, <2>2
    <3> HIDE DEF n
    <3> QED
      BY <2>2, <3>1, <3>2
  <2>4. Nth(I, n) \in Int /\ i \in Int
    BY <2>2
  <2>5. Nth(I, n) = i
    BY <2>3, <2>4
  <2> QED
    BY <2>1, <2>5
<1> QED
  BY <1>0, <1>1, <1>2, <1>3

\* There is no other enumeration.
Enumerates(h, n, I) ==
    /\ h \in [1 .. n -> I]
    /\ \A a, b \in 1 .. n : a < b => h[a] < h[b]
    /\ \A i \in I : \E a \in 1 .. n : h[a] = i

LEMMA NthOnly ==
    ASSUME NEW I, I \subseteq Int, NEW n \in Nat, NEW h, Enumerates(h, n, I)
    PROVE  /\ IsFiniteSet(I) /\ Cardinality(I) = n
           /\ \A a \in 1 .. n : Nth(I, a) = h[a]
<1> USE DEF Enumerates
<1>1. \A a, b \in 1 .. n : h[a] = h[b] => a = b
  <2> SUFFICES ASSUME NEW a \in 1 .. n, NEW b \in 1 .. n, a # b PROVE h[a] # h[b]
    OBVIOUS
  <2>1. h[a] < h[b] \/ h[b] < h[a]
    OBVIOUS
  <2>2. h[a] \in Int /\ h[b] \in Int
    OBVIOUS
  <2> QED
    BY <2>1, <2>2
<1>2. \A a, b \in 1 .. n : h[a] <= h[b] <=> a <= b
  <2> SUFFICES ASSUME NEW a \in 1 .. n, NEW b \in 1 .. n PROVE h[a] <= h[b] <=> a <= b
    OBVIOUS
  <2>1. h[a] \in Int /\ h[b] \in Int
    OBVIOUS
  <2>2. CASE a < b
    BY <2>1, <2>2
  <2>3. CASE b < a
    BY <2>1, <2>3
  <2> QED
    BY <2>1, <2>2, <2>3
<1>3. ASSUME NEW m \in Nat, m <= n, NEW J, J \subseteq I,
             \A i : i \in J <=> \E a \in 1 .. m : h[a] = i
      PROVE  IsFiniteSet(J) /\ Cardinality(J) = m
  <2> DEFINE f == [a \in 1 .. m |-> h[a]]
  <2>1. f \in [1 .. m -> J] /\ \A a \in 1 .. m : f[a] = h[a]
    BY <1>3
  <2>2. \A i \in J : \E a \in 1 .. m : f[a] = i
    BY <1>3, <2>1
  <2>3. \A a, b \in 1 .. m : f[a] = f[b] => a = b
    BY <1>1, <1>3, <2>1
  <2> HIDE DEF f
  <2>4. f \in Bijection(1 .. m, J)
    BY <2>1, <2>2, <2>3 DEF Bijection, Injection, Surjection, IsInjective
  <2>5. ExistsBijection(1 .. m, J)
    BY <2>4 DEF ExistsBijection
  <2> QED
    BY <1>3, <2>5, FS_CountingElements, FS_NatBijection
<1>4. IsFiniteSet(I) /\ Cardinality(I) = n
  <2>1. \A i : i \in I <=> \E a \in 1 .. n : h[a] = i
    OBVIOUS
  <2>2. n <= n /\ I \subseteq I
    OBVIOUS
  <2> QED
    BY <1>3, <2>1, <2>2
<1>5. ASSUME NEW a \in 1 .. n PROVE Nth(I, a) = h[a]
  <2>1. Rank(I, h[a]) = a
    <3> DEFINE J == {j \in I : j <= h[a]}
    <3>1. \A i : i \in J <=> \E b \in 1 .. a : h[b] = i
      <4>1. ASSUME NEW i \in J PROVE \E b \in 1 .. a : h[b] = i
        <5>1. PICK b \in 1 .. n : h[b] = i
          OBVIOUS
        <5>2. b <= a
          BY <1>2, <5>1
        <5> QED
          BY <5>1, <5>2
      <4>2. ASSUME NEW b \in 1 .. a PROVE h[b] \in J
        <5>1. b \in 1 .. n /\ b <= a
          OBVIOUS
        <5> QED
          BY <1>2, <5>1
      <4> QED
        BY <4>1, <4>2
    <3>2. J \subseteq I /\ a \in Nat /\ a <= n
      OBVIOUS
    <3> HIDE DEF J
    <3>3. Cardinality(J) = a
      BY <1>3, <3>1, <3>2
    <3> QED
      BY <3>3 DEF Rank, J
  <2>2. Nth(I, a) \in I /\ Rank(I, Nth(I, a)) = a
    <3>1. h[a] \in I
      OBVIOUS
    <3> QED
      BY <2>1, <3>1 DEF Nth, Rank
  <2>3. \A i, j \in I : i < j => Rank(I, i) < Rank(I, j)
    BY <1>4, Ranks
  <2>4. ~(Nth(I, a) < h[a]) /\ ~(h[a] < Nth(I, a))
    <3>1. a \in Int /\ ~(a < a) /\ h[a] \in I
      OBVIOUS
    <3> QED
      BY <2>1, <2>2, <2>3, <3>1
  <2>5. Nth(I, a) \in Int /\ h[a] \in Int
    BY <2>2
  <2> QED
    BY <2>4, <2>5
<1> QED
  BY <1>4, <1>5

-----------------------------------------------------------------------------
(* Filtered sequences *)

\* h says where the elements of t are in s, and t has all that are in S.
Embeds(h, t, s, S) ==
    /\ h \in [DOMAIN t -> DOMAIN s]
    /\ \A a \in DOMAIN t : t[a] = s[h[a]] /\ s[h[a]] \in S
    /\ \A a, b \in DOMAIN t : a < b => h[a] < h[b]
    /\ \A i \in DOMAIN s : s[i] \in S => \E a \in DOMAIN t : h[a] = i

\* Filter keeps the elements that are in the set, in their order.
LEMMA FilterKeeps ==
    ASSUME NEW U, NEW s \in Seq(U), NEW S
    PROVE  Filter(s, S) \in Seq(U) /\ \E h : Embeds(h, Filter(s, S), s, S)
<1> DEFINE I == {i \in DOMAIN s : s[i] \in S}
           n == Cardinality(I)
           h == [a \in 1 .. n |-> Nth(I, a)]
           t == [a \in 1 .. n |-> s[Nth(I, a)]]
<1>0. Filter(s, S) = t
  BY DEF Filter
<1>1. I \in SUBSET (1 .. Len(s)) /\ I \subseteq Int /\ Len(s) \in Nat
  OBVIOUS
<1>2. IsFiniteSet(I)
  BY <1>1, FS_Interval, FS_Subset
<1>3. \A i : i \in I <=> i \in DOMAIN s /\ s[i] \in S
  OBVIOUS
<1> HIDE DEF I
<1>4. /\ n \in Nat
      /\ \A a \in 1 .. n : Nth(I, a) \in I
      /\ \A a, b \in 1 .. n : a < b => Nth(I, a) < Nth(I, b)
      /\ \A i \in I : \E a \in 1 .. n : Nth(I, a) = i
  BY <1>1, <1>2, NthMember
<1> HIDE DEF n
<1>5. t \in Seq(U) /\ DOMAIN t = 1 .. n
  <2>1. \A a \in 1 .. n : s[Nth(I, a)] \in U
    BY <1>3, <1>4
  <2>2. t \in [1 .. n -> U]
    BY <2>1
  <2> QED
    BY <1>4, <2>2
<1>6. /\ h \in [1 .. n -> DOMAIN s]
      /\ \A a \in 1 .. n : t[a] = s[h[a]] /\ s[h[a]] \in S
      /\ \A a, b \in 1 .. n : a < b => h[a] < h[b]
      /\ \A i \in DOMAIN s : s[i] \in S => \E a \in 1 .. n : h[a] = i
  BY <1>3, <1>4
<1> HIDE DEF h, t
<1>7. Embeds(h, t, s, S)
  BY <1>5, <1>6 DEF Embeds
<1> QED
  BY <1>0, <1>5, <1>7

\* Nothing else has these elements in this order.
LEMMA FilterOnly ==
    ASSUME NEW U, NEW s \in Seq(U), NEW S, NEW t \in Seq(U), NEW h, Embeds(h, t, s, S)
    PROVE  Filter(s, S) = t
<1> DEFINE I == {i \in DOMAIN s : s[i] \in S}
           n == Len(t)
<1>1. I \subseteq Int /\ n \in Nat /\ DOMAIN t = 1 .. n
  OBVIOUS
<1>2. Enumerates(h, n, I)
  BY DEF Embeds, Enumerates
<1>3. \A a \in 1 .. n : t[a] = s[h[a]]
  BY DEF Embeds
<1>4. Filter(s, S) = [a \in 1 .. Cardinality(I) |-> s[Nth(I, a)]]
  BY DEF Filter
<1> HIDE DEF I, n
<1>5. Cardinality(I) = n /\ \A a \in 1 .. n : Nth(I, a) = h[a]
  BY <1>1, <1>2, NthOnly
<1>6. t = [a \in 1 .. n |-> t[a]]
  BY <1>1
<1> QED
  BY <1>1, <1>3, <1>4, <1>5, <1>6

=============================================================================
