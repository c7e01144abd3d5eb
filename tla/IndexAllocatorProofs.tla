------------------------- MODULE IndexAllocatorProofs -------------------------
(***************************************************************************)
(* Proofs about IndexAllocator, for every maximum and every length of the  *)
(* free list.                                                              *)
(***************************************************************************)
EXTENDS IndexAllocator, FiniteSetTheorems, TLAPS

Values(s) == {s[k] : k \in 1..Len(s)}
Distinct(s) == \A j, k \in 1..Len(s) : s[j] = s[k] => j = k

-----------------------------------------------------------------------------
(***************************************************************************)
(* Sorting rearranges a list and does nothing else.                        *)
(***************************************************************************)

LEMMA IndicesAreNaturals == \A i \in Indices : i \in Nat /\ i < Max
    BY AllocatorAssumption DEF Indices

LEMMA EntriesAreNaturals ==
    ASSUME NEW s \in Seq(Indices), NEW k \in 1..Len(s)
    PROVE  s[k] \in Nat
<1>1. s[k] \in Indices
    OBVIOUS
<1> QED BY <1>1, IndicesAreNaturals

\* The entries that go before entry i, and i itself.
Ahead(s, i) == {j \in 1..Len(s) : s[j] > s[i] \/ (s[j] = s[i] /\ j <= i)}

LEMMA PlaceType ==
    ASSUME NEW s \in Seq(Indices), NEW i \in 1..Len(s)
    PROVE  Place(s, i) \in 1..Len(s)
<1>1. Len(s) \in Nat
    OBVIOUS
<1>2. IsFiniteSet(1..Len(s)) /\ Cardinality(1..Len(s)) = Len(s)
    BY <1>1, FS_Interval
<1>3. Ahead(s, i) \in SUBSET (1..Len(s)) /\ i \in Ahead(s, i)
    BY DEF Ahead
<1>4. /\ IsFiniteSet(Ahead(s, i))
      /\ Cardinality(Ahead(s, i)) \in Nat
      /\ Cardinality(Ahead(s, i)) <= Len(s)
    BY <1>2, <1>3, FS_Subset, FS_CardinalityType
<1>5. Cardinality(Ahead(s, i)) # 0
    BY <1>3, <1>4, FS_EmptySet
<1> QED BY <1>1, <1>4, <1>5 DEF Place, Ahead

LEMMA PlacesDiffer ==
    ASSUME NEW s \in Seq(Indices), NEW i \in 1..Len(s), NEW j \in 1..Len(s),
           s[i] > s[j] \/ (s[i] = s[j] /\ i < j)
    PROVE  Place(s, i) # Place(s, j)
<1>1. Len(s) \in Nat
    OBVIOUS
<1>2. \A k \in 1..Len(s) : s[k] \in Int
    BY EntriesAreNaturals
<1>3. IsFiniteSet(Ahead(s, j))
    <2>1. IsFiniteSet(1..Len(s))
        BY <1>1, FS_Interval
    <2>2. Ahead(s, j) \in SUBSET (1..Len(s))
        BY DEF Ahead
    <2> QED BY <2>1, <2>2, FS_Subset
<1>4. Ahead(s, i) \in SUBSET Ahead(s, j)
    BY <1>1, <1>2 DEF Ahead
<1>5. j \in Ahead(s, j) /\ j \notin Ahead(s, i)
    BY <1>1, <1>2 DEF Ahead
<1>6. Cardinality(Ahead(s, j)) # Cardinality(Ahead(s, i))
    BY <1>3, <1>4, <1>5, FS_Subset
<1> QED BY <1>6 DEF Place, Ahead

\* Every place is taken by one entry.
LEMMA PlacesFilled ==
    ASSUME NEW s \in Seq(Indices), NEW k \in 1..Len(s)
    PROVE  \E i \in 1..Len(s) : Place(s, i) = k
<1> DEFINE P == 1..Len(s)
<1> DEFINE f == [i \in P |-> Place(s, i)]
<1>1. IsFiniteSet(P)
    <2>1. Len(s) \in Nat
        OBVIOUS
    <2> QED BY <2>1, FS_Interval
<1>2. f \in [P -> P]
    BY PlaceType
<1>3. ASSUME NEW i \in P, NEW j \in P, i # j
      PROVE  Place(s, i) # Place(s, j)
    <2>1. s[i] \in Int /\ s[j] \in Int
        BY EntriesAreNaturals
    <2>2. \/ s[i] > s[j] \/ (s[i] = s[j] /\ i < j)
          \/ s[j] > s[i] \/ (s[j] = s[i] /\ j < i)
        BY <1>3, <2>1
    <2> QED BY <2>2, PlacesDiffer
<1>4. f \in Injection(P, P)
    BY <1>2, <1>3 DEF Injection, IsInjective
<1>5. f \in Surjection(P, P)
    BY <1>1, <1>4, FS_Injection
<1>6. \E i \in P : f[i] = k
    BY <1>5 DEF Surjection
<1> QED BY <1>6

LEMMA SortRearranges ==
    ASSUME NEW s \in Seq(Indices)
    PROVE  /\ Sort(s) \in Seq(Indices)
           /\ Len(Sort(s)) = Len(s)
           /\ Values(Sort(s)) = Values(s)
           /\ Distinct(s) => Distinct(Sort(s))
<1> DEFINE from(k) == CHOOSE i \in 1..Len(s) : Place(s, i) = k
<1>1. \A k \in 1..Len(s) : from(k) \in 1..Len(s) /\ Place(s, from(k)) = k
    BY PlacesFilled
<1>2. \A i \in 1..Len(s) : from(Place(s, i)) = i
    <2>1. SUFFICES ASSUME NEW i \in 1..Len(s), from(Place(s, i)) # i PROVE FALSE
        OBVIOUS
    <2> DEFINE j == from(Place(s, i))
    <2>2. j \in 1..Len(s) /\ Place(s, j) = Place(s, i)
        BY <1>1, PlaceType
    <2> HIDE DEF j
    <2>3. s[i] \in Int /\ s[j] \in Int
        BY <2>2, EntriesAreNaturals
    <2>4. \/ s[i] > s[j] \/ (s[i] = s[j] /\ i < j)
          \/ s[j] > s[i] \/ (s[j] = s[i] /\ j < i)
        BY <2>1, <2>2, <2>3 DEF j
    <2> QED BY <2>2, <2>4, PlacesDiffer
<1> HIDE DEF from
<1>3. Sort(s) = [k \in 1..Len(s) |-> s[from(k)]]
    BY DEF Sort, from
<1>4. Sort(s) \in Seq(Indices) /\ Len(Sort(s)) = Len(s)
    BY <1>1, <1>3
<1>5. \A k \in 1..Len(s) : Sort(s)[k] = s[from(k)]
    BY <1>3
<1>6. Values(Sort(s)) = Values(s)
    <2>1. ASSUME NEW k \in 1..Len(s) PROVE Sort(s)[k] \in Values(s)
        BY <1>1, <1>5 DEF Values
    <2>2. ASSUME NEW i \in 1..Len(s) PROVE s[i] \in Values(Sort(s))
        <3>1. Sort(s)[Place(s, i)] = s[i] /\ Place(s, i) \in 1..Len(s)
            BY <1>2, <1>5, PlaceType
        <3> QED BY <1>4, <3>1 DEF Values
    <2> QED BY <1>4, <2>1, <2>2 DEF Values
<1>7. ASSUME Distinct(s), NEW j \in 1..Len(s), NEW k \in 1..Len(s), Sort(s)[j] = Sort(s)[k]
      PROVE  j = k
    <2>1. from(j) = from(k)
        BY <1>1, <1>5, <1>7 DEF Distinct
    <2> QED BY <1>1, <2>1
<1> QED BY <1>4, <1>6, <1>7 DEF Distinct

-----------------------------------------------------------------------------
(***************************************************************************)
(* What is taken from the back of the list                                 *)
(***************************************************************************)
LEMMA StayingIsPrefix ==
    ASSUME NEW s \in Seq(Indices), NEW i
    PROVE  /\ Cardinality(Staying(s, i)) \in 0..Len(s)
           /\ Staying(s, i) = 1..Cardinality(Staying(s, i))
<1> DEFINE D == Staying(s, i)
<1> DEFINE c == Cardinality(D)
<1>1. Len(s) \in Nat
    OBVIOUS
<1>2. IsFiniteSet(1..Len(s)) /\ Cardinality(1..Len(s)) = Len(s)
    BY <1>1, FS_Interval
<1>3. D \in SUBSET (1..Len(s))
    BY DEF Staying
<1>4. IsFiniteSet(D) /\ c \in Nat /\ c <= Len(s)
    BY <1>2, <1>3, FS_Subset, FS_CardinalityType
<1>5. \A k \in D : \A j \in 1..k : j \in D
    BY <1>1 DEF Staying
<1> HIDE DEF D
<1>6. ASSUME NEW k \in D PROVE k \in 1..c
    <2>1. k \in Nat /\ k >= 1
        BY <1>3
    <2>2. 1..k \in SUBSET D
        BY <1>5, <1>6
    <2>3. Cardinality(1..k) = k
        BY <2>1, FS_Interval
    <2>4. Cardinality(1..k) <= Cardinality(D)
        BY <1>4, <2>2, FS_Subset
    <2> QED BY <1>4, <2>1, <2>3, <2>4
<1>7. ASSUME NEW k \in 1..c, k \notin D PROVE FALSE
    <2>1. k \in Nat /\ k >= 1 /\ k <= c
        BY <1>4
    <2>2. ASSUME NEW j \in D PROVE j \in 1..(k - 1)
        <3>1. j \in 1..Len(s)
            BY <1>3, <2>2
        <3>2. ~(j >= k)
            <4>1. j >= k => k \in 1..j
                BY <2>1, <3>1
            <4> QED BY <1>5, <1>7, <2>2, <4>1
        <3> QED BY <2>1, <3>1, <3>2
    <2>3. IsFiniteSet(1..(k - 1)) /\ Cardinality(1..(k - 1)) = k - 1
        BY <2>1, FS_Interval
    <2>4. c <= k - 1
        <3>1. D \in SUBSET (1..(k - 1))
            BY <2>2
        <3> QED BY <2>3, <3>1, FS_Subset
    <2> QED BY <1>4, <2>1, <2>4
<1>8. D = 1..c
    BY <1>6, <1>7
<1> QED BY <1>1, <1>4, <1>8 DEF D

LEMMA BackRemoved ==
    ASSUME NEW s \in Seq(Indices), NEW i
    PROVE  LET t == WithoutBack(s, i)
           IN  /\ t \in Seq(Indices)
               /\ Len(t) <= Len(s)
               /\ \A k \in 1..Len(t) : t[k] = s[k]
               /\ \A k \in 1..Len(s) : k <= Len(t) <=> \E j \in k..Len(s) : s[j] # i
<1> DEFINE c == Cardinality(Staying(s, i))
<1>1. c \in 0..Len(s) /\ Staying(s, i) = 1..c
    BY StayingIsPrefix
<1>2. \A k \in 1..Len(s) : k \in 1..c <=> \E j \in k..Len(s) : s[j] # i
    BY <1>1 DEF Staying
<1>3. WithoutBack(s, i) = SubSeq(s, 1, c)
    BY DEF WithoutBack
<1> HIDE DEF c
<1>4. Len(s) \in Nat
    OBVIOUS
<1>5. /\ SubSeq(s, 1, c) \in Seq(Indices) /\ Len(SubSeq(s, 1, c)) = c
      /\ \A k \in 1..c : SubSeq(s, 1, c)[k] = s[k]
    BY <1>1, <1>4
<1> DEFINE t == WithoutBack(s, i)
<1>6. /\ t \in Seq(Indices) /\ Len(t) = c
      /\ \A k \in 1..c : t[k] = s[k]
    BY <1>3, <1>5
<1> HIDE DEF t
<1>7. \A k \in 1..Len(s) : k <= Len(t) <=> k \in 1..c
    BY <1>1, <1>4, <1>6
<1> QED BY <1>1, <1>2, <1>4, <1>6, <1>7 DEF t

-----------------------------------------------------------------------------
(***************************************************************************)
(* What recycling does to the list                                         *)
(***************************************************************************)
LEMMA ArrangedRearranges ==
    ASSUME TypeOK
    PROVE  /\ Arranged \in Seq(Indices)
           /\ Len(Arranged) = Len(freeIndices)
           /\ Values(Arranged) = Values(freeIndices)
           /\ Distinct(freeIndices) => Distinct(Arranged)
<1>1. freeIndices \in Seq(Indices)
    BY DEF TypeOK
<1> QED BY <1>1, SortRearranges DEF Arranged

\* One index is handed out; every other one in the list stays in it.
LEMMA RecyclingTakesOne ==
    ASSUME TypeOK, AllocateRecycled
    PROVE  \E i \in Values(freeIndices) :
            /\ HandOut(i)
            /\ freeIndices' \in Seq(Indices)
            /\ \A v \in Values(freeIndices) : v = i \/ v \in Values(freeIndices')
            /\ Distinct(freeIndices) =>
                /\ Distinct(freeIndices')
                /\ Len(freeIndices') = Len(freeIndices) - 1
                /\ Values(freeIndices') = Values(freeIndices) \ {i}
<1> DEFINE a == Arranged
<1> DEFINE n == Len(freeIndices)
<1> DEFINE i == a[n]
<1> DEFINE t == WithoutBack(a, i)
<1>1. /\ a \in Seq(Indices) /\ Len(a) = n
      /\ Values(a) = Values(freeIndices)
      /\ Distinct(freeIndices) => Distinct(a)
    BY ArrangedRearranges
<1>2. freeIndices' = t /\ HandOut(i)
    BY DEF AllocateRecycled
<1>3. n \in Nat /\ n # 0
    <2>1. freeIndices \in Seq(Indices) /\ freeIndices # <<>>
        BY DEF TypeOK, AllocateRecycled, NothingFreed
    <2> QED BY <2>1
<1> HIDE DEF a, n
<1>4. /\ t \in Seq(Indices)
      /\ Len(t) <= Len(a)
      /\ \A k \in 1..Len(t) : t[k] = a[k]
      /\ \A k \in 1..Len(a) : k <= Len(t) <=> \E j \in k..Len(a) : a[j] # i
    BY <1>1, BackRemoved
<1> HIDE DEF t
<1>5. i \in Values(freeIndices)
    <2>1. n \in 1..Len(a)
        BY <1>1, <1>3
    <2>2. i \in Values(a)
        BY <2>1 DEF Values
    <2> QED BY <1>1, <2>2
<1>6. Len(t) \in Nat
    BY <1>4
<1>7. ASSUME NEW v \in Values(a), v # i PROVE v \in Values(t)
    <2>1. PICK k \in 1..Len(a) : v = a[k]
        BY DEF Values
    <2>2. k \in k..Len(a)
        OBVIOUS
    <2>3. k <= Len(t)
        BY <1>4, <1>7, <2>1, <2>2
    <2>4. k \in 1..Len(t)
        BY <1>6, <2>3
    <2> QED BY <1>4, <2>1, <2>4 DEF Values
<1>8. ASSUME Distinct(a)
      PROVE  Distinct(t) /\ Len(t) = n - 1 /\ Values(t) = Values(a) \ {i}
    <2>1. ASSUME NEW k \in 1..n PROVE k <= Len(t) <=> k < n
        <3>1. \A j \in 1..n : a[j] = i <=> j = n
            BY <1>1, <1>3, <1>8 DEF Distinct
        <3>2. CASE k = n
            <4>1. \A j \in n..n : a[j] = i
                BY <1>3
            <4> QED BY <1>1, <1>3, <1>4, <3>2, <4>1
        <3>3. CASE k < n
            <4>1. a[k] # i /\ k \in k..n
                BY <1>3, <3>1, <3>3
            <4> QED BY <1>1, <1>4, <3>3, <4>1
        <3> QED BY <1>3, <3>2, <3>3
    <2>2. Len(t) = n - 1
        <3>1. ~(n <= Len(t))
            BY <1>3, <2>1
        <3>2. n # 1 => n - 1 <= Len(t)
            BY <1>3, <2>1
        <3> QED BY <1>3, <1>6, <3>1, <3>2
    <2>3. \A k \in 1..Len(t) : k \in 1..n /\ k # n /\ t[k] = a[k]
        BY <1>3, <1>4, <2>2
    <2>4. Distinct(t)
        BY <1>1, <1>8, <2>3 DEF Distinct
    <2>5. ASSUME NEW v \in Values(t) PROVE v \in Values(a) /\ v # i
        <3>1. PICK k \in 1..Len(t) : v = t[k]
            BY DEF Values
        <3>2. k \in 1..n /\ n \in 1..n /\ k # n /\ v = a[k]
            BY <1>3, <2>3, <3>1
        <3> QED BY <1>1, <1>8, <3>2 DEF Values, Distinct
    <2> QED BY <1>7, <2>2, <2>4, <2>5
<1> HIDE DEF i
<1> QED BY <1>1, <1>2, <1>4, <1>5, <1>7, <1>8 DEF n

\* What free() adds.
LEMMA PutBackAdds ==
    ASSUME TypeOK, NEW i \in Indices, PutBack(i)
    PROVE  /\ freeIndices' \in Seq(Indices)
           /\ Len(freeIndices') = Len(freeIndices) + 1
           /\ Values(freeIndices') = Values(freeIndices) \cup {i}
           /\ Distinct(freeIndices) /\ i \notin Values(freeIndices) => Distinct(freeIndices')
<1>1. freeIndices \in Seq(Indices) /\ freeIndices' = Append(freeIndices, i)
    BY DEF TypeOK, PutBack
<1>2. /\ freeIndices' \in Seq(Indices)
      /\ Len(freeIndices) \in Nat
      /\ Len(freeIndices') = Len(freeIndices) + 1
      /\ freeIndices'[Len(freeIndices) + 1] = i
      /\ \A k \in 1..Len(freeIndices) : freeIndices'[k] = freeIndices[k]
    BY <1>1
<1>3. Values(freeIndices') = Values(freeIndices) \cup {i}
    <2>1. \A k \in 1..Len(freeIndices') : k \in 1..Len(freeIndices) \/ k = Len(freeIndices) + 1
        BY <1>2
    <2>2. 1..Len(freeIndices) \subseteq 1..Len(freeIndices')
          /\ Len(freeIndices) + 1 \in 1..Len(freeIndices')
        BY <1>2
    <2> QED BY <1>2, <2>1, <2>2 DEF Values
<1>4. ASSUME Distinct(freeIndices), i \notin Values(freeIndices)
      PROVE  Distinct(freeIndices')
    <2>1. \A k \in 1..Len(freeIndices) : freeIndices[k] # i
        BY <1>4 DEF Values
    <2> QED BY <1>2, <1>4, <2>1 DEF Distinct
<1> QED BY <1>2, <1>3, <1>4


-----------------------------------------------------------------------------
(***************************************************************************)
(* Types                                                                   *)
(***************************************************************************)
LEMMA HandOutType ==
    ASSUME TypeOK, NEW i \in Indices, HandOut(i)
    PROVE  /\ returned' \in Indices
           /\ holders' \in [Indices -> Nat]
           /\ holders'[i] = holders[i] + 1
           /\ \A j \in Indices \ {i} : holders'[j] = holders[j]
    BY DEF TypeOK, HandOut

LEMMA ValuesAreIndices ==
    ASSUME TypeOK PROVE Values(freeIndices) \subseteq Indices
<1>1. \A k \in 1..Len(freeIndices) : freeIndices[k] \in Indices
    BY DEF TypeOK
<1> QED BY <1>1 DEF Values

LEMMA TypeStep == TypeOK /\ [Next]_vars => TypeOK'
<1>1. SUFFICES ASSUME TypeOK, [Next]_vars PROVE TypeOK'
    OBVIOUS
<1> USE AllocatorAssumption
<1>2. CASE AllocateNew
    <2>1. nextNewIndex \in Indices /\ nextNewIndex' = nextNewIndex + 1 /\ nextNewIndex < Max
        BY <1>1, <1>2 DEF AllocateNew, Full, TypeOK, Indices
    <2>2. HandOut(nextNewIndex)
        BY <1>2 DEF AllocateNew
    <2>3. returned' \in Indices /\ holders' \in [Indices -> Nat]
        BY <1>1, <2>1, <2>2, HandOutType
    <2> QED BY <1>1, <1>2, <2>1, <2>3 DEF AllocateNew, TypeOK, list
<1>3. CASE AllocateFails
    BY <1>1, <1>3 DEF AllocateFails, TypeOK, list
<1>4. CASE AllocateRecycled
    <2>1. PICK i \in Indices : HandOut(i) /\ freeIndices' \in Seq(Indices)
        BY <1>1, <1>4, RecyclingTakesOne, ValuesAreIndices
    <2>2. returned' \in Indices /\ holders' \in [Indices -> Nat]
        BY <1>1, <2>1, HandOutType
    <2> QED BY <1>1, <1>4, <2>1, <2>2 DEF AllocateRecycled, TypeOK
<1>5. ASSUME NEW i \in Indices, PutBack(i)
      PROVE  /\ freeIndices' \in Seq(Indices)
             /\ sorted' \in BOOLEAN
             /\ nextNewIndex' = nextNewIndex /\ returned' = returned
    <2>1. sorted' \in BOOLEAN
        BY <1>1, <1>5 DEF PutBack, SortedAfter, TypeOK
    <2> QED BY <1>1, <1>5, <2>1, PutBackAdds DEF PutBack
<1>6. ASSUME NEW i \in Indices, Free(i) PROVE TypeOK'
    <2>1. holders' \in [Indices -> Nat]
        BY <1>1, <1>6 DEF Free, TypeOK
    <2> QED BY <1>1, <1>5, <1>6, <2>1 DEF Free, TypeOK
<1>7. ASSUME NEW i \in Indices, DoubleFree(i) PROVE TypeOK'
    BY <1>1, <1>5, <1>7 DEF DoubleFree, TypeOK
<1>8. CASE Clear
    <2>1. holders' \in [Indices -> Nat] /\ freeIndices' \in Seq(Indices) /\ nextNewIndex' \in 0..Max
        BY <1>8 DEF Clear
    <2> QED BY <1>1, <1>8, <2>1 DEF Clear, TypeOK
<1>9. CASE UNCHANGED vars
    BY <1>1, <1>9 DEF vars, list, TypeOK
<1> QED BY <1>1, <1>2, <1>3, <1>4, <1>6, <1>7, <1>8, <1>9 DEF Next, FreeUnknown

\* TypeOK is an invariant: no index beyond the maximum is ever kept or handed out.
THEOREM TypeCorrect == Spec => []TypeOK
<1>1. ASSUME Init PROVE TypeOK
    <2>1. holders \in [Indices -> Nat]
        BY <1>1 DEF Init
    <2>2. freeIndices \in Seq(Indices)
        BY <1>1 DEF Init
    <2>3. nextNewIndex \in 0..Max
        BY <1>1, AllocatorAssumption DEF Init
    <2> QED BY <1>1, <2>1, <2>2, <2>3 DEF Init, TypeOK
<1> QED BY <1>1, TypeStep, PTL DEF Spec

-----------------------------------------------------------------------------
(***************************************************************************)
(* No index is lost                                                        *)
(***************************************************************************)

\* The invariant in terms of Values.
Reachable == \A i \in 0..(nextNewIndex - 1) : holders[i] = 0 => i \in Values(freeIndices)

LEMMA OpenedAreIndices ==
    ASSUME TypeOK PROVE \A i \in 0..(nextNewIndex - 1) : i \in Indices /\ holders[i] \in Nat
    BY AllocatorAssumption DEF TypeOK, Indices

LEMMA ReachableStep == TypeOK /\ Reachable /\ [Next]_vars => Reachable'
<1>1. SUFFICES ASSUME TypeOK, Reachable, [Next]_vars PROVE Reachable'
    OBVIOUS
<1>2. \A i \in 0..(nextNewIndex - 1) : i \in Indices /\ holders[i] \in Nat
    BY <1>1, OpenedAreIndices
<1> USE AllocatorAssumption
<1>3. CASE AllocateNew
    <2>1. nextNewIndex \in Indices /\ nextNewIndex' = nextNewIndex + 1 /\ nextNewIndex \in Nat
        BY <1>1, <1>3 DEF AllocateNew, Full, TypeOK, Indices
    <2>2. /\ holders'[nextNewIndex] = holders[nextNewIndex] + 1
          /\ holders[nextNewIndex] \in Nat
          /\ \A j \in Indices \ {nextNewIndex} : holders'[j] = holders[j]
        BY <1>1, <1>3, <2>1, HandOutType DEF AllocateNew, TypeOK
    <2>3. freeIndices' = freeIndices
        BY <1>3 DEF AllocateNew, list
    <2>4. ASSUME NEW i \in 0..(nextNewIndex' - 1), holders'[i] = 0
          PROVE  i \in Values(freeIndices)
        <3>1. i # nextNewIndex
            BY <2>2, <2>4
        <3>2. i \in 0..(nextNewIndex - 1)
            BY <2>1, <2>4, <3>1
        <3> QED BY <1>1, <1>2, <2>2, <2>4, <3>1, <3>2 DEF Reachable
    <2> QED BY <2>3, <2>4 DEF Reachable
<1>4. CASE AllocateRecycled
    <2>1. PICK i \in Values(freeIndices) :
            /\ HandOut(i)
            /\ \A v \in Values(freeIndices) : v = i \/ v \in Values(freeIndices')
        BY <1>1, <1>4, RecyclingTakesOne
    <2>2. i \in Indices /\ nextNewIndex' = nextNewIndex
        BY <1>1, <1>4, ValuesAreIndices DEF AllocateRecycled
    <2>3. /\ holders'[i] = holders[i] + 1
          /\ holders[i] \in Nat
          /\ \A j \in Indices \ {i} : holders'[j] = holders[j]
        BY <1>1, <2>1, <2>2, HandOutType DEF TypeOK
    <2>4. ASSUME NEW j \in 0..(nextNewIndex - 1), holders'[j] = 0
          PROVE  j \in Values(freeIndices')
        <3>1. j # i
            BY <2>3, <2>4
        <3> QED BY <1>1, <1>2, <2>1, <2>3, <2>4, <3>1 DEF Reachable
    <2> QED BY <2>2, <2>4 DEF Reachable
<1>5. ASSUME NEW i \in Indices, PutBack(i),
             \A j \in Indices \ {i} : holders'[j] = holders[j]
      PROVE  Reachable'
    <2>1. Values(freeIndices') = Values(freeIndices) \cup {i} /\ nextNewIndex' = nextNewIndex
        BY <1>1, <1>5, PutBackAdds DEF PutBack
    <2> QED BY <1>1, <1>2, <1>5, <2>1 DEF Reachable
<1>6. ASSUME NEW i \in Indices, Free(i) PROVE Reachable'
    BY <1>1, <1>5, <1>6 DEF Free, TypeOK
<1>7. ASSUME NEW i \in Indices, DoubleFree(i) PROVE Reachable'
    BY <1>5, <1>7 DEF DoubleFree
<1>8. CASE Clear
    BY <1>8 DEF Clear, Reachable
<1>9. CASE UNCHANGED <<freeIndices, nextNewIndex, holders>>
    BY <1>1, <1>9 DEF Reachable
<1>10. AllocateFails \/ UNCHANGED vars => UNCHANGED <<freeIndices, nextNewIndex, holders>>
    BY DEF AllocateFails, vars, list
<1> QED BY <1>1, <1>3, <1>4, <1>6, <1>7, <1>8, <1>9, <1>10 DEF Next, FreeUnknown

LEMMA LiveIsFinite == IsFiniteSet(Live) /\ Cardinality(Live) \in Nat
<1>1. IsFiniteSet(Indices)
    BY AllocatorAssumption, FS_Interval DEF Indices
<1>2. Live \in SUBSET Indices
    BY DEF Live
<1> QED BY <1>1, <1>2, FS_Subset, FS_CardinalityType

\* A list has no more values than entries.
LEMMA ValuesCount ==
    ASSUME NEW s \in Seq(Indices)
    PROVE  /\ IsFiniteSet(Values(s)) /\ Cardinality(Values(s)) \in Nat
           /\ Cardinality(Values(s)) <= Len(s)
<1> DEFINE P == 1..Len(s)
           f == [k \in P |-> s[k]]
<1>1. Len(s) \in Nat
    OBVIOUS
<1>2. IsFiniteSet(P) /\ Cardinality(P) = Len(s)
    BY <1>1, FS_Interval
<1>3. f \in Surjection(P, Values(s))
    BY DEF Surjection, Values
<1>4. IsFiniteSet(Values(s)) /\ Cardinality(Values(s)) <= Cardinality(P)
    <2> HIDE DEF P, f
    <2> QED BY <1>2, <1>3, FS_Surjection
<1> QED BY <1>2, <1>4, FS_CardinalityType

\* What is opened is held or in the list, so that getNumLive() is no more than what
\* is held.
LEMMA ReachableCounts ==
    ASSUME TypeOK, Reachable PROVE NumLive <= Cardinality(Live)
<1> DEFINE O == 0..(nextNewIndex - 1)
           R == Values(freeIndices)
<1>1. nextNewIndex \in Nat /\ Len(freeIndices) \in Nat /\ freeIndices \in Seq(Indices)
    BY AllocatorAssumption DEF TypeOK
<1>2. IsFiniteSet(O) /\ Cardinality(O) = nextNewIndex
    <2>1. 0 \in Int /\ nextNewIndex - 1 \in Int
        BY <1>1
    <2>2. /\ IsFiniteSet(O)
          /\ Cardinality(O) = IF 0 > nextNewIndex - 1 THEN 0 ELSE (nextNewIndex - 1) - 0 + 1
        <3> HIDE DEF R
        <3> QED BY <2>1, FS_Interval
    <2> HIDE DEF O, R
    <2> QED BY <1>1, <2>2
<1>3. IsFiniteSet(R) /\ Cardinality(R) \in Nat /\ Cardinality(R) <= Len(freeIndices)
    BY <1>1, ValuesCount
<1>4. O \subseteq Live \cup R
    <2>1. \A i \in O : i \in Indices /\ holders[i] \in Nat
        BY <1>1, AllocatorAssumption DEF TypeOK, Indices
    <2> QED BY <2>1 DEF Reachable, Live
<1> HIDE DEF O, R
<1>5. IsFiniteSet(Live \cup R) /\ Cardinality(Live \cup R) <= Cardinality(Live) + Cardinality(R)
    <2>1. /\ IsFiniteSet(Live \cup R)
          /\ Cardinality(Live \cup R)
                = Cardinality(Live) + Cardinality(R) - Cardinality(Live \cap R)
        BY <1>3, LiveIsFinite, FS_Union
    <2>2. Cardinality(Live \cap R) \in Nat
        BY <1>3, FS_Intersection, FS_CardinalityType
    <2> QED BY <1>3, <2>1, <2>2, LiveIsFinite
<1>6. Cardinality(O) <= Cardinality(Live \cup R)
    BY <1>4, <1>5, FS_Subset
<1>7. Cardinality(Live \cup R) \in Nat
    BY <1>5, FS_CardinalityType
<1> QED BY <1>1, <1>2, <1>3, <1>5, <1>6, <1>7, LiveIsFinite DEF NumLive

\* Whatever clients do, double frees included, an opened index that nobody holds
\* is in the list from which allocate() recycles, and getNumLive() counts no more
\* than are held.
THEOREM NothingLost == Spec => []NoIndexIsLost
<1>1. Init => Reachable
    BY AllocatorAssumption DEF Init, Reachable, Indices
<1>2. TypeOK /\ Reachable => NoIndexIsLost
    BY ReachableCounts DEF Reachable, NoIndexIsLost, Recycled, Values
<1> QED BY <1>1, <1>2, TypeCorrect, ReachableStep, PTL DEF Spec

-----------------------------------------------------------------------------
(***************************************************************************)
(* The free list is the complement of what is held                         *)
(***************************************************************************)

LEMMA HandOutGrowsLive ==
    ASSUME TypeOK, NEW i \in Indices, HandOut(i), i \notin Live
    PROVE  /\ Live' = Live \cup {i}
           /\ Cardinality(Live') = Cardinality(Live) + 1
           /\ holders'[i] = 1
           /\ \A j \in Indices \ {i} : holders'[j] = holders[j]
<1>1. /\ holders'[i] = holders[i] + 1
      /\ holders[i] \in Nat
      /\ \A j \in Indices \ {i} : holders'[j] = holders[j]
    BY HandOutType DEF TypeOK
<1>2. holders[i] = 0
    BY <1>1 DEF Live
<1>3. Live' = Live \cup {i}
    BY <1>1 DEF Live
<1>4. Cardinality(Live') = Cardinality(Live) + 1
    BY <1>3, LiveIsFinite, FS_AddElement
<1>5. holders'[i] = 1
    BY <1>1, <1>2
<1> QED BY <1>1, <1>3, <1>4, <1>5

\* What FreeListIsComplement says while nobody has freed twice.
Complement ==
    /\ Values(freeIndices) = (0..(nextNewIndex - 1)) \ Live
    /\ \A i \in Live : holders[i] = 1 /\ i < nextNewIndex
    /\ Distinct(freeIndices)
    /\ NumLive = Cardinality(Live)

LEMMA ComplementMeans == FreeListIsComplement <=> (~abused => Complement)
    BY DEF FreeListIsComplement, Complement, Recycled, Values, Distinct

LEMMA ComplementStep ==
    ASSUME TypeOK, abused \/ Complement, [Next]_vars, ~abused'
    PROVE  Complement'
<1> USE AllocatorAssumption
<1>1. /\ freeIndices \in Seq(Indices) /\ Len(freeIndices) \in Nat
      /\ nextNewIndex \in Nat /\ nextNewIndex <= Max
      /\ \A i \in Indices : i \in Nat /\ i < Max /\ holders[i] \in Nat
      /\ Cardinality(Live) \in Nat
    BY LiveIsFinite, IndicesAreNaturals DEF TypeOK
<1>2. CASE AllocateNew
    <2> DEFINE i == nextNewIndex
    <2>1. /\ i \in Indices /\ nextNewIndex' = i + 1 /\ HandOut(i)
          /\ freeIndices' = freeIndices /\ ~abused /\ freeIndices = <<>>
        BY <1>1, <1>2 DEF AllocateNew, NothingFreed, Full, Indices, list
    <2>2. Complement
        BY <2>1
    <2>3. i \notin Live
        BY <1>1, <2>2 DEF Complement
    <2>4. /\ Live' = Live \cup {i} /\ Cardinality(Live') = Cardinality(Live) + 1
          /\ holders'[i] = 1 /\ \A j \in Indices \ {i} : holders'[j] = holders[j]
        BY <2>1, <2>3, HandOutGrowsLive
    <2>5. Values(freeIndices') = (0..(nextNewIndex' - 1)) \ Live'
        <3>1. 0..(nextNewIndex' - 1) = (0..(i - 1)) \cup {i}
            BY <1>1, <2>1
        <3>2. i \notin 0..(i - 1)
            BY <1>1
        <3> QED BY <2>1, <2>2, <2>4, <3>1, <3>2 DEF Complement
    <2>6. ASSUME NEW j \in Live' PROVE holders'[j] = 1 /\ j < nextNewIndex'
        <3>1. CASE j = i
            BY <1>1, <2>1, <2>4, <3>1
        <3>2. CASE j # i
            <4>1. j \in Live /\ j \in Indices
                BY <2>4, <2>6, <3>2 DEF Live
            <4> QED BY <1>1, <2>1, <2>2, <2>4, <3>2, <4>1 DEF Complement
        <3> QED BY <3>1, <3>2
    <2>7. NumLive' = Cardinality(Live')
        BY <1>1, <2>1, <2>2, <2>4 DEF Complement, NumLive
    <2> QED BY <2>1, <2>2, <2>5, <2>6, <2>7 DEF Complement
<1>3. CASE AllocateRecycled
    <2>1. nextNewIndex' = nextNewIndex /\ ~abused
        BY <1>3 DEF AllocateRecycled
    <2>2. Complement
        BY <2>1
    <2>3. PICK i \in Values(freeIndices) :
            /\ HandOut(i)
            /\ freeIndices' \in Seq(Indices)
            /\ Distinct(freeIndices')
            /\ Len(freeIndices') = Len(freeIndices) - 1
            /\ Values(freeIndices') = Values(freeIndices) \ {i}
        BY <1>3, <2>2, RecyclingTakesOne DEF Complement
    <2>4. i \in Indices /\ i \notin Live /\ i < nextNewIndex
        BY <1>1, <2>2, <2>3, ValuesAreIndices DEF Complement
    <2>5. /\ Live' = Live \cup {i} /\ Cardinality(Live') = Cardinality(Live) + 1
          /\ holders'[i] = 1 /\ \A j \in Indices \ {i} : holders'[j] = holders[j]
        BY <2>3, <2>4, HandOutGrowsLive
    <2>6. Values(freeIndices') = (0..(nextNewIndex' - 1)) \ Live'
        BY <2>1, <2>2, <2>3, <2>5 DEF Complement
    <2>7. ASSUME NEW j \in Live' PROVE holders'[j] = 1 /\ j < nextNewIndex'
        <3>1. CASE j = i
            BY <2>1, <2>4, <2>5, <3>1
        <3>2. CASE j # i
            <4>1. j \in Live /\ j \in Indices
                BY <2>5, <2>7, <3>2 DEF Live
            <4> QED BY <2>1, <2>2, <2>5, <3>2, <4>1 DEF Complement
        <3> QED BY <3>1, <3>2
    <2>8. NumLive' = Cardinality(Live')
        BY <1>1, <2>1, <2>2, <2>3, <2>5 DEF Complement, NumLive
    <2> QED BY <2>3, <2>6, <2>7, <2>8 DEF Complement
<1>4. ASSUME NEW i \in Indices, Free(i) PROVE Complement'
    <2>1. /\ nextNewIndex' = nextNewIndex /\ ~abused /\ PutBack(i)
          /\ i \in Live /\ i < nextNewIndex
        BY <1>4 DEF Free, PutBack, Check, Live
    <2>2. Complement
        BY <2>1
    <2>3. /\ holders[i] = 1 /\ i \notin Values(freeIndices)
        BY <2>1, <2>2 DEF Complement
    <2>4. /\ Len(freeIndices') = Len(freeIndices) + 1
          /\ Values(freeIndices') = Values(freeIndices) \cup {i}
          /\ Distinct(freeIndices')
        BY <2>1, <2>2, <2>3, PutBackAdds DEF Complement
    <2>5. holders'[i] = 0 /\ \A j \in Indices \ {i} : holders'[j] = holders[j]
        BY <1>4, <2>3 DEF Free, TypeOK
    <2>6. Live' = Live \ {i}
        BY <2>5 DEF Live
    <2>7. Cardinality(Live') = Cardinality(Live) - 1
        BY <2>1, <2>6, LiveIsFinite, FS_RemoveElement
    <2>8. Values(freeIndices') = (0..(nextNewIndex' - 1)) \ Live'
        <3>1. i \in 0..(nextNewIndex - 1)
            BY <1>1, <2>1
        <3> QED BY <2>1, <2>2, <2>4, <2>6, <3>1 DEF Complement
    <2>9. \A j \in Live' : holders'[j] = 1 /\ j < nextNewIndex'
        BY <2>1, <2>2, <2>5, <2>6 DEF Complement, Live
    <2>10. NumLive' = Cardinality(Live')
        BY <1>1, <2>1, <2>2, <2>4, <2>7 DEF Complement, NumLive
    <2> QED BY <2>4, <2>8, <2>9, <2>10 DEF Complement
<1>5. CASE Clear
    <2>1. freeIndices' = <<>> /\ nextNewIndex' = 0 /\ holders' = [i \in Indices |-> 0]
        BY <1>5 DEF Clear
    <2>2. Live' = {}
        BY <2>1 DEF Live
    <2>3. Cardinality(Live') = 0
        BY <2>2, FS_EmptySet
    <2>4. Len(freeIndices') = 0
        BY <2>1
    <2>5. Values(freeIndices') = {} /\ Distinct(freeIndices')
        BY <2>1 DEF Values, Distinct
    <2> QED BY <2>1, <2>2, <2>3, <2>4, <2>5 DEF Complement, NumLive
<1>6. CASE UNCHANGED <<freeIndices, nextNewIndex, holders, abused>>
    BY <1>6 DEF Complement, NumLive, Live, Values, Distinct
<1>7. AllocateFails \/ UNCHANGED vars => UNCHANGED <<freeIndices, nextNewIndex, holders, abused>>
    BY DEF AllocateFails, vars, list
<1>8. \A i \in Indices : ~DoubleFree(i)
    BY DEF DoubleFree
<1> QED BY <1>2, <1>3, <1>4, <1>5, <1>6, <1>7, <1>8 DEF Next, FreeUnknown

LEMMA ComplementInit == Init => Complement
<1>1. SUFFICES ASSUME Init PROVE Complement
    OBVIOUS
<1> USE AllocatorAssumption
<1>2. Live = 0..(Preallocated - 1)
    BY <1>1 DEF Init, Live, Indices
<1>3. Cardinality(Live) = Preallocated
    BY <1>2, FS_Interval
<1>4. \A i \in Live : holders[i] = 1 /\ i < nextNewIndex
    BY <1>1, <1>2 DEF Init, Indices
<1>5. Values(freeIndices) = {} /\ Distinct(freeIndices) /\ Len(freeIndices) = 0
    BY <1>1 DEF Init, Values, Distinct
<1> QED BY <1>1, <1>2, <1>3, <1>4, <1>5 DEF Complement, NumLive, Init

LEMMA ComplementHolds == Spec => [](TypeOK /\ (abused \/ Complement))
<1>1. Init => abused \/ Complement
    BY ComplementInit
<1>2. TypeOK /\ (abused \/ Complement) /\ [Next]_vars => (abused \/ Complement)'
    BY ComplementStep
<1> QED BY <1>1, <1>2, TypeCorrect, PTL DEF Spec

\* While no client has freed twice, the list and the clients share out the opened
\* indices, each of which is in one place, once.
THEOREM ComplementCorrect == Spec => []FreeListIsComplement
<1>1. (abused \/ Complement) => FreeListIsComplement
    BY ComplementMeans
<1> QED BY <1>1, ComplementHolds, PTL

-----------------------------------------------------------------------------
(***************************************************************************)
(* The allocator implements the pool                                       *)
(***************************************************************************)

\* Every step of the allocator is a step of the pool, until a client frees twice
\* and from the next clear() on.
LEMMA PoolStep ==
    ASSUME TypeOK, abused \/ Complement, [Next]_vars
    PROVE  [abused' \/ Pool!Next]_(Pool!vars)
<1> USE AllocatorAssumption
<1> SUFFICES ASSUME ~abused'
              PROVE  Pool!Next \/ UNCHANGED Pool!vars
    OBVIOUS
<1>2. nextNewIndex \in Nat /\ nextNewIndex <= Max
    BY DEF TypeOK
<1>3. CASE AllocateNew
    <2>1. /\ freeIndices = <<>> /\ nextNewIndex < Max /\ nextNewIndex \in Indices
          /\ nextNewIndex' = nextNewIndex + 1 /\ HandOut(nextNewIndex) /\ ~abused
        BY <1>2, <1>3 DEF AllocateNew, NothingFreed, Full, Indices
    <2>2. Values(freeIndices) = {} /\ Complement
        BY <2>1 DEF Values
    <2>3. Pool!Idle = {}
        BY <2>2 DEF Complement, Pool!Idle
    <2>4. nextNewIndex \notin Live
        BY <1>2, <2>2 DEF Complement
    <2>5. Live' = Live \cup {nextNewIndex} /\ returned' = nextNewIndex
        BY <2>1, <2>4, HandOutGrowsLive DEF HandOut
    <2> QED BY <2>1, <2>3, <2>5 DEF Pool!Next, Pool!Open
<1>4. CASE AllocateFails
    <2>1. /\ freeIndices = <<>> /\ nextNewIndex = Max /\ ~abused
          /\ returned' = INVALID_INDEX /\ holders' = holders /\ nextNewIndex' = nextNewIndex
        BY <1>2, <1>4 DEF AllocateFails, NothingFreed, Full
    <2>2. Values(freeIndices) = {} /\ Complement
        BY <2>1 DEF Values
    <2>3. Live \in SUBSET (0..(Max - 1)) /\ Live' = Live
        BY <2>1 DEF Live, Indices
    <2>4. Live = 0..(Max - 1)
        BY <2>1, <2>2, <2>3 DEF Complement
    <2> QED BY <2>1, <2>3, <2>4 DEF Pool!Next, Pool!Exhausted
<1>5. CASE AllocateRecycled
    <2>1. nextNewIndex' = nextNewIndex /\ Complement
        BY <1>5 DEF AllocateRecycled
    <2>2. PICK i \in Values(freeIndices) : HandOut(i)
        BY <1>5, RecyclingTakesOne
    <2>3. i \in Indices /\ i \in (0..(nextNewIndex - 1)) \ Live
        BY <2>1, <2>2, ValuesAreIndices DEF Complement, TypeOK
    <2>4. Live' = Live \cup {i} /\ returned' = i
        BY <2>2, <2>3, HandOutGrowsLive DEF HandOut
    <2> QED BY <2>1, <2>3, <2>4 DEF Pool!Next, Pool!Reuse, Pool!Idle, Indices
<1>6. ASSUME NEW i \in Indices, Free(i) PROVE Pool!Next
    <2>1. /\ nextNewIndex' = nextNewIndex /\ returned' = returned
          /\ i \in Live /\ Complement
        BY <1>6 DEF Free, PutBack, Live
    <2>2. holders'[i] = 0 /\ \A j \in Indices \ {i} : holders'[j] = holders[j]
        BY <1>6, <2>1 DEF Free, TypeOK, Complement
    <2>3. Live' = Live \ {i}
        BY <2>2 DEF Live
    <2> QED BY <1>6, <2>1, <2>3 DEF Pool!Next, Pool!Release, Indices
<1>7. CASE Clear
    <2>1. nextNewIndex' = 0 /\ returned' = returned /\ holders' = [i \in Indices |-> 0]
        BY <1>7 DEF Clear
    <2>2. Live' = {}
        BY <2>1 DEF Live
    <2> QED BY <2>1, <2>2 DEF Pool!Next, Pool!Clear
<1>8. CASE UNCHANGED vars
    BY <1>8 DEF vars, Live, Pool!vars
<1>9. \A i \in Indices : ~DoubleFree(i)
    BY DEF DoubleFree
<1> QED BY <1>3, <1>4, <1>5, <1>6, <1>7, <1>8, <1>9 DEF Next, FreeUnknown

LEMMA PoolInit == Init => Pool!Init
<1>1. SUFFICES ASSUME Init PROVE Pool!Init
    OBVIOUS
<1>2. Live = 0..(Preallocated - 1)
    BY <1>1, AllocatorAssumption DEF Init, Live, Indices
<1> QED BY <1>1, <1>2 DEF Init, Pool!Init

\* A client that frees only what it holds cannot tell the vector of free indices
\* from a set: allocate() hands out what nobody holds, opens a new index only when
\* no opened one is idle, and fails only when all Max are held.
THEOREM Refinement == Spec => ImplementsIndexPool
<1>1. TypeOK /\ (abused \/ Complement) /\ [Next]_vars => [abused' \/ Pool!Next]_(Pool!vars)
    BY PoolStep
<1> QED BY <1>1, PoolInit, ComplementHolds, PTL DEF Spec, ImplementsIndexPool
=============================================================================
