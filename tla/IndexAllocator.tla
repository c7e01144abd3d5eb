---------------------------- MODULE IndexAllocator ----------------------------
(***************************************************************************)
(* IndexAllocator<Index_t> of src/util/IndexAllocator.h: indices below a   *)
(* maximum are handed out, freed and recycled through a vector of free     *)
(* indices that is sorted on demand, the lowest index at its back.         *)
(*                                                                         *)
(* The class has no lock; each of its methods is one action.               *)
(***************************************************************************)
EXTENDS Integers, Sequences, FiniteSets

CONSTANTS
    Max,              \* _maxNumElements
    Preallocated,     \* preallocated_num_elements
    MaxFree           \* bound of the model: length of the list of free indices

ASSUME AllocatorAssumption ==
    /\ Max \in Nat
    /\ Preallocated \in 0..Max
    /\ MaxFree \in Nat

INVALID_INDEX == -1
Indices == 0..(Max - 1)

VARIABLES
    freeIndices,  \* _freeIndices, its back at the end
    nextNewIndex,
    sorted,       \* _freeIndicesAreSorted
    returned,     \* what allocate() returned last
    holders,      \* history: how many clients hold each index
    abused        \* history: since clear() a client has freed what was free

list == <<freeIndices, sorted>>
vars == <<list, nextNewIndex, returned, holders, abused>>

Live == {i \in Indices : holders[i] > 0}

Init ==
    /\ freeIndices = <<>> /\ sorted = TRUE
    /\ nextNewIndex = Preallocated
    /\ returned = INVALID_INDEX
    /\ holders = [i \in Indices |-> IF i < Preallocated THEN 1 ELSE 0]
    /\ abused = FALSE

\* check() and getNumLive()
Check(i) == i >= 0 /\ i < nextNewIndex
NumLive == nextNewIndex - Len(freeIndices)

-----------------------------------------------------------------------------
(***************************************************************************)
(* allocate()                                                              *)
(***************************************************************************)

HandOut(i) ==
    /\ returned' = i
    /\ holders' = [holders EXCEPT ![i] = @ + 1]

\* The maximum is reached; the slip is off by one.
FullLate == nextNewIndex > Max
Full == nextNewIndex >= Max

\* Whether freed indices are left; the slip looks at one entry too many.
NothingFreedButOne == Len(freeIndices) <= 1
NothingFreed == freeIndices = <<>>

AllocateNew ==
    /\ NothingFreed /\ ~Full
    /\ nextNewIndex' = nextNewIndex + 1
    /\ HandOut(nextNewIndex)
    /\ UNCHANGED <<list, abused>>

AllocateFails ==
    /\ NothingFreed /\ Full
    /\ returned' = INVALID_INDEX
    /\ UNCHANGED <<list, nextNewIndex, holders, abused>>

\* std::sort(..., std::greater): where entry i of s goes when they are arranged
\* from high to low.
Place(s, i) ==
    Cardinality({j \in 1..Len(s) : s[j] > s[i] \/ (s[j] = s[i] /\ j <= i)})
Sort(s) == [k \in 1..Len(s) |-> s[CHOOSE i \in 1..Len(s) : Place(s, i) = k]]

Arranged == IF sorted THEN freeIndices ELSE Sort(freeIndices)

\* s without the copies of i at its back: an entry stays if it, or one behind it,
\* is another index.  Slips: none is popped; whatever is next to it is popped too.
NothingPopped(s, i) == s
TwoPopped(s, i) == SubSeq(s, 1, Len(s) - 2)
Staying(s, i) == {k \in 1..Len(s) : \E j \in k..Len(s) : s[j] # i}
WithoutBack(s, i) == SubSeq(s, 1, Cardinality(Staying(s, i)))

AllocateRecycled ==
    /\ ~NothingFreed
    /\ LET i == Arranged[Len(freeIndices)]
       IN  /\ freeIndices' = WithoutBack(Arranged, i)
           /\ HandOut(i)
    /\ sorted' = TRUE
    /\ UNCHANGED <<nextNewIndex, abused>>

-----------------------------------------------------------------------------
(***************************************************************************)
(* free() and clear()                                                      *)
(***************************************************************************)

\* The test of free() as it stands in the code.
SortedAfter(i) ==
    sorted /\ ~(freeIndices # <<>> /\ i < freeIndices[Len(freeIndices)])

PutBack(i) ==
    /\ Check(i) /\ Len(freeIndices) < MaxFree
    /\ freeIndices' = Append(freeIndices, i)
    /\ sorted' = SortedAfter(i)
    /\ UNCHANGED <<nextNewIndex, returned>>

\* A client frees an index that it holds, or one that is free.
Free(i) ==
    /\ holders[i] > 0
    /\ PutBack(i)
    /\ holders' = [holders EXCEPT ![i] = @ - 1]
    /\ UNCHANGED abused

DoubleFree(i) ==
    /\ holders[i] = 0
    /\ PutBack(i)
    /\ abused' = TRUE
    /\ UNCHANGED holders

\* An index that was never handed out is ignored.
FreeUnknown(i) == ~Check(i) /\ UNCHANGED vars

Clear ==
    /\ freeIndices' = <<>>
    /\ nextNewIndex' = 0
    /\ holders' = [i \in Indices |-> 0]
    /\ abused' = FALSE
    /\ UNCHANGED <<sorted, returned>>

-----------------------------------------------------------------------------
Next ==
    \/ AllocateNew \/ AllocateFails \/ AllocateRecycled
    \/ \E i \in Indices : Free(i) \/ DoubleFree(i)
    \/ \E i \in INVALID_INDEX..Max : FreeUnknown(i)
    \/ Clear

Spec == Init /\ [][Next]_vars
-----------------------------------------------------------------------------
TypeOK ==
    /\ freeIndices \in Seq(Indices)
    /\ nextNewIndex \in 0..Max
    /\ sorted \in BOOLEAN
    /\ returned \in Indices \cup {INVALID_INDEX}
    /\ holders \in [Indices -> Nat]
    /\ abused \in BOOLEAN

Recycled == {freeIndices[k] : k \in 1..Len(freeIndices)}

\* While no client has freed twice, the free list and the clients share out the
\* opened indices: each one is held by one client or is in the list once, the
\* list holds nothing else, and getNumLive() counts what is held.
FreeListIsComplement ==
    ~abused =>
        /\ Recycled = (0..(nextNewIndex - 1)) \ Live
        /\ \A i \in Live : holders[i] = 1 /\ i < nextNewIndex
        /\ \A j, k \in 1..Len(freeIndices) : freeIndices[j] = freeIndices[k] => j = k
        /\ NumLive = Cardinality(Live)

\* Even clients that free twice never make the allocator lose an index, nor make
\* getNumLive() count more than are held (it counts duplicates as free).
NoIndexIsLost ==
    /\ \A i \in 0..(nextNewIndex - 1) : holders[i] = 0 => i \in Recycled
    /\ NumLive <= Cardinality(Live)

\* "double-free is allowed, we push_back and deal with dupes later": no index is
\* handed to a second client while the first still holds it.
NoDoubleAllocation == \A i \in Indices : holders[i] <= 1

\* Until a client frees twice the allocator implements the pool: allocate()
\* prefers a freed index to a new one and fails only when all are held.
Pool == INSTANCE IndexPool WITH live <- Live, opened <- nextNewIndex

ImplementsIndexPool == Pool!Init /\ [][abused' \/ Pool!Next]_(Pool!vars)
=============================================================================
