-------------------------- MODULE HeapClient_proofs --------------------------
(***************************************************************************)
(* Theorems about the guest heap for every size of the address space, any  *)
(* number of allocations, and any sizes of blocks.                         *)
(***************************************************************************)
EXTENDS HeapClient, SequenceTheorems, FiniteSetTheorems, TLAPS

-----------------------------------------------------------------------------
(* A vector after its last element was removed.                            *)
LEMMA AllButLast ==
    ASSUME NEW S, NEW s \in Seq(S), s # << >>
    PROVE  /\ Front(s) \in Seq(S) /\ Len(Front(s)) = Len(s) - 1
           /\ DOMAIN Front(s) \subseteq DOMAIN s
           /\ \A i \in DOMAIN Front(s) : Front(s)[i] = s[i]
<1>1. Len(s) \in Nat \ {0}
  BY EmptySeq
<1>2. /\ SubSeq(s, 1, Len(s) - 1) \in Seq(S)
      /\ Len(SubSeq(s, 1, Len(s) - 1)) = Len(s) - 1
      /\ \A i \in 1 .. Len(s) - 1 : SubSeq(s, 1, Len(s) - 1)[i] = s[i]
  <2>1. \A i \in 1 .. Len(s) - 1 : s[i] \in S
    BY <1>1, ElementOfSeq
  <2> DEFINE n == Len(s) - 1
  <2>2. n \in Int
    BY <1>1
  <2>3. /\ SubSeq(s, 1, n) \in Seq(S)
        /\ Len(SubSeq(s, 1, n)) = IF 1 <= n THEN n - 1 + 1 ELSE 0
        /\ \A i \in 1 .. n - 1 + 1 : SubSeq(s, 1, n)[i] = s[1 + i - 1]
    <3> HIDE DEF n
    <3> QED
      BY <2>1, <2>2, SubSeqProperties DEF n
  <2>4. Len(SubSeq(s, 1, n)) = n
    <3>1. n \in Nat
      BY <1>1
    <3> HIDE DEF n
    <3>2. n - 1 + 1 = n /\ (~(1 <= n) => n = 0)
      BY <3>1
    <3>3. CASE 1 <= n
      BY <2>3, <3>2, <3>3
    <3>4. CASE ~(1 <= n)
      BY <2>3, <3>2, <3>4
    <3> QED
      BY <3>3, <3>4
  <2>5. ASSUME NEW i \in 1 .. n
        PROVE  SubSeq(s, 1, n)[i] = s[i]
    <3>1. i \in 1 .. n - 1 + 1 /\ 1 + i - 1 = i
      BY <1>1
    <3>2. SubSeq(s, 1, n)[i] = s[1 + i - 1]
      BY <2>3, <3>1
    <3> QED
      BY <3>1, <3>2
  <2> QED
    BY <2>3, <2>4, <2>5
<1> QED
  BY <1>1, <1>2 DEF Front

-----------------------------------------------------------------------------
(* Unsigned arithmetic.                                                    *)
LEMMA Wrapped ==
    ASSUME NEW a \in Nat
    PROVE  a % AddressSpace \in Address /\ (a < AddressSpace => a % AddressSpace = a)
BY AddressSpaceAssumption DEF Address

LEMMA Sizes ==
    ASSUME NEW size \in Nat
    PROVE  Length(size) \in Address /\ Capacity(size) \in Address
<1>1. Length(size) \in Address
  BY Wrapped DEF Length
<1>2. (Length(size) + 7) % AddressSpace \in Address
  BY <1>1, Wrapped DEF Address
<1> QED
  BY <1>1, <1>2, AddressSpaceAssumption DEF Capacity, Address

LEMMA SizesWithRoom ==
    ASSUME NEW size \in Nat, HasRoom(size)
    PROVE  /\ Length(size) = 4 * size
           /\ Capacity(size) >= 4 * size
           /\ Capacity(size) % 8 = 0
<1>1. Length(size) = 4 * size
  <2>1. size * 4 \in Nat /\ size * 4 < AddressSpace
    BY AddressSpaceAssumption DEF HasRoom, IntBytes
  <2> QED
    BY <2>1, Wrapped DEF Length
<1>2. (Length(size) + 7) % AddressSpace = 4 * size + 7
  BY <1>1, Wrapped DEF HasRoom, IntBytes
<1> QED
  BY <1>1, <1>2 DEF Capacity

-----------------------------------------------------------------------------
(* The n-th of a set of positions is one of them, and no other is.         *)
LEMMA FinitePositions ==
    ASSUME NEW n \in Nat, NEW P \in SUBSET (1 .. n)
    PROVE  IsFiniteSet(P) /\ Cardinality(P) \in Nat
<1>1. IsFiniteSet(1 .. n)
  BY FS_Interval
<1>2. IsFiniteSet(P)
  BY <1>1, FS_Subset
<1> QED
  BY <1>2, FS_CardinalityType

LEMMA RankIsInjective ==
    ASSUME NEW n \in Nat, NEW P \in SUBSET (1 .. n), NEW i \in P
    PROVE  /\ Rank(P, i) \in 1 .. Cardinality(P)
           /\ \A j \in P : Rank(P, j) = Rank(P, i) => j = i
<1> DEFINE Upto(j) == {k \in P : k <= j}
<1>1. IsFiniteSet(P) /\ Cardinality(P) \in Nat
  BY FinitePositions
<1>2. ASSUME NEW j \in P
      PROVE  IsFiniteSet(Upto(j)) /\ Cardinality(Upto(j)) \in Nat
             /\ Cardinality(Upto(j)) <= Cardinality(P)
  BY <1>1, FS_Subset, FS_CardinalityType
<1>3. Cardinality(Upto(i)) # 0
  <2>1. i \in Upto(i)
    OBVIOUS
  <2> QED
    BY <2>1, <1>2, FS_EmptySet
<1>4. ASSUME NEW j \in P, NEW k \in P, j < k
      PROVE  Cardinality(Upto(j)) # Cardinality(Upto(k))
  <2>1. k \in Upto(k) /\ k \notin Upto(j)
    BY <1>4
  <2>2. Upto(j) \in SUBSET Upto(k)
    <3>1. \A m \in 1 .. n : m <= j => m <= k
      BY <1>4
    <3> QED
      BY <3>1
  <2> QED
    BY <2>1, <2>2, <1>2, FS_Subset
<1>5. ASSUME NEW j \in P, Rank(P, j) = Rank(P, i)
      PROVE  j = i
  BY <1>4, <1>5 DEF Rank
<1> QED
  BY <1>1, <1>2, <1>3, <1>5 DEF Rank

LEMMA NthOfRank ==
    ASSUME NEW n \in Nat, NEW P \in SUBSET (1 .. n)
    PROVE  /\ \A m \in 1 .. Cardinality(P) : Nth(P, m) \in P /\ Rank(P, Nth(P, m)) = m
           /\ \A i \in P : Nth(P, Rank(P, i)) = i
<1> DEFINE rank == [i \in P |-> Rank(P, i)]
           card == Cardinality(P)
<1>1. IsFiniteSet(P) /\ card \in Nat
  BY FinitePositions
<1>2. rank \in Injection(P, 1 .. card)
  BY RankIsInjective DEF Injection, IsInjective
<1>3. IsFiniteSet(1 .. card) /\ Cardinality(1 .. card) = card
  BY <1>1, FS_Interval
<1>4. rank \in Surjection(P, 1 .. card)
  BY <1>1, <1>2, <1>3, FS_Injection
<1>5. \A m \in 1 .. card : \E i \in P : Rank(P, i) = m
  BY <1>4 DEF Surjection
<1> QED
  BY <1>5, RankIsInjective DEF Nth

-----------------------------------------------------------------------------
(* What remove_if keeps, and what erase leaves, is taken from the vector.  *)
LEMMA KeptFromSlots ==
    ASSUME HeapTypeOK, NEW addr
    PROVE  /\ KeptSlots(addr) \subseteq 1 .. Len(chunks)
           /\ IsFiniteSet(KeptSlots(addr)) /\ Cardinality(KeptSlots(addr)) \in Nat
           /\ Len(Kept(addr)) = Cardinality(KeptSlots(addr))
           /\ \A n \in DOMAIN Kept(addr) :
                 \E i \in KeptSlots(addr) : Kept(addr)[n] = chunks[i]
<1>1. Len(chunks) \in Nat /\ DOMAIN chunks = 1 .. Len(chunks)
  BY DEF HeapTypeOK
<1>2. KeptSlots(addr) \in SUBSET (1 .. Len(chunks))
  BY <1>1 DEF KeptSlots
<1>3. IsFiniteSet(KeptSlots(addr)) /\ Cardinality(KeptSlots(addr)) \in Nat
  BY <1>1, <1>2, FinitePositions
<1>4. \A n \in 1 .. Cardinality(KeptSlots(addr)) : Nth(KeptSlots(addr), n) \in KeptSlots(addr)
  BY <1>1, <1>2, NthOfRank
<1>5. Kept(addr) \in Seq(Range(chunks)) /\ Len(Kept(addr)) = Cardinality(KeptSlots(addr))
  BY <1>1, <1>2, <1>3, <1>4 DEF Kept, Range
<1> QED
  BY <1>2, <1>3, <1>4, <1>5 DEF Kept

LEMMA ErasedFromSlots ==
    ASSUME HeapTypeOK, NEW addr, BeginsAt(addr) # {}
    PROVE  /\ AfterErase(addr) \in Seq(1 .. allocated \cup {Null})
           /\ Len(AfterErase(addr)) = Len(chunks) - 1
           /\ \A i \in DOMAIN AfterErase(addr) :
                 \/ AfterErase(addr)[i] = Null
                 \/ \E j \in KeptSlots(addr) : AfterErase(addr)[i] = chunks[j]
<1>1. Len(chunks) \in Nat \ {0} /\ DOMAIN chunks = 1 .. Len(chunks)
  BY DEF HeapTypeOK, BeginsAt
<1>2. \A i \in 1 .. Len(chunks) - 1 :
         \/ AfterErase(addr)[i] = Null
         \/ \E j \in KeptSlots(addr) : AfterErase(addr)[i] = chunks[j]
  <2> SUFFICES ASSUME NEW i \in 1 .. Len(chunks) - 1
               PROVE  \/ AfterErase(addr)[i] = Null
                      \/ \E j \in KeptSlots(addr) : AfterErase(addr)[i] = chunks[j]
    OBVIOUS
  <2>1. CASE i <= Len(Kept(addr))
    <3>1. AfterErase(addr)[i] = Kept(addr)[i]
      BY <1>1, <2>1 DEF AfterErase
    <3>2. i \in DOMAIN Kept(addr)
      BY <1>1, <2>1, KeptFromSlots DEF Kept
    <3> QED
      BY <3>1, <3>2, KeptFromSlots
  <2>2. CASE ~(i <= Len(Kept(addr)))
    <3>1. AfterErase(addr)[i] = IF i + 1 \in BeginsAt(addr) THEN Null ELSE chunks[i + 1]
      BY <1>1, <2>2 DEF AfterErase
    <3>2. i + 1 \in DOMAIN chunks
      BY <1>1
    <3> QED
      BY <3>1, <3>2 DEF KeptSlots
  <2> QED
    BY <2>1, <2>2
<1>3. \A j \in KeptSlots(addr) : chunks[j] \in 1 .. allocated \cup {Null}
  BY KeptFromSlots, ElementOfSeq DEF HeapTypeOK
<1>4. /\ DOMAIN AfterErase(addr) = 1 .. Len(chunks) - 1
      /\ AfterErase(addr) = [i \in 1 .. Len(chunks) - 1 |-> AfterErase(addr)[i]]
  BY DEF AfterErase
<1>5. \A i \in 1 .. Len(chunks) - 1 : AfterErase(addr)[i] \in 1 .. allocated \cup {Null}
  BY <1>2, <1>3
<1> DEFINE n == Len(chunks) - 1
<1>6. n \in Nat
  BY <1>1
<1>7. AfterErase(addr) \in [1 .. n -> 1 .. allocated \cup {Null}]
  BY <1>4, <1>5
<1>8. AfterErase(addr) \in Seq(1 .. allocated \cup {Null}) /\ Len(AfterErase(addr)) = n
  BY <1>6, <1>7
<1> QED
  BY <1>2, <1>4, <1>8

-----------------------------------------------------------------------------
(* Types, one lemma for each call of the heap.                             *)
LEMMA NewChunkIsChunk ==
    ASSUME HeapTypeOK, NEW size \in Nat
    PROVE  IsChunk(NewChunk(size))
BY Sizes DEF HeapTypeOK, IsChunk, NewChunk, Word

LEMMA WrittenIsChunk ==
    ASSUME NEW chunk, IsChunk(chunk), NEW offset \in Int, NEW val \in Value
    PROVE  IsChunk(WriteWord(chunk, offset, val))
<1> DEFINE w == offset \div IntBytes
           aligned == [chunk EXCEPT !.pointer[w] = val]
           both == [chunk EXCEPT !.pointer[w] = Indeterminate,
                                 !.pointer[w + 1] = Indeterminate]
<1>1. IsChunk(aligned)
  BY DEF IsChunk, Word
<1>2. IsChunk(both)
  BY DEF IsChunk, Word
<1> QED
  BY <1>1, <1>2 DEF WriteWord

LEMMA AllocateTypes ==
    ASSUME HeapTypeOK, NEW size \in Nat, Allocate(size)
    PROVE  HeapTypeOK'
<1>1. addressAccumulator' \in Address
  <2>1. addressAccumulator + Capacity(size) \in Nat
    <3>1. addressAccumulator \in Nat
      BY AddressSpaceAssumption DEF HeapTypeOK, Address
    <3>2. Capacity(size) \in Nat
      BY Sizes, AddressSpaceAssumption DEF Address
    <3> QED
      BY <3>1, <3>2
  <2> QED
    BY <2>1, Wrapped DEF Allocate
<1>2. allocated' \in 0 .. MaxAllocation /\ allocated \in 1 .. allocated' \cup {0}
  BY MaxAllocationAssumption DEF HeapTypeOK, Allocate
<1>3. DOMAIN object' \subseteq 1 .. allocated'
  BY <1>2 DEF HeapTypeOK, Allocate
<1>4. \A id \in DOMAIN object' : IsChunk(object'[id])
  BY NewChunkIsChunk DEF HeapTypeOK, Allocate
<1>5. chunks' \in Seq(1 .. allocated' \cup {Null})
  <2>1. chunks \in Seq(1 .. allocated' \cup {Null})
    BY <1>2 DEF HeapTypeOK, Allocate
  <2> QED
    BY <1>2, <2>1 DEF Allocate
<1>6. status' \in {"running", "closed", "aborted", "undefined"}
  BY DEF HeapTypeOK, Allocate
<1> QED
  BY <1>1, <1>2, <1>3, <1>4, <1>5, <1>6 DEF HeapTypeOK, IsChunk, Word, Address

LEMMA StopTypes ==
    ASSUME HeapTypeOK, NEW how \in {"aborted", "undefined"}, Stop(how)
    PROVE  HeapTypeOK'
BY DEF HeapTypeOK, Stop, IsChunk, Word, Address

LEMMA ReleaseTypes ==
    ASSUME HeapTypeOK, NEW addr, ReleaseCall(addr)
    PROVE  HeapTypeOK'
<1>1. CASE Release(addr)
  <2>1. chunks' \in Seq(1 .. allocated' \cup {Null})
    BY <1>1, ErasedFromSlots DEF Release
  <2>2. DOMAIN object' \subseteq DOMAIN object /\ \A id \in DOMAIN object' : object'[id] = object[id]
    BY <1>1 DEF Release
  <2> QED
    BY <1>1, <2>1, <2>2 DEF Release, HeapTypeOK, IsChunk, Word, Address
<1>2. CASE ReleaseNothing(addr) /\ ~Stop("undefined")
  <2>1. chunks' \in Seq(1 .. allocated' \cup {Null})
    BY <1>2, AllButLast DEF ReleaseNothing, HeapTypeOK
  <2> QED
    BY <1>2, <2>1 DEF ReleaseNothing, HeapTypeOK, IsChunk, Word, Address
<1>3. CASE Stop("undefined")
  BY <1>3, StopTypes
<1> QED
  BY <1>1, <1>2, <1>3 DEF ReleaseCall, ReleaseCrashes

LEMMA AccessTypes ==
    ASSUME HeapTypeOK, NEW addr \in Nat, AccessCall(addr)
    PROVE  HeapTypeOK'
<1>1. CASE HeapGet(addr)
  BY <1>1 DEF HeapGet, HeapTypeOK, IsChunk, Word, Address
<1>2. ASSUME NEW val \in Value, HeapSet(addr, val)
      PROVE  HeapTypeOK'
  <2>1. PICK id \in DOMAIN object :
           object' = [object EXCEPT ![id] = WriteWord(object[id], Offset(id, addr), val)]
    BY <1>2 DEF HeapSet
  <2>2. Offset(id, addr) \in Int
    BY <2>1 DEF Offset, HeapTypeOK, IsChunk, Address
  <2>3. IsChunk(WriteWord(object[id], Offset(id, addr), val))
    BY <2>1, <2>2, WrittenIsChunk DEF HeapTypeOK
  <2>4. DOMAIN object' = DOMAIN object /\ \A d \in DOMAIN object' : IsChunk(object'[d])
    BY <2>1, <2>3 DEF HeapTypeOK
  <2> QED
    BY <1>2, <2>4 DEF HeapSet, HeapTypeOK, IsChunk, Word, Address
<1>3. CASE AccessFails(addr)
  BY <1>3, StopTypes DEF AccessFails
<1> QED
  BY <1>1, <1>2, <1>3 DEF AccessCall

LEMMA ExitTypes ==
    ASSUME HeapTypeOK, Exit
    PROVE  HeapTypeOK'
<1>1. CASE Close
  <2>1. DOMAIN object' \subseteq DOMAIN object /\ \A id \in DOMAIN object' : object'[id] = object[id]
    BY <1>1 DEF Close
  <2> QED
    BY <1>1, <2>1 DEF Close, HeapTypeOK, IsChunk, Word, Address
<1>2. CASE CloseCrashes
  BY <1>2, StopTypes DEF CloseCrashes
<1> QED
  BY <1>1, <1>2 DEF Exit
-----------------------------------------------------------------------------
LEMMA SizeIsNat == Size \subseteq Nat
BY SizeAssumption

LEMMA InitTypes == Init => TypeOK
<1> SUFFICES ASSUME Init
             PROVE  TypeOK
  OBVIOUS
<1> QED
  BY AddressSpaceAssumption, MaxAllocationAssumption
     DEF Init, HeapInit, TypeOK, HeapTypeOK, Address

LEMMA AnyStepTypes ==
    ASSUME TypeOK, [AnyNext]_vars
    PROVE  TypeOK'
<1>1. CASE Exit
  <2>1. HeapTypeOK'
    BY <1>1, ExitTypes DEF TypeOK
  <2> QED
    BY <1>1, <2>1 DEF Exit, TypeOK
<1>2. ASSUME NEW size \in Size, Allocate(size), UNCHANGED owned
      PROVE  TypeOK'
  <2>1. HeapTypeOK'
    BY <1>2, AllocateTypes, SizeIsNat DEF TypeOK
  <2>2. allocated \in Nat /\ allocated' = allocated + 1
    BY <1>2, MaxAllocationAssumption DEF Allocate, TypeOK, HeapTypeOK
  <2>3. 1 .. allocated \subseteq 1 .. allocated'
    BY <2>2
  <2> QED
    BY <1>2, <2>1, <2>3 DEF TypeOK, Address
<1>3. ASSUME NEW addr \in Address, ReleaseCall(addr), UNCHANGED owned
      PROVE  TypeOK'
  <2>1. HeapTypeOK'
    BY <1>3, ReleaseTypes DEF TypeOK
  <2>2. allocated' = allocated
    BY <1>3 DEF ReleaseCall, Release, ReleaseNothing, ReleaseCrashes, Stop
  <2> QED
    BY <1>3, <2>1, <2>2 DEF TypeOK, Address
<1>4. ASSUME NEW addr \in Address, AccessCall(addr), UNCHANGED owned
      PROVE  TypeOK'
  <2>0. addr \in Nat
    BY AddressSpaceAssumption DEF Address
  <2>1. HeapTypeOK'
    BY <1>4, <2>0, AccessTypes DEF TypeOK
  <2>2. allocated' = allocated
    BY <1>4 DEF AccessCall, HeapGet, HeapSet, AccessFails, Stop
  <2> QED
    BY <1>4, <2>1, <2>2 DEF TypeOK, Address
<1>5. CASE Fails /\ UNCHANGED owned
  <2>1. HeapTypeOK'
    BY <1>5, StopTypes DEF Fails, TypeOK
  <2>2. allocated' = allocated
    BY <1>5 DEF Fails, Stop
  <2> QED
    BY <1>5, <2>1, <2>2 DEF TypeOK, Address
<1>6. CASE UNCHANGED vars
  BY <1>6 DEF vars, TypeOK, HeapTypeOK, IsChunk, Word, Address
<1> QED
  BY <1>1, <1>2, <1>3, <1>4, <1>5, <1>6 DEF AnyNext, Ended

(* Whatever the program passes, addresses stay within the address space,   *)
(* the vector holds only numbers of chunks that were created, and every    *)
(* chunk has exactly the words its capacity pays for (the constructor of   *)
(* chunkMeta, Environment.h, lines 52-64).                                 *)
THEOREM TypeCorrect == AnySpec => []TypeOK
<1>1. Init => TypeOK
  BY InitTypes
<1>2. TypeOK /\ [AnyNext]_vars => TypeOK'
  BY AnyStepTypes
<1> QED
  BY <1>1, <1>2, PTL DEF AnySpec
-----------------------------------------------------------------------------
(* No slot dangles, one lemma for each call that changes the vector.       *)
LEMMA AllocateKeepsSlots ==
    ASSUME HeapTypeOK, NoDanglingSlot, NEW size \in Nat, Allocate(size)
    PROVE  NoDanglingSlot'
<1>1. chunks' = Append(chunks, allocated') /\ DOMAIN object' = DOMAIN object \cup {allocated'}
  BY DEF Allocate
<1>2. /\ DOMAIN chunks = 1 .. Len(chunks) /\ Len(chunks) \in Nat
      /\ DOMAIN chunks' = 1 .. Len(chunks) + 1
      /\ \A i \in DOMAIN chunks' : chunks'[i] = IF i = Len(chunks) + 1 THEN allocated' ELSE chunks[i]
  BY <1>1 DEF HeapTypeOK
<1>3. \A i \in DOMAIN chunks' : chunks'[i] # Null => chunks'[i] \in DOMAIN object'
  BY <1>1, <1>2 DEF NoDanglingSlot, ReachableChunks
<1> QED
  BY <1>3 DEF NoDanglingSlot, ReachableChunks

(* What is left of a slot that was not deleted is not deleted either: two  *)
(* slots of one chunk would have made the call dangle.                     *)
LEMMA ReleaseKeepsSlots ==
    ASSUME HeapTypeOK, NoDanglingSlot, NEW addr, ReleaseCall(addr)
    PROVE  NoDanglingSlot'
<1>1. CASE Release(addr)
  <2>1. DOMAIN object' = DOMAIN object \ {chunks[i] : i \in BeginsAt(addr)}
    BY <1>1 DEF Release
  <2>2. \A j \in KeptSlots(addr) : chunks[j] \in DOMAIN object'
    <3> SUFFICES ASSUME NEW j \in KeptSlots(addr)
                 PROVE  chunks[j] \in DOMAIN object'
      OBVIOUS
    <3>1. j \in DOMAIN chunks /\ j \notin BeginsAt(addr) /\ chunks[j] # Null
      BY <1>1 DEF KeptSlots, Release, ReleaseDangles
    <3>2. chunks[j] \in DOMAIN object
      BY <3>1 DEF NoDanglingSlot, ReachableChunks
    <3>3. ASSUME NEW i \in BeginsAt(addr)
          PROVE  chunks[i] # chunks[j]
      BY <3>1 DEF BeginsAt
    <3> QED
      BY <2>1, <3>2, <3>3
  <2>3. chunks' = AfterErase(addr) /\ BeginsAt(addr) # {}
    BY <1>1 DEF Release
  <2>4. \A i \in DOMAIN chunks' : chunks'[i] = Null \/ chunks'[i] \in DOMAIN object'
    BY <2>2, <2>3, ErasedFromSlots
  <2> QED
    BY <2>4 DEF NoDanglingSlot, ReachableChunks
<1>2. CASE chunks # << >> /\ chunks' = Front(chunks) /\ object' = object
  <2>1. \A i \in DOMAIN chunks' : i \in DOMAIN chunks /\ chunks'[i] = chunks[i]
    BY <1>2, AllButLast DEF HeapTypeOK
  <2> QED
    BY <1>2, <2>1 DEF NoDanglingSlot, ReachableChunks
<1>3. CASE Stop("undefined")
  BY <1>3 DEF Stop, NoDanglingSlot, ReachableChunks
<1> QED
  BY <1>1, <1>2, <1>3 DEF ReleaseCall, ReleaseNothing, ReleaseCrashes

LEMMA AnyStepKeepsSlots ==
    ASSUME TypeOK, NoDanglingSlot, [AnyNext]_vars
    PROVE  NoDanglingSlot'
<1>1. CASE Exit
  <2>1. CASE Close
    BY <2>1 DEF Close, NoDanglingSlot, ReachableChunks
  <2>2. CASE CloseCrashes
    BY <2>2 DEF CloseCrashes, Stop, NoDanglingSlot, ReachableChunks
  <2> QED
    BY <1>1, <2>1, <2>2 DEF Exit
<1>2. ASSUME NEW size \in Size, Allocate(size)
      PROVE  NoDanglingSlot'
  BY <1>2, AllocateKeepsSlots, SizeIsNat DEF TypeOK
<1>3. ASSUME NEW addr \in Address, ReleaseCall(addr)
      PROVE  NoDanglingSlot'
  BY <1>3, ReleaseKeepsSlots DEF TypeOK
<1>4. ASSUME NEW addr \in Address, AccessCall(addr)
      PROVE  NoDanglingSlot'
  <2>1. chunks' = chunks /\ DOMAIN object' = DOMAIN object
    BY <1>4 DEF AccessCall, HeapGet, HeapSet, AccessFails, Stop
  <2> QED
    BY <2>1 DEF NoDanglingSlot, ReachableChunks
<1>5. CASE Fails
  BY <1>5 DEF Fails, Stop, NoDanglingSlot, ReachableChunks
<1>6. CASE UNCHANGED vars
  BY <1>6 DEF vars, NoDanglingSlot, ReachableChunks
<1> QED
  BY <1>1, <1>2, <1>3, <1>4, <1>5, <1>6 DEF AnyNext, Ended

(* Whatever addresses the program passes to FREE, the vector never holds a *)
(* pointer to a chunk that release deleted, although its erase of a single *)
(* iterator leaves stale slots behind (Environment.h, lines 126-134).      *)
THEOREM SlotsNeverDangle == AnySpec => []NoDanglingSlot
<1>1. Init => NoDanglingSlot
  BY DEF Init, HeapInit, NoDanglingSlot, ReachableChunks
<1>2. TypeOK /\ NoDanglingSlot /\ [AnyNext]_vars => NoDanglingSlot'
  BY AnyStepKeepsSlots
<1> QED
  BY <1>1, <1>2, TypeCorrect, PTL DEF AnySpec

-----------------------------------------------------------------------------
(***************************************************************************)
(* A program that keeps the rules of C and allocates no empty block: the   *)
(* heap never stops it, forgets no chunk and is a memory of independent    *)
(* arrays.                                                                 *)
(***************************************************************************)
(* What the heap and the program agree on.                                 *)

(* Every chunk is in one slot, and every slot holds a chunk.               *)
OneSlotEach ==
    /\ \A i \in DOMAIN chunks : chunks[i] \in DOMAIN object
    /\ \A i, j \in DOMAIN chunks : chunks[i] = chunks[j] => i = j
    /\ \A id \in DOMAIN object : \E i \in DOMAIN chunks : chunks[i] = id

(* The chunks are the program's blocks, below the accumulator.             *)
ChunksAreBlocks ==
    /\ DOMAIN object = DOMAIN owned
    /\ \A b \in DOMAIN owned :
          /\ object[b].begin = owned[b].begin
          /\ object[b].length = IntBytes * owned[b].size
          /\ object[b].length <= object[b].capacity
          /\ object[b].begin + object[b].capacity <= addressAccumulator

(* Chunks lie in the order they were allocated in.                         *)
Apart ==
    \A b, c \in DOMAIN object : b < c => object[b].begin + object[b].capacity <= object[c].begin

EmptyWhenClosed == status = "closed" => DOMAIN object = {}

IInv == TypeOK /\ NeverFails /\ OneSlotEach /\ ChunksAreBlocks /\ Apart /\ EmptyWhenClosed

-----------------------------------------------------------------------------
(* Where the addresses of a block lead.                                    *)
LEMMA Extents ==
    ASSUME IInv, NEW b \in DOMAIN object
    PROVE  /\ b \in Nat
           /\ object[b].begin \in Nat /\ object[b].length \in Nat /\ object[b].capacity \in Nat
           /\ owned[b].size \in Nat
           /\ object[b].begin = owned[b].begin
           /\ object[b].length = 4 * owned[b].size
           /\ object[b].length <= object[b].capacity
           /\ object[b].begin + object[b].length < AddressSpace
           /\ (object[b].begin + object[b].length) % AddressSpace = object[b].begin + object[b].length
<1>1. IsChunk(object[b]) /\ b \in 1 .. allocated /\ allocated \in 0 .. MaxAllocation
  BY DEF IInv, TypeOK, HeapTypeOK
<1>2. /\ object[b].begin \in Nat /\ object[b].length \in Nat /\ object[b].capacity \in Nat
      /\ addressAccumulator \in Nat /\ addressAccumulator < AddressSpace
  BY <1>1, AddressSpaceAssumption DEF IsChunk, Address, IInv, TypeOK, HeapTypeOK
<1>3. owned[b].size \in Size
  BY DEF IInv, TypeOK, ChunksAreBlocks
<1>4. b \in Nat
  BY <1>1, MaxAllocationAssumption
<1>5. /\ object[b].begin = owned[b].begin
      /\ object[b].length = 4 * owned[b].size
      /\ object[b].length <= object[b].capacity
      /\ object[b].begin + object[b].capacity <= addressAccumulator
  BY DEF IInv, ChunksAreBlocks, IntBytes
<1>6. object[b].begin + object[b].length \in Nat /\ object[b].begin + object[b].length < AddressSpace
  BY <1>2, <1>5, AddressSpaceAssumption
<1> QED
  BY <1>2, <1>3, <1>4, <1>5, <1>6, Wrapped, SizeIsNat

LEMMA NoOverlap ==
    ASSUME IInv, NEW b \in DOMAIN object, NEW c \in DOMAIN object, b # c
    PROVE  \/ object[b].begin + object[b].capacity <= object[c].begin
           \/ object[c].begin + object[c].capacity <= object[b].begin
<1>1. b \in Nat /\ c \in Nat
  BY Extents
<1>2. b < c \/ c < b
  BY <1>1
<1> QED
  BY <1>2 DEF IInv, Apart

LEMMA NoSlotIsNull ==
    ASSUME HeapTypeOK, OneSlotEach
    PROVE  \A k \in DOMAIN chunks : chunks[k] \in DOMAIN object /\ chunks[k] # Null
<1>1. \A k \in DOMAIN chunks : chunks[k] \in DOMAIN object
  BY DEF OneSlotEach
<1>2. DOMAIN object \subseteq 1 .. allocated /\ allocated \in 0 .. MaxAllocation
  BY DEF HeapTypeOK
<1>3. 1 .. allocated \subseteq 1 .. MaxAllocation
  BY <1>2, MaxAllocationAssumption
<1> QED
  BY <1>1, <1>2, <1>3, NullAssumption

LEMMA WordFound ==
    ASSUME IInv, NEW b \in DOMAIN owned, NEW i \in 0 .. owned[b].size - 1
    PROVE  /\ b \in DOMAIN object
           /\ \A id : Found(WordAddress(b, i), id) <=> id = b
           /\ Offset(b, WordAddress(b, i)) = 4 * i
           /\ 4 * i + 4 <= object[b].capacity
<1> DEFINE addr == WordAddress(b, i)
<1>1. b \in DOMAIN object
  BY DEF IInv, ChunksAreBlocks
<1>2. i \in Nat /\ i + 1 <= owned[b].size
  BY <1>1, Extents
<1>3. addr = object[b].begin + 4 * i /\ addr \in Nat
  BY <1>1, <1>2, Extents DEF WordAddress, IntBytes
<1>4. 4 * i + 4 <= object[b].length /\ 4 * i + 4 <= object[b].capacity
  BY <1>1, <1>2, Extents
<1>5. Covers(b, addr)
  <2>1. object[b].begin <= addr /\ addr < object[b].begin + object[b].length
    BY <1>1, <1>2, <1>3, <1>4, Extents
  <2> QED
    BY <1>1, <2>1, Extents DEF Covers
<1>6. ASSUME NEW c \in DOMAIN object, Covers(c, addr)
      PROVE  c = b
  <2> SUFFICES ASSUME c # b
               PROVE  FALSE
    OBVIOUS
  <2>1. object[c].begin <= addr /\ addr < object[c].begin + object[c].length
    BY <1>6, Extents DEF Covers
  <2>2. CASE object[b].begin + object[b].capacity <= object[c].begin
    BY <1>1, <1>2, <1>3, <1>4, <2>1, <2>2, Extents
  <2>3. CASE object[c].begin + object[c].capacity <= object[b].begin
    BY <1>1, <1>2, <1>3, <2>1, <2>3, Extents
  <2> QED
    BY <1>1, <2>2, <2>3, NoOverlap
<1>7. \A k \in DOMAIN chunks : chunks[k] \in DOMAIN object /\ chunks[k] # Null
  BY NoSlotIsNull DEF IInv, TypeOK
<1>8. PICK k \in DOMAIN chunks : chunks[k] = b
  BY <1>1 DEF IInv, OneSlotEach
<1>9. StopsAt(addr) = {k}
  <2>1. \A j \in DOMAIN chunks : chunks[j] = b => j = k
    BY <1>8 DEF IInv, OneSlotEach
  <2> QED
    BY <1>5, <1>6, <1>7, <1>8, <2>1 DEF StopsAt
<1>10. k \in Nat
  BY DEF IInv, TypeOK, HeapTypeOK
<1>11. \A id : Found(addr, id) <=> id = b
  BY <1>8, <1>9, <1>10 DEF Found
<1>12. Offset(b, addr) = 4 * i
  BY <1>1, <1>2, <1>3, Extents DEF Offset
<1> QED
  BY <1>1, <1>4, <1>11, <1>12

(* The access goes to the block's own chunk and does not fail.             *)
LEMMA AccessSucceeds ==
    ASSUME IInv, NEW b \in DOMAIN owned, NEW i \in 0 .. owned[b].size - 1
    PROVE  /\ \A id \in DOMAIN object : Accesses(WordAddress(b, i), id) <=> id = b
           /\ ~AccessFails(WordAddress(b, i))
<1> DEFINE addr == WordAddress(b, i)
<1>1. i \in Nat /\ object[b].capacity \in Nat
  BY WordFound, Extents
<1>2. \A id \in DOMAIN object : Accesses(addr, id) <=> id = b
  BY <1>1, WordFound DEF Accesses, IntBytes
<1>3. ~AccessAborts(addr)
  <2>1. StopsAt(addr) # {}
    BY WordFound DEF Found
  <2> QED
    BY <1>1, <2>1, WordFound DEF AccessAborts
<1>4. ~AccessUndefined(addr)
  <2>1. ~Found(addr, Null)
    <3>1. Null # b
      BY NoSlotIsNull, WordFound DEF IInv, TypeOK, OneSlotEach
    <3> QED
      BY <3>1, WordFound
  <2>2. ASSUME NEW id \in DOMAIN object, Found(addr, id), Offset(id, addr) < object[id].capacity,
               object[id].capacity < Offset(id, addr) + IntBytes
        PROVE  FALSE
    <3>1. id = b
      BY <2>2, WordFound
    <3> QED
      BY <1>1, <2>2, <3>1, WordFound DEF IntBytes
  <2> QED
    BY <2>1, <2>2 DEF AccessUndefined
<1> QED
  BY <1>2, <1>3, <1>4 DEF AccessFails

(* With no empty block, no two chunks begin at one address.                *)
LEMMA OneBeginsThere ==
    ASSUME IInv, 0 \notin Size, NEW b \in DOMAIN owned,
           NEW k \in DOMAIN chunks, chunks[k] = b
    PROVE  BeginsAt(owned[b].begin) = {k}
<1>1. b \in DOMAIN object /\ DOMAIN object = DOMAIN owned
  BY DEF IInv, ChunksAreBlocks
<1>2. \A c \in DOMAIN object : owned[c].size # 0
  BY <1>1 DEF IInv, TypeOK
<1>3. ASSUME NEW c \in DOMAIN object, object[c].begin = object[b].begin, c # b
      PROVE  FALSE
  <2>1. object[c].capacity > 0 /\ object[b].capacity > 0
    BY <1>1, <1>2, Extents
  <2> QED
    BY <1>1, <1>3, <2>1, NoOverlap, Extents
<1>4. object[b].begin = owned[b].begin
  BY <1>1, Extents
<1>5. \A j \in DOMAIN chunks : chunks[j] = b => j = k
  BY DEF IInv, OneSlotEach
<1> QED
  BY <1>1, <1>3, <1>4, <1>5, NoSlotIsNull DEF BeginsAt, IInv, TypeOK

-----------------------------------------------------------------------------
(* What release does then: the slot goes, and the others stay.             *)
LEMMA ErasesOneSlot ==
    ASSUME HeapTypeOK, OneSlotEach, NEW addr, NEW k \in DOMAIN chunks, BeginsAt(addr) = {k}
    PROVE  /\ ~ReleaseDangles(addr)
           /\ \A n \in DOMAIN AfterErase(addr) :
                 \E i \in DOMAIN chunks \ {k} : AfterErase(addr)[n] = chunks[i]
           /\ \A i \in DOMAIN chunks \ {k} :
                 \E n \in DOMAIN AfterErase(addr) : AfterErase(addr)[n] = chunks[i]
           /\ \A m, n \in DOMAIN AfterErase(addr) : AfterErase(addr)[m] = AfterErase(addr)[n] => m = n
<1> DEFINE P == DOMAIN chunks \ {k}
           len == Len(chunks)
<1>1. len \in Nat /\ DOMAIN chunks = 1 .. len
  BY DEF HeapTypeOK
<1>2. KeptSlots(addr) = P /\ P \in SUBSET (1 .. len)
  BY <1>1 DEF KeptSlots
<1>3. Cardinality(P) = len - 1
  <2> HIDE DEF len
  <2>1. IsFiniteSet(1 .. len) /\ Cardinality(1 .. len) = len
    <3>1. IsFiniteSet(1 .. len) /\ Cardinality(1 .. len) = IF 1 > len THEN 0 ELSE len - 1 + 1
      BY <1>1, FS_Interval
    <3>2. CASE 1 > len
      BY <1>1, <3>1, <3>2
    <3>3. CASE ~(1 > len)
      BY <1>1, <3>1, <3>3
    <3> QED
      BY <3>2, <3>3
  <2>2. k \in 1 .. len
    BY <1>1
  <2>3. Cardinality((1 .. len) \ {k}) = Cardinality(1 .. len) - 1
    BY <2>1, <2>2, FS_RemoveElement
  <2> QED
    BY <1>1, <2>1, <2>3
<1>4. Len(Kept(addr)) = len - 1
  BY <1>2, <1>3, KeptFromSlots
<1>5. /\ DOMAIN AfterErase(addr) = 1 .. len - 1
      /\ \A n \in 1 .. len - 1 : AfterErase(addr)[n] = chunks[Nth(P, n)]
  BY <1>1, <1>2, <1>3, <1>4 DEF AfterErase, Kept
<1>6. /\ \A n \in 1 .. len - 1 : Nth(P, n) \in P /\ Rank(P, Nth(P, n)) = n
      /\ \A i \in P : Rank(P, i) \in 1 .. len - 1 /\ Nth(P, Rank(P, i)) = i
  BY <1>1, <1>2, <1>3, NthOfRank, RankIsInjective
<1>7. ~ReleaseDangles(addr)
  BY NoSlotIsNull DEF ReleaseDangles
<1>8. \A i, j \in DOMAIN chunks : chunks[i] = chunks[j] => i = j
  BY DEF OneSlotEach
<1>9. ASSUME NEW m \in 1 .. len - 1, NEW n \in 1 .. len - 1, AfterErase(addr)[m] = AfterErase(addr)[n]
      PROVE  m = n
  <2>1. Nth(P, m) = Nth(P, n)
    BY <1>5, <1>6, <1>8, <1>9
  <2> QED
    BY <1>6, <2>1
<1>10. ASSUME NEW i \in P
       PROVE  \E n \in 1 .. len - 1 : AfterErase(addr)[n] = chunks[i]
  BY <1>5, <1>6
<1> QED
  BY <1>5, <1>6, <1>7, <1>9, <1>10

-----------------------------------------------------------------------------
(* The invariant, one lemma for each call.                                 *)
LEMMA AllocateKeepsIt ==
    ASSUME IInv, NEW size \in Size, ProperAllocate(size)
    PROVE  IInv'
<1> DEFINE new == allocated'
<1>1. size \in Nat /\ HasRoom(size) /\ Allocate(size)
  BY SizeIsNat DEF ProperAllocate
<1>2. /\ allocated \in Nat /\ new = allocated + 1 /\ 1 .. allocated \subseteq 1 .. new
      /\ DOMAIN object \subseteq 1 .. allocated /\ new \notin DOMAIN object
  BY <1>1, MaxAllocationAssumption DEF Allocate, IInv, TypeOK, HeapTypeOK
<1>3. /\ DOMAIN object' = DOMAIN object \cup {new}
      /\ object'[new] = NewChunk(size)
      /\ \A id \in DOMAIN object : object'[id] = object[id]
  BY <1>1, <1>2 DEF Allocate
<1>4. /\ DOMAIN owned = DOMAIN object
      /\ DOMAIN owned' = DOMAIN owned \cup {new}
      /\ owned'[new] = [begin |-> addressAccumulator, size |-> size]
      /\ \A b \in DOMAIN owned : owned'[b] = owned[b]
  BY <1>2 DEF ProperAllocate, IInv, ChunksAreBlocks
<1>5. /\ addressAccumulator \in Nat /\ addressAccumulator' = addressAccumulator + Capacity(size)
      /\ Capacity(size) \in Nat
  <2>1. addressAccumulator \in Nat /\ Capacity(size) \in Nat
    BY <1>1, Sizes, AddressSpaceAssumption DEF Address, IInv, TypeOK, HeapTypeOK
  <2>2. addressAccumulator + Capacity(size) \in Nat /\ addressAccumulator + Capacity(size) < AddressSpace
    BY <1>1, <2>1 DEF HasRoom
  <2> QED
    BY <1>1, <2>1, <2>2, Wrapped DEF Allocate
<1>6. TypeOK'
  <2>1. HeapTypeOK'
    BY <1>1, AllocateTypes DEF IInv, TypeOK
  <2>2. addressAccumulator \in Address
    BY DEF IInv, TypeOK, HeapTypeOK
  <2>3. \A b \in DOMAIN owned' : owned'[b] \in [begin : Address, size : Size]
    BY <1>4, <2>2 DEF IInv, TypeOK
  <2>4. DOMAIN owned' \subseteq 1 .. allocated'
    BY <1>2, <1>4
  <2> QED
    BY <2>1, <2>3, <2>4 DEF TypeOK, Address
<1>7. OneSlotEach'
  <2>1. /\ DOMAIN chunks = 1 .. Len(chunks) /\ Len(chunks) \in Nat
        /\ DOMAIN chunks' = 1 .. Len(chunks) + 1
        /\ chunks'[Len(chunks) + 1] = new
        /\ \A i \in DOMAIN chunks : chunks'[i] = chunks[i]
    BY <1>1 DEF Allocate, IInv, TypeOK, HeapTypeOK
  <2>2. \A i \in DOMAIN chunks' : i = Len(chunks) + 1 \/ i \in DOMAIN chunks
    BY <2>1
  <2>3. Len(chunks) + 1 \in DOMAIN chunks' /\ DOMAIN chunks \subseteq DOMAIN chunks'
    BY <2>1
  <2>4. \A i \in DOMAIN chunks : chunks'[i] \in DOMAIN object
    BY <2>1 DEF IInv, OneSlotEach
  <2>5. \A i \in DOMAIN chunks' : chunks'[i] \in DOMAIN object'
    BY <1>3, <2>1, <2>2, <2>4
  <2>6. \A i, j \in DOMAIN chunks' : chunks'[i] = chunks'[j] => i = j
    <3>1. \A i, j \in DOMAIN chunks : chunks'[i] = chunks'[j] => i = j
      BY <2>1 DEF IInv, OneSlotEach
    <3> QED
      BY <1>2, <2>1, <2>2, <2>4, <3>1
  <2>7. \A id \in DOMAIN object' : \E i \in DOMAIN chunks' : chunks'[i] = id
    <3>1. \A id \in DOMAIN object : \E i \in DOMAIN chunks : chunks[i] = id
      BY DEF IInv, OneSlotEach
    <3> QED
      BY <1>3, <2>1, <2>3, <3>1
  <2> QED
    BY <2>5, <2>6, <2>7 DEF OneSlotEach
<1>8. /\ NewChunk(size).begin = addressAccumulator
      /\ NewChunk(size).length = 4 * size
      /\ NewChunk(size).capacity = Capacity(size)
      /\ Capacity(size) >= 4 * size
  BY <1>1, SizesWithRoom DEF NewChunk
<1>9. \A b \in DOMAIN object : object[b].begin + object[b].capacity <= addressAccumulator
  BY DEF IInv, ChunksAreBlocks
<1>10. ChunksAreBlocks'
  <2> SUFFICES ASSUME NEW b \in DOMAIN owned'
               PROVE  /\ object'[b].begin = owned'[b].begin
                      /\ object'[b].length = 4 * owned'[b].size
                      /\ object'[b].length <= object'[b].capacity
                      /\ object'[b].begin + object'[b].capacity <= addressAccumulator'
    BY <1>3, <1>4 DEF ChunksAreBlocks, IntBytes
  <2>1. CASE b \in DOMAIN owned
    <3>1. object[b].begin \in Nat /\ object[b].capacity \in Nat
      BY <1>4, <2>1, Extents
    <3> QED
      BY <1>3, <1>4, <1>5, <1>9, <2>1, <3>1, Extents
  <2>2. CASE b = new
    BY <1>1, <1>3, <1>4, <1>5, <1>8, <2>2
  <2> QED
    BY <1>4, <2>1, <2>2
<1>11. Apart'
  <2> SUFFICES ASSUME NEW b \in DOMAIN object', NEW c \in DOMAIN object', b < c
               PROVE  object'[b].begin + object'[b].capacity <= object'[c].begin
    BY DEF Apart
  <2>1. CASE b \in DOMAIN object /\ c \in DOMAIN object
    BY <1>3, <2>1 DEF IInv, Apart
  <2>2. CASE b \in DOMAIN object /\ c = new
    BY <1>3, <1>8, <1>9, <2>2
  <2>3. b # new
    BY <1>2, <1>3
  <2> QED
    BY <1>3, <2>1, <2>2, <2>3
<1>12. NeverFails' /\ EmptyWhenClosed'
  BY <1>1 DEF Allocate, NeverFails, EmptyWhenClosed
<1> QED
  BY <1>6, <1>7, <1>10, <1>11, <1>12 DEF IInv

LEMMA ReleaseKeepsIt ==
    ASSUME IInv, 0 \notin Size, NEW b \in DOMAIN owned, ProperRelease(b)
    PROVE  /\ IInv'
           /\ reply'[1] = "release" /\ reply' # << >> /\ allocated' = allocated
           /\ DOMAIN object' = DOMAIN object \ {b}
           /\ \A c \in DOMAIN object' : object'[c] = object[c]
<1>1. b \in DOMAIN object /\ DOMAIN object = DOMAIN owned
  BY DEF IInv, ChunksAreBlocks
<1>2. PICK k \in DOMAIN chunks : chunks[k] = b
  BY <1>1 DEF IInv, OneSlotEach
<1> DEFINE addr == owned[b].begin
<1>3. BeginsAt(addr) = {k}
  BY <1>2, OneBeginsThere
<1>4. Release(addr)
  BY <1>3, ErasesOneSlot DEF ProperRelease, ReleaseCall, ReleaseNothing, ReleaseCrashes, IInv, TypeOK
<1>5. /\ DOMAIN object' = DOMAIN object \ {b}
      /\ \A c \in DOMAIN object' : object'[c] = object[c]
      /\ chunks' = AfterErase(addr)
      /\ addressAccumulator' = addressAccumulator /\ allocated' = allocated /\ status' = status
      /\ reply' = <<"release", addr, 0>>
  BY <1>2, <1>3, <1>4 DEF Release
<1>6. DOMAIN owned' = DOMAIN owned \ {b} /\ \A c \in DOMAIN owned' : owned'[c] = owned[c]
  BY DEF ProperRelease
<1>7. TypeOK'
  <2>1. HeapTypeOK'
    BY ReleaseTypes DEF IInv, TypeOK, ProperRelease
  <2> QED
    BY <1>5, <1>6, <2>1 DEF IInv, TypeOK, Address
<1>8. OneSlotEach'
  <2>1. \A i \in DOMAIN chunks : i # k => chunks[i] \in DOMAIN object'
    BY <1>2, <1>5 DEF IInv, OneSlotEach
  <2>2. \A n \in DOMAIN chunks' : chunks'[n] \in DOMAIN object'
    BY <1>3, <1>5, <2>1, ErasesOneSlot DEF IInv, TypeOK
  <2>3. \A m, n \in DOMAIN chunks' : chunks'[m] = chunks'[n] => m = n
    BY <1>3, <1>5, ErasesOneSlot DEF IInv, TypeOK
  <2>4. \A id \in DOMAIN object' : \E n \in DOMAIN chunks' : chunks'[n] = id
    <3> SUFFICES ASSUME NEW id \in DOMAIN object'
                 PROVE  \E n \in DOMAIN chunks' : chunks'[n] = id
      OBVIOUS
    <3>1. PICK i \in DOMAIN chunks : chunks[i] = id
      BY <1>5 DEF IInv, OneSlotEach
    <3>2. i \in DOMAIN chunks \ {k}
      BY <1>2, <1>5, <3>1
    <3> QED
      BY <1>3, <1>5, <3>1, <3>2, ErasesOneSlot DEF IInv, TypeOK
  <2> QED
    BY <2>2, <2>3, <2>4 DEF OneSlotEach
<1>9. ChunksAreBlocks'
  BY <1>1, <1>5, <1>6 DEF IInv, ChunksAreBlocks
<1>10. Apart'
  BY <1>5 DEF IInv, Apart
<1>11. NeverFails' /\ EmptyWhenClosed'
  BY <1>5 DEF IInv, NeverFails, EmptyWhenClosed
<1> QED
  BY <1>5, <1>7, <1>8, <1>9, <1>10, <1>11 DEF IInv

(* A word of a block is a word of its chunk.                               *)
LEMMA WordOfBlock ==
    ASSUME IInv, NEW b \in DOMAIN owned, NEW i \in 0 .. owned[b].size - 1
    PROVE  /\ ReadWord(object[b], Offset(b, WordAddress(b, i))) = object[b].pointer[i]
           /\ \A val : WriteWord(object[b], Offset(b, WordAddress(b, i)), val)
                        = [object[b] EXCEPT !.pointer[i] = val]
<1>1. Offset(b, WordAddress(b, i)) = 4 * i
  BY WordFound
<1>2. (4 * i) % IntBytes = 0 /\ (4 * i) \div IntBytes = i
  BY DEF IntBytes
<1> QED
  BY <1>1, <1>2 DEF ReadWord, WriteWord

LEMMA AccessEffect ==
    ASSUME IInv, NEW b \in DOMAIN owned, NEW i \in 0 .. owned[b].size - 1, ProperAccess(b, i)
    PROVE  /\ UNCHANGED <<addressAccumulator, chunks, allocated, status, owned>>
           /\ \/ /\ object' = object
                 /\ reply' = <<"get", WordAddress(b, i), object[b].pointer[i]>>
              \/ \E val \in Value :
                    /\ object' = [object EXCEPT ![b] = [@ EXCEPT !.pointer[i] = val]]
                    /\ reply' = <<"set", WordAddress(b, i), val>>
<1> DEFINE addr == WordAddress(b, i)
<1>1. ~AccessFails(addr) /\ \A id \in DOMAIN object : Accesses(addr, id) <=> id = b
  BY AccessSucceeds
<1>2. CASE HeapGet(addr)
  BY <1>1, <1>2, WordOfBlock DEF HeapGet, ProperAccess
<1>3. ASSUME NEW val \in Value, HeapSet(addr, val)
      PROVE  /\ object' = [object EXCEPT ![b] = [@ EXCEPT !.pointer[i] = val]]
             /\ reply' = <<"set", addr, val>>
             /\ UNCHANGED <<addressAccumulator, chunks, allocated, status>>
  <2>1. object' = [object EXCEPT ![b] = WriteWord(@, Offset(b, addr), val)]
    BY <1>1, <1>3 DEF HeapSet
  <2>2. WriteWord(object[b], Offset(b, addr), val) = [object[b] EXCEPT !.pointer[i] = val]
    BY WordOfBlock
  <2> QED
    BY <1>3, <2>1, <2>2 DEF HeapSet
<1> QED
  BY <1>1, <1>2, <1>3 DEF ProperAccess, AccessCall

LEMMA AccessKeepsIt ==
    ASSUME IInv, NEW b \in DOMAIN owned, NEW i \in 0 .. owned[b].size - 1, ProperAccess(b, i)
    PROVE  IInv'
<1>1. UNCHANGED <<addressAccumulator, chunks, allocated, status, owned>>
  BY AccessEffect
<1>2. /\ DOMAIN object' = DOMAIN object
      /\ \A c \in DOMAIN object : /\ object'[c].begin = object[c].begin
                                 /\ object'[c].length = object[c].length
                                 /\ object'[c].capacity = object[c].capacity
  <2>1. CASE object' = object
    BY <2>1
  <2>2. ASSUME NEW val \in Value, object' = [object EXCEPT ![b] = [@ EXCEPT !.pointer[i] = val]]
        PROVE  <1>2!1 /\ <1>2!2
    <3>1. IsChunk(object[b])
      BY WordFound DEF IInv, TypeOK, HeapTypeOK
    <3> QED
      BY <2>2, <3>1 DEF IsChunk
  <2> QED
    BY <2>1, <2>2, AccessEffect
<1>3. TypeOK'
  <2>1. WordAddress(b, i) \in Nat
    <3>1. owned[b].begin \in Nat /\ i \in Nat
      BY WordFound, Extents
    <3> QED
      BY <3>1 DEF WordAddress, IntBytes
  <2>2. HeapTypeOK'
    BY <2>1, AccessTypes DEF IInv, TypeOK, ProperAccess
  <2> QED
    BY <1>1, <2>2 DEF IInv, TypeOK, Address
<1>4. OneSlotEach'
  BY <1>1, <1>2 DEF IInv, OneSlotEach
<1>5. ChunksAreBlocks'
  BY <1>1, <1>2 DEF IInv, ChunksAreBlocks
<1>6. Apart'
  BY <1>2 DEF IInv, Apart
<1>7. NeverFails' /\ EmptyWhenClosed'
  BY <1>1, <1>2 DEF IInv, NeverFails, EmptyWhenClosed
<1> QED
  BY <1>3, <1>4, <1>5, <1>6, <1>7 DEF IInv

LEMMA ExitKeepsIt ==
    ASSUME IInv, Exit
    PROVE  /\ IInv' /\ DOMAIN object' = {} /\ owned' = << >>
           /\ reply' = <<"close", 0, 0>> /\ allocated' = allocated
<1>1. ~CloseCrashes
  BY DEF CloseCrashes, IInv, OneSlotEach
<1>2. Close /\ owned' = << >>
  BY <1>1 DEF Exit
<1>3. DOMAIN object' = {} /\ chunks' = << >>
  BY <1>2 DEF Close, IInv, OneSlotEach
<1>4. TypeOK'
  <2>1. HeapTypeOK'
    BY ExitTypes DEF IInv, TypeOK
  <2> QED
    BY <1>2, <2>1 DEF TypeOK
<1>5. OneSlotEach' /\ ChunksAreBlocks' /\ Apart'
  BY <1>2, <1>3 DEF OneSlotEach, ChunksAreBlocks, Apart
<1>6. NeverFails' /\ EmptyWhenClosed'
  BY <1>2, <1>3 DEF Close, NeverFails, EmptyWhenClosed
<1> QED
  BY <1>2, <1>3, <1>4, <1>5, <1>6 DEF IInv, Close

LEMMA InitHoldsIt == Init => IInv
<1> SUFFICES ASSUME Init
             PROVE  IInv
  OBVIOUS
<1>1. TypeOK
  BY InitTypes
<1> QED
  BY <1>1 DEF Init, HeapInit, IInv, NeverFails, OneSlotEach, ChunksAreBlocks, Apart, EmptyWhenClosed

LEMMA ProperStepKeepsIt ==
    ASSUME 0 \notin Size, IInv, [ProperNext]_vars
    PROVE  IInv'
<1>1. CASE UNCHANGED vars
  BY <1>1 DEF vars, IInv, TypeOK, HeapTypeOK, IsChunk, Word, Address,
              NeverFails, OneSlotEach, ChunksAreBlocks, Apart, EmptyWhenClosed
<1> QED
  BY <1>1, AllocateKeepsIt, ReleaseKeepsIt, AccessKeepsIt, ExitKeepsIt DEF ProperNext, Ended

THEOREM Inductive ==
    ASSUME 0 \notin Size
    PROVE  ProperSpec => []IInv
<1>1. Init => IInv
  BY InitHoldsIt
<1>2. IInv /\ [ProperNext]_vars => IInv'
  BY ProperStepKeepsIt
<1> QED
  BY <1>1, <1>2, PTL DEF ProperSpec

(* None of the assertions of the heap fails, and nothing undefined         *)
(* happens, to a program that releases each block once, accesses only      *)
(* words of its blocks, has addresses left and allocates no empty block    *)
(* (Environment.h, lines 73, 79, 94, 110-147).                             *)
THEOREM NeverFailsAlways ==
    ASSUME 0 \notin Size
    PROVE  ProperSpec => []NeverFails
<1>1. IInv => NeverFails
  BY DEF IInv
<1> QED
  BY <1>1, Inductive, PTL

(* When the interpreter ends, every chunk was deleted once: by its release *)
(* or by the destructor of the heap (Environment.h, lines 110-134).        *)
THEOREM NothingLeaksAlways ==
    ASSUME 0 \notin Size
    PROVE  ProperSpec => []NothingLeaks
<1>1. IInv => NothingLeaks
  BY DEF IInv, EmptyWhenClosed, NothingLeaks
<1> QED
  BY <1>1, Inductive, PTL

-----------------------------------------------------------------------------
(* The heap as the memory it promises.                                     *)
Words == [b \in DOMAIN owned |-> [i \in 0 .. owned[b].size - 1 |-> object[b].pointer[i]]]

LEMMA ContentIsWords == IInv => Content = Words
<1> SUFFICES ASSUME IInv
             PROVE  Content = Words
  OBVIOUS
<1>1. ASSUME NEW b \in DOMAIN owned, NEW i \in 0 .. owned[b].size - 1
      PROVE  LET addr == WordAddress(b, i)
                 at == {id \in DOMAIN object : Accesses(addr, id)}
             IN  (IF at = {} THEN Null
                  ELSE LET id == CHOOSE d \in at : TRUE
                       IN  ReadWord(object[id], Offset(id, addr))) = object[b].pointer[i]
  <2> DEFINE addr == WordAddress(b, i)
             at == {id \in DOMAIN object : Accesses(addr, id)}
  <2>1. at = {b}
    BY AccessSucceeds, WordFound
  <2>2. (CHOOSE d \in at : TRUE) = b
    BY <2>1
  <2> QED
    BY <2>1, <2>2, WordOfBlock
<1> QED
  BY <1>1 DEF Content, Words

LEMMA AllocateIsAllocate ==
    ASSUME IInv, NEW size \in Size, ProperAllocate(size), Content = Words, Content' = Words'
    PROVE  Memory!Allocate(size)
<1>1. Allocate(size) /\ size \in Nat /\ DOMAIN owned = DOMAIN object
  BY SizeIsNat DEF ProperAllocate, IInv, ChunksAreBlocks
<1>2. allocated \in Nat /\ allocated' = allocated + 1 /\ allocated' \notin DOMAIN owned
  BY <1>1, MaxAllocationAssumption DEF Allocate, IInv, TypeOK, HeapTypeOK
<1>3. /\ object'[allocated'] = NewChunk(size)
      /\ \A b \in DOMAIN owned : object'[b] = object[b]
  BY <1>1, <1>2 DEF Allocate
<1>4. /\ DOMAIN owned' = DOMAIN owned \cup {allocated'}
      /\ owned'[allocated'].size = size
      /\ \A b \in DOMAIN owned : owned'[b] = owned[b]
  BY <1>2 DEF ProperAllocate
<1>5. \A i \in 0 .. size - 1 : NewChunk(size).pointer[i] = Indeterminate
  <2>1. Capacity(size) \in Nat /\ Capacity(size) % 8 = 0 /\ Capacity(size) >= 4 * size
    BY <1>1, SizesWithRoom, Sizes, AddressSpaceAssumption DEF ProperAllocate, Address
  <2>2. size <= Capacity(size) \div IntBytes
    BY <1>1, <2>1 DEF IntBytes
  <2>3. Capacity(size) \div IntBytes \in Int
    BY <2>1 DEF IntBytes
  <2>4. \A i \in 0 .. size - 1 : i \in 0 .. (Capacity(size) \div IntBytes) - 1
    BY <1>1, <2>2, <2>3
  <2> QED
    BY <2>4 DEF NewChunk
<1>6. Words' = [b \in DOMAIN Words \cup {allocated'} |->
                  IF b = allocated' THEN [i \in 0 .. size - 1 |-> Indeterminate] ELSE Words[b]]
  <2> DEFINE words(b) == [i \in 0 .. owned'[b].size - 1 |-> object'[b].pointer[i]]
             entry(b) == IF b = allocated' THEN [i \in 0 .. size - 1 |-> Indeterminate] ELSE Words[b]
  <2>1. DOMAIN Words = DOMAIN owned /\ Words' = [b \in DOMAIN owned' |-> words(b)]
    BY DEF Words
  <2>2. words(allocated') = entry(allocated')
    BY <1>3, <1>4, <1>5
  <2>3. ASSUME NEW b \in DOMAIN owned
        PROVE  words(b) = entry(b)
    <3>1. b # allocated' /\ owned'[b] = owned[b] /\ object'[b] = object[b]
      BY <1>2, <1>3, <1>4
    <3> QED
      BY <3>1 DEF Words
  <2>4. \A b \in DOMAIN owned' : words(b) = entry(b)
    BY <1>4, <2>2, <2>3
  <2>5. DOMAIN owned' = DOMAIN Words \cup {allocated'}
    BY <1>4, <2>1
  <2> HIDE DEF words, entry
  <2>6. Words' = [b \in DOMAIN Words \cup {allocated'} |-> entry(b)]
    BY <2>1, <2>4, <2>5
  <2> QED
    BY <2>6 DEF entry
<1>7. reply' = <<"allocate", size, addressAccumulator>> /\ allocated < MaxAllocation
  BY <1>1 DEF Allocate
<1> QED
  BY <1>2, <1>6, <1>7 DEF Memory!Allocate, Memory!Nothing

LEMMA ReleaseIsRelease ==
    ASSUME IInv, 0 \notin Size, NEW b \in DOMAIN owned, ProperRelease(b),
           Content = Words, Content' = Words'
    PROVE  Memory!Release(b)
<1>1. /\ reply'[1] = "release" /\ allocated' = allocated
      /\ \A c \in DOMAIN object' : object'[c] = object[c]
      /\ IInv'
  BY ReleaseKeepsIt
<1>2. DOMAIN owned' = DOMAIN owned \ {b} /\ \A c \in DOMAIN owned' : owned'[c] = owned[c]
  BY DEF ProperRelease
<1>3. DOMAIN owned' = DOMAIN object'
  BY <1>1 DEF IInv, ChunksAreBlocks
<1>4. Words' = [c \in DOMAIN Words \ {b} |-> Words[c]]
  BY <1>1, <1>2, <1>3 DEF Words
<1> QED
  BY <1>1, <1>4 DEF Memory!Release, Memory!Nothing

LEMMA AccessIsAccess ==
    ASSUME IInv, NEW b \in DOMAIN owned, NEW i \in 0 .. owned[b].size - 1, ProperAccess(b, i),
           Content = Words, Content' = Words'
    PROVE  Memory!Load(b, i) \/ \E val \in Value : Memory!Store(b, i, val)
<1>1. owned' = owned /\ allocated' = allocated
  BY AccessEffect
<1>2. Words[b][i] = object[b].pointer[i]
  BY DEF Words
<1>3. CASE object' = object /\ reply' = <<"get", WordAddress(b, i), object[b].pointer[i]>>
  <2>1. Words' = Words
    BY <1>1, <1>3 DEF Words
  <2> QED
    BY <1>1, <1>2, <1>3, <2>1 DEF Memory!Load
<1>4. ASSUME NEW val \in Value, object' = [object EXCEPT ![b] = [@ EXCEPT !.pointer[i] = val]],
             reply' = <<"set", WordAddress(b, i), val>>
      PROVE  Memory!Store(b, i, val)
  <2>1. IsChunk(object[b]) /\ b \in DOMAIN object
    BY WordFound DEF IInv, TypeOK, HeapTypeOK
  <2>2. \A j \in 0 .. owned[b].size - 1 : j \in DOMAIN object[b].pointer
    <3>1. /\ object[b].capacity \in Nat /\ owned[b].size \in Nat
          /\ 4 * owned[b].size <= object[b].capacity
      BY <2>1, Extents
    <3>2. owned[b].size <= object[b].capacity \div IntBytes /\ object[b].capacity \div IntBytes \in Int
      BY <3>1 DEF IntBytes
    <3> QED
      BY <2>1, <3>1, <3>2 DEF IsChunk
  <2>3. /\ DOMAIN object' = DOMAIN object
        /\ \A c \in DOMAIN object : c # b => object'[c] = object[c]
        /\ object'[b].pointer = [object[b].pointer EXCEPT ![i] = val]
    BY <1>4, <2>1 DEF IsChunk
  <2>4. \A c \in DOMAIN owned : c \in DOMAIN object
    BY DEF IInv, ChunksAreBlocks
  <2>5. Words' = [Words EXCEPT ![b][i] = val]
    <3>1. /\ DOMAIN Words = DOMAIN owned
          /\ Words' = [c \in DOMAIN owned |-> [j \in 0 .. owned[c].size - 1 |-> object'[c].pointer[j]]]
      BY <1>1 DEF Words
    <3>2. ASSUME NEW c \in DOMAIN owned
          PROVE  [j \in 0 .. owned[c].size - 1 |-> object'[c].pointer[j]]
                 = [Words EXCEPT ![b][i] = val][c]
      <4>1. CASE c = b
        BY <2>2, <2>3, <4>1 DEF Words
      <4>2. CASE c # b
        BY <2>3, <2>4, <4>2 DEF Words
      <4> QED
        BY <4>1, <4>2
    <3> QED
      BY <3>1, <3>2
  <2> QED
    BY <1>1, <1>4, <2>5 DEF Memory!Store, Memory!Nothing
<1> QED
  BY <1>3, <1>4, AccessEffect

LEMMA ExitIsExit ==
    ASSUME IInv, Exit, Content' = Words'
    PROVE  Memory!Exit
<1>1. owned' = << >> /\ reply' = <<"close", 0, 0>> /\ allocated' = allocated
  BY ExitKeepsIt
<1> QED
  BY <1>1 DEF Memory!Exit, Memory!Nothing, Words

LEMMA ProperStepIsMemoryStep ==
    ASSUME 0 \notin Size, IInv, Content = Words, Content' = Words', [ProperNext]_vars
    PROVE  [Memory!Next]_(Memory!vars)
<1>1. CASE UNCHANGED vars
  BY <1>1 DEF vars, Memory!vars, Words
<1>2. ASSUME NEW size \in Size, ProperAllocate(size)
      PROVE  Memory!Next
  BY <1>2, AllocateIsAllocate, SizeAssumption DEF Memory!Next
<1>3. DOMAIN Content = DOMAIN owned /\ \A b \in DOMAIN owned : DOMAIN Content[b] = 0 .. owned[b].size - 1
  BY DEF Words
<1>4. ASSUME NEW b \in DOMAIN owned, ProperRelease(b)
      PROVE  Memory!Next
  BY <1>3, <1>4, ReleaseIsRelease DEF Memory!Next
<1>5. ASSUME NEW b \in DOMAIN owned, NEW i \in 0 .. owned[b].size - 1, ProperAccess(b, i)
      PROVE  Memory!Next
  BY <1>3, <1>5, AccessIsAccess DEF Memory!Next
<1>6. CASE Exit
  BY <1>6, ExitIsExit DEF Memory!Next
<1> QED
  BY <1>1, <1>2, <1>4, <1>5, <1>6 DEF ProperNext, Ended

(* To a program that keeps the rules the heap is a memory of independent   *)
(* arrays: the lookup by address range finds the chunk the address came    *)
(* from, chunks share no word, and a release takes out one chunk only      *)
(* (Environment.h, lines 66-152).                                          *)
THEOREM HeapIsMemory ==
    ASSUME 0 \notin Size
    PROVE  ProperSpec => ImplementsMemory
<1>1. Init => Memory!Init
  BY DEF Init, HeapInit, Memory!Init, Memory!Nothing, Content
<1>2. IInv /\ IInv' /\ [ProperNext]_vars => [Memory!Next]_(Memory!vars)
  <2> SUFFICES ASSUME IInv, IInv', [ProperNext]_vars
               PROVE  [Memory!Next]_(Memory!vars)
    OBVIOUS
  <2>1. (IInv => Content = Words)'
    BY ContentIsWords, PTL
  <2> QED
    BY <2>1, ContentIsWords, ProperStepIsMemoryStep
<1> QED
  BY <1>1, <1>2, Inductive, PTL DEF ProperSpec, ImplementsMemory, Memory!Spec

-----------------------------------------------------------------------------
(***************************************************************************)
(* A program that allocates no empty block and releases only what is live, *)
(* wherever it loads and stores: the heap forgets no chunk.                *)
(***************************************************************************)
(* No two chunks begin at one address, and the next one begins behind all. *)
BeginsDiffer ==
    /\ \A id \in DOMAIN object : object[id].begin < addressAccumulator
    /\ \A id, other \in DOMAIN object : object[id].begin = object[other].begin => id = other

InOrder == OneSlotEach /\ BeginsDiffer /\ EmptyWhenClosed

LEMMA NewSlot ==
    ASSUME HeapTypeOK, OneSlotEach, NEW size, Allocate(size)
    PROVE  /\ OneSlotEach'
           /\ allocated' \notin DOMAIN object
           /\ DOMAIN object' = DOMAIN object \cup {allocated'}
           /\ \A id \in DOMAIN object : object'[id] = object[id]
           /\ object'[allocated'].begin = addressAccumulator
<1> DEFINE new == allocated'
<1>1. new = allocated + 1 /\ allocated \in Nat /\ new \notin DOMAIN object
  BY MaxAllocationAssumption DEF Allocate, HeapTypeOK
<1>2. /\ DOMAIN object' = DOMAIN object \cup {new}
      /\ object'[new] = NewChunk(size)
      /\ \A id \in DOMAIN object : object'[id] = object[id]
  BY <1>1 DEF Allocate
<1>3. /\ DOMAIN chunks = 1 .. Len(chunks) /\ Len(chunks) \in Nat
      /\ DOMAIN chunks' = 1 .. Len(chunks) + 1
      /\ chunks'[Len(chunks) + 1] = new
      /\ \A i \in DOMAIN chunks : chunks'[i] = chunks[i]
  BY DEF Allocate, HeapTypeOK
<1> HIDE DEF new
<1>4. \A i \in DOMAIN chunks' : i = Len(chunks) + 1 \/ i \in DOMAIN chunks
  BY <1>3
<1>5. Len(chunks) + 1 \in DOMAIN chunks' /\ DOMAIN chunks \subseteq DOMAIN chunks'
  BY <1>3
<1>6. /\ \A i \in DOMAIN chunks : chunks'[i] \in DOMAIN object
      /\ \A i, j \in DOMAIN chunks : chunks'[i] = chunks'[j] => i = j
      /\ \A id \in DOMAIN object : \E i \in DOMAIN chunks : chunks'[i] = id
  BY <1>3 DEF OneSlotEach
<1>7. OneSlotEach'
  <2>1. \A i \in DOMAIN chunks' : chunks'[i] \in DOMAIN object'
    BY <1>2, <1>3, <1>4, <1>6
  <2>2. \A i, j \in DOMAIN chunks' : chunks'[i] = chunks'[j] => i = j
    BY <1>1, <1>3, <1>4, <1>6
  <2>3. \A id \in DOMAIN object' : \E i \in DOMAIN chunks' : chunks'[i] = id
    BY <1>2, <1>3, <1>5, <1>6
  <2> QED
    BY <2>1, <2>2, <2>3 DEF OneSlotEach
<1> QED
  BY <1>1, <1>2, <1>7 DEF NewChunk, new

LEMMA AllocateKeepsOrder ==
    ASSUME HeapTypeOK, InOrder, NEW size \in Nat, Allocate(size),
           Capacity(size) > 0, addressAccumulator + Capacity(size) < AddressSpace
    PROVE  InOrder'
<1> DEFINE new == allocated'
<1>1. /\ OneSlotEach' /\ new \notin DOMAIN object
      /\ DOMAIN object' = DOMAIN object \cup {new}
      /\ \A id \in DOMAIN object : object'[id] = object[id]
      /\ object'[new].begin = addressAccumulator
  BY NewSlot DEF InOrder
<1>2. /\ addressAccumulator \in Nat
      /\ addressAccumulator' > addressAccumulator /\ addressAccumulator' \in Nat
  <2>1. addressAccumulator \in Nat /\ Capacity(size) \in Nat
    BY Sizes, AddressSpaceAssumption DEF Address, HeapTypeOK
  <2>2. addressAccumulator' = addressAccumulator + Capacity(size)
    BY <2>1, Wrapped DEF Allocate
  <2> QED
    BY <2>1, <2>2
<1>3. \A id \in DOMAIN object : object[id].begin \in Nat /\ object[id].begin < addressAccumulator
  BY AddressSpaceAssumption DEF HeapTypeOK, IsChunk, Address, InOrder, BeginsDiffer
<1> HIDE DEF new
<1>4. \A id \in DOMAIN object' :
         id = new \/ (id \in DOMAIN object /\ object'[id] = object[id])
  <2>1. \A id \in DOMAIN object' : id = new \/ id \in DOMAIN object
    BY <1>1
  <2> QED
    BY <1>1, <2>1
<1>5. \A id \in DOMAIN object' : object'[id].begin < addressAccumulator'
  BY <1>1, <1>2, <1>3, <1>4
<1>6. \A id, other \in DOMAIN object' : object'[id].begin = object'[other].begin => id = other
  BY <1>1, <1>2, <1>3, <1>4 DEF InOrder, BeginsDiffer
<1>7. EmptyWhenClosed'
  BY DEF Allocate, EmptyWhenClosed
<1> QED
  BY <1>1, <1>5, <1>6, <1>7 DEF InOrder, BeginsDiffer

(* The release of a live chunk is one, and takes out no other.             *)
LEMMA ReleaseKeepsOrder ==
    ASSUME HeapTypeOK, InOrder, NEW id \in DOMAIN object, ReleaseCall(object[id].begin)
    PROVE  /\ InOrder'
           /\ DOMAIN object' = DOMAIN object \ {id}
           /\ \A other \in DOMAIN object' : object'[other] = object[other]
<1> DEFINE addr == object[id].begin
<1>1. PICK k \in DOMAIN chunks : chunks[k] = id
  BY DEF InOrder, OneSlotEach
<1>2. BeginsAt(addr) = {k}
  BY <1>1, NoSlotIsNull DEF BeginsAt, InOrder, OneSlotEach, BeginsDiffer
<1>3. Release(addr)
  BY <1>2, ErasesOneSlot DEF InOrder, ReleaseCall, ReleaseNothing, ReleaseCrashes
<1>4. /\ DOMAIN object' = DOMAIN object \ {id}
      /\ \A other \in DOMAIN object' : object'[other] = object[other]
      /\ chunks' = AfterErase(addr)
      /\ UNCHANGED <<addressAccumulator, status>>
  BY <1>1, <1>2, <1>3 DEF Release
<1> HIDE DEF addr
<1>5. /\ \A n \in DOMAIN chunks' : \E i \in DOMAIN chunks \ {k} : chunks'[n] = chunks[i]
      /\ \A i \in DOMAIN chunks \ {k} : \E n \in DOMAIN chunks' : chunks'[n] = chunks[i]
      /\ \A m, n \in DOMAIN chunks' : chunks'[m] = chunks'[n] => m = n
  BY <1>2, <1>4, ErasesOneSlot DEF InOrder
<1>6. OneSlotEach'
  <2>1. \A i \in DOMAIN chunks \ {k} : chunks[i] \in DOMAIN object'
    BY <1>1, <1>4 DEF InOrder, OneSlotEach
  <2>2. \A other \in DOMAIN object' : \E i \in DOMAIN chunks \ {k} : chunks[i] = other
    BY <1>1, <1>4 DEF InOrder, OneSlotEach
  <2>3. \A other \in DOMAIN object' : \E n \in DOMAIN chunks' : chunks'[n] = other
    BY <1>5, <2>2
  <2> QED
    BY <1>5, <2>1, <2>3 DEF OneSlotEach
<1>7. BeginsDiffer' /\ EmptyWhenClosed'
  BY <1>4 DEF InOrder, BeginsDiffer, EmptyWhenClosed
<1> QED
  BY <1>4, <1>6, <1>7 DEF InOrder

(* A load or a store leaves every chunk where it is, as does a failure.    *)
LEMMA OthersKeepOrder ==
    ASSUME HeapTypeOK, InOrder,
           UNCHANGED heapVars \/ (\E addr : AccessCall(addr)) \/ (\E how : how # "closed" /\ Stop(how))
    PROVE  /\ InOrder'
           /\ DOMAIN object' = DOMAIN object
           /\ \A id \in DOMAIN object : object'[id].begin = object[id].begin
<1>1. /\ UNCHANGED <<addressAccumulator, chunks>>
      /\ status' = "closed" => status = "closed" /\ object' = object
      /\ DOMAIN object' = DOMAIN object
      /\ \A id \in DOMAIN object : object'[id].begin = object[id].begin
  <2>1. CASE UNCHANGED heapVars
    BY <2>1 DEF heapVars
  <2>2. ASSUME NEW how, how # "closed", Stop(how)
        PROVE  <1>1
    BY <2>2 DEF Stop
  <2>3. ASSUME NEW addr, AccessCall(addr)
        PROVE  <1>1
    <3>1. CASE HeapGet(addr) \/ AccessFails(addr)
      BY <3>1 DEF HeapGet, AccessFails, Stop
    <3>2. ASSUME NEW val \in Value, HeapSet(addr, val)
          PROVE  <1>1
      <4>1. PICK id \in DOMAIN object :
               object' = [object EXCEPT ![id] = WriteWord(object[id], Offset(id, addr), val)]
        BY <3>2 DEF HeapSet
      <4>2. WriteWord(object[id], Offset(id, addr), val).begin = object[id].begin
        BY <4>1 DEF WriteWord, HeapTypeOK, IsChunk
      <4> QED
        BY <3>2, <4>1, <4>2 DEF HeapSet
    <3> QED
      BY <2>3, <3>1, <3>2 DEF AccessCall
  <2> QED
    BY <2>1, <2>2, <2>3
<1> QED
  BY <1>1 DEF InOrder, OneSlotEach, BeginsDiffer, EmptyWhenClosed

LEMMA ExitKeepsOrder ==
    ASSUME InOrder, Close \/ CloseCrashes
    PROVE  InOrder' /\ DOMAIN object' = {}
<1>1. ~CloseCrashes
  BY DEF CloseCrashes, InOrder, OneSlotEach
<1>2. DOMAIN object' = {} /\ chunks' = << >>
  <2>1. Close
    BY <1>1
  <2>2. \A id \in DOMAIN object : \E i \in DOMAIN chunks : chunks[i] = id
    BY DEF InOrder, OneSlotEach
  <2> QED
    BY <2>1, <2>2 DEF Close
<1> QED
  BY <1>2 DEF InOrder, OneSlotEach, BeginsDiffer, EmptyWhenClosed
=============================================================================
