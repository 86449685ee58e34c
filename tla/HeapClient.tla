----------------------------- MODULE HeapClient -----------------------------
(***************************************************************************)
(* The heap under the program being interpreted.  The interpreter calls it *)
(* for MALLOC and FREE, for local arrays, and for every load and store     *)
(* through a dereference or a subscript (Environment.h, lines 166-176,     *)
(* 331-338, 446-450, 489-497, 524-532).  Two programs are modelled: one    *)
(* that keeps the rules of C, and one that may pass any address.           *)
(***************************************************************************)
EXTENDS Heap

CONSTANTS MaxSize, Size

ASSUME SizeAssumption == MaxSize \in Nat /\ Size \subseteq 0 .. MaxSize

VARIABLE owned      \* the program's live blocks: number |-> address and size

vars == <<addressAccumulator, chunks, object, allocated, status, reply, owned>>

TypeOK ==
    /\ HeapTypeOK
    /\ DOMAIN owned \subseteq 1 .. allocated
    /\ \A b \in DOMAIN owned : owned[b] \in [begin : Address, size : Size]

Init == HeapInit /\ owned = << >>

(* The process or its interpreter has ended.                               *)
Ended == status # "running" /\ UNCHANGED vars

-----------------------------------------------------------------------------
(* A program that keeps the rules: it releases each block once, accesses   *)
(* only whole words of live blocks, and does not use up the addresses.     *)
HasRoom(size) ==
    /\ size * IntBytes + 7 < AddressSpace
    /\ addressAccumulator + Capacity(size) < AddressSpace

ProperAllocate(size) ==
    /\ HasRoom(size)
    /\ Allocate(size)
    /\ owned' = [b \in DOMAIN owned \cup {allocated'} |->
                   IF b = allocated' THEN [begin |-> addressAccumulator, size |-> size]
                                     ELSE owned[b]]

(* A call, however it ends.                                                *)
ReleaseCall(addr) == Release(addr) \/ ReleaseNothing(addr) \/ ReleaseCrashes(addr)

AccessCall(addr) ==
    HeapGet(addr) \/ AccessFails(addr) \/ \E val \in Value : HeapSet(addr, val)

ProperRelease(b) ==
    /\ ReleaseCall(owned[b].begin)
    /\ owned' = [d \in DOMAIN owned \ {b} |-> owned[d]]

WordAddress(b, i) == owned[b].begin + IntBytes * i

ProperAccess(b, i) == AccessCall(WordAddress(b, i)) /\ UNCHANGED owned

(* The interpreter ends whatever the program still owns.                   *)
Exit == (Close \/ CloseCrashes) /\ owned' = << >>

ProperNext ==
    \/ Exit
    \/ \E size \in Size : ProperAllocate(size)
    \/ \E b \in DOMAIN owned :
          \/ ProperRelease(b)
          \/ \E i \in 0 .. owned[b].size - 1 : ProperAccess(b, i)
    \/ Ended

ProperSpec == Init /\ [][ProperNext]_vars

-----------------------------------------------------------------------------
(* A program that may pass any address to any call, allocate without end,  *)
(* and fail outside the heap.                                              *)
Fails == status = "running" /\ (Stop("aborted") \/ Stop("undefined"))

AnyNext ==
    \/ Exit
    \/ \E size \in Size : Allocate(size) /\ UNCHANGED owned
    \/ \E addr \in Address :
          (ReleaseCall(addr) \/ AccessCall(addr)) /\ UNCHANGED owned
    \/ Fails /\ UNCHANGED owned
    \/ Ended

AnySpec == Init /\ [][AnyNext]_vars

-----------------------------------------------------------------------------
(* The heap never stops a program that keeps the rules and allocates no    *)
(* empty block: none of the assertions of lines 73, 79, 94, 140 and 147    *)
(* fails, and nothing undefined happens.                                   *)
NeverFails == status \in {"running", "closed"}

(* Every chunk is deleted: by its release, or by the destructor of the     *)
(* heap, which only knows the chunks in the vector (lines 110-117).        *)
NothingLeaks == status = "closed" => DOMAIN object = {}

(* What the program would read now in word i of its block b.               *)
Content ==
    [b \in DOMAIN owned |->
        [i \in 0 .. owned[b].size - 1 |->
            LET addr == WordAddress(b, i)
                at == {id \in DOMAIN object : Accesses(addr, id)}
            IN  IF at = {} THEN Null
                ELSE LET id == CHOOSE d \in at : TRUE
                     IN  ReadWord(object[id], Offset(id, addr))]]

Memory == INSTANCE GuestMemory WITH
             content <- Content,
             created <- allocated,
             loaded <- IF reply # << >> /\ reply[1] = "get" THEN <<reply[3]>> ELSE << >>

(* To a program that keeps the rules the heap is a memory of independent   *)
(* arrays: no chunk shares a word with another, a lookup finds the chunk   *)
(* the address came from, and release takes out only the chunk released.   *)
ImplementsMemory == Memory!Spec

ReachableChunks == {chunks[i] : i \in DOMAIN chunks} \ {Null}

(* Whatever addresses the program passes, the vector never holds a pointer *)
(* to a deleted chunk when a call returns: a slot behind the erased one    *)
(* may hold a null pointer or a chunk a second time, but is no worse.      *)
NoDanglingSlot == \A id \in ReachableChunks : id \in DOMAIN object
=============================================================================
