-------------------------------- MODULE Heap --------------------------------
(***************************************************************************)
(* The guest heap of the AST interpreter (class Heap of                    *)
(* src/Assignment1/Environment.h): a vector of pointers to chunks, each    *)
(* covering a range of the guest's 32-bit address space, handed out by an  *)
(* accumulator that only ever grows.                                       *)
(*                                                                         *)
(* Every call may also end the process: with a failed assertion (the       *)
(* builds keep them) or by running into undefined behaviour of the host.   *)
(***************************************************************************)
EXTENDS Integers, Sequences, FiniteSets, SequencesExt

CONSTANTS
    AddressSpace,       \* 2^32 in the code
    MaxAllocation,      \* bound on the number of allocations
    Value               \* the int values stored

ASSUME AddressSpaceAssumption ==
    AddressSpace \in Nat /\ AddressSpace > 8 /\ AddressSpace % 8 = 0

ASSUME MaxAllocationAssumption == MaxAllocation \in Nat

CONSTANTS
    Null,               \* nullptr
    Indeterminate       \* the content of a word nothing defined

ASSUME NullAssumption == Null \notin 1 .. MaxAllocation

VARIABLES
    addressAccumulator,
    chunks,             \* vector<chunkMeta *>: object numbers, or Null
    object,             \* the chunkMeta objects not deleted, by number
    allocated,          \* how many were ever created
    status,             \* "running", "closed", "aborted" or "undefined"
    reply               \* the last call that returned, and its result

heapVars == <<addressAccumulator, chunks, object, allocated, status, reply>>

Address == 0 .. AddressSpace - 1

IntBytes == 4

Word == Value \cup {Indeterminate}

IsChunk(chunk) ==
    /\ chunk \in [begin : Address, length : Address, capacity : Address,
                  pointer : {chunk.pointer}]
    /\ chunk.pointer \in [0 .. (chunk.capacity \div IntBytes) - 1 -> Word]

HeapTypeOK ==
    /\ addressAccumulator \in Address
    /\ allocated \in 0 .. MaxAllocation
    /\ DOMAIN object \subseteq 1 .. allocated
    /\ \A id \in DOMAIN object : IsChunk(object[id])
    /\ chunks \in Seq(1 .. allocated \cup {Null})
    /\ status \in {"running", "closed", "aborted", "undefined"}

-----------------------------------------------------------------------------
(* The constructor of chunkMeta, with the wrap-around of its unsigned      *)
(* arithmetic: `length << 2`, and (length + 7) & 0xfffffff8.               *)
Length(size) == (size * 4) % AddressSpace

Capacity(size) == LET padded == (Length(size) + 7) % AddressSpace
                  IN  8 * (padded \div 8)

NewChunk_begins_after(size) ==                                        \* mutant
    [begin    |-> addressAccumulator + Capacity(size),
     length   |-> Length(size),
     capacity |-> Capacity(size),
     pointer  |-> [w \in 0 .. (Capacity(size) \div IntBytes) - 1 |-> Indeterminate]]

NewChunk(size) ==
    [begin    |-> addressAccumulator,
     length   |-> Length(size),
     capacity |-> Capacity(size),
     pointer  |-> [w \in 0 .. (Capacity(size) \div IntBytes) - 1 |-> Indeterminate]]

(* queryChunkMeta: find_if stops at the first slot whose chunk covers addr *)
(* -- or at a null slot, which its predicate dereferences.                 *)
Covers_without_begin(id, addr) ==                                     \* mutant
    /\ object[id].begin < addr
    /\ addr < (object[id].begin + object[id].length) % AddressSpace

Covers_with_end(id, addr) ==                                          \* mutant
    /\ object[id].begin <= addr
    /\ addr <= (object[id].begin + object[id].length) % AddressSpace

Covers(id, addr) ==
    /\ object[id].begin <= addr
    /\ addr < (object[id].begin + object[id].length) % AddressSpace

StopsAt(addr) ==
    {i \in DOMAIN chunks : chunks[i] = Null \/ Covers(chunks[i], addr)}

Found(addr, id) ==
    \E i \in StopsAt(addr) :
        /\ \A j \in StopsAt(addr) : i <= j
        /\ chunks[i] = id

Offset(id, addr) == addr - object[id].begin

(* The assertions of queryChunkMeta and of chunkMeta::get and set.         *)
AccessAborts(addr) ==
    \/ StopsAt(addr) = {}
    \/ \E id \in DOMAIN object : Found(addr, id) /\ Offset(id, addr) >= object[id].capacity

(* A null slot, or an int that begins inside the chunk and ends outside.   *)
AccessUndefined(addr) ==
    \/ Found(addr, Null)
    \/ \E id \in DOMAIN object :
          /\ Found(addr, id)
          /\ Offset(id, addr) < object[id].capacity
          /\ object[id].capacity < Offset(id, addr) + IntBytes

Accesses(addr, id) ==
    /\ Found(addr, id)
    /\ Offset(id, addr) + IntBytes <= object[id].capacity

(* What a host int at this offset reads, and what a write to it leaves     *)
(* behind; an unaligned one touches two words and defines neither.         *)
ReadWord(chunk, offset) ==
    IF offset % IntBytes = 0
    THEN chunk.pointer[offset \div IntBytes]
    ELSE Indeterminate

WriteWord(chunk, offset, val) ==
    LET w == offset \div IntBytes
    IN  IF offset % IntBytes = 0
        THEN [chunk EXCEPT !.pointer[w] = val]
        ELSE [chunk EXCEPT !.pointer[w] = Indeterminate, !.pointer[w + 1] = Indeterminate]

-----------------------------------------------------------------------------
HeapInit ==
    /\ addressAccumulator = 0
    /\ chunks = << >>
    /\ object = << >>
    /\ allocated = 0
    /\ status = "running"
    /\ reply = << >>

Stop(how) ==
    /\ status' = how
    /\ UNCHANGED <<addressAccumulator, chunks, object, allocated, reply>>

Allocate(size) ==
    /\ status = "running"
    /\ allocated < MaxAllocation
    /\ allocated' = allocated + 1
    /\ object' = [id \in DOMAIN object \cup {allocated'} |->
                    IF id = allocated' THEN NewChunk(size) ELSE object[id]]
    /\ chunks' = Append(chunks, allocated')
    /\ addressAccumulator' = (addressAccumulator + Capacity(size)) % AddressSpace
    /\ reply' = <<"allocate", size, addressAccumulator>>
    /\ UNCHANGED status

(* The slots whose chunk begins at addr: release deletes all of these.     *)
BeginsAt(addr) ==
    {i \in DOMAIN chunks : chunks[i] # Null /\ object[chunks[i]].begin = addr}

KeptSlots_above(addr) ==                                              \* mutant
    {i \in DOMAIN chunks : object[chunks[i]].begin > addr}

KeptSlots(addr) == DOMAIN chunks \ BeginsAt(addr)

(* The n-th position of a set of them.                                     *)
Rank(positions, i) == Cardinality({j \in positions : j <= i})

Nth(positions, n) == CHOOSE i \in positions : Rank(positions, i) = n

Kept(addr) ==
    [n \in 1 .. Cardinality(KeptSlots(addr)) |-> chunks[Nth(KeptSlots(addr), n)]]

(* chunks.erase(remove_if(...)) with a single iterator: remove_if moves    *)
(* the kept pointers to the front and leaves what lies behind them, nulled *)
(* if its chunk was deleted; erase then takes out one slot, the first      *)
(* behind the kept ones.                                                   *)
AfterErase_not_nulled(addr) ==                                        \* mutant
    [i \in 1 .. Len(chunks) - 1 |->
        IF i <= Len(Kept(addr)) THEN Kept(addr)[i] ELSE chunks[i + 1]]

AfterErase(addr) ==
    LET kept == Len(Kept(addr))
        behind(i) == IF i \in BeginsAt(addr) THEN Null ELSE chunks[i]
    IN  [i \in 1 .. Len(chunks) - 1 |->
            IF i <= kept THEN Kept(addr)[i] ELSE behind(i + 1)]

(* The predicate reads through a null slot, or through a slot whose chunk  *)
(* the same call deleted through an earlier one.                           *)
ReleaseDangles(addr) ==
    \/ \E i \in DOMAIN chunks : chunks[i] = Null
    \/ \E i, j \in BeginsAt(addr) : i # j /\ chunks[i] = chunks[j]

Release(addr) ==
    /\ status = "running"
    /\ ~ReleaseDangles(addr)
    /\ BeginsAt(addr) # {}
    /\ chunks' = AfterErase(addr)
    /\ object' = [id \in DOMAIN object \ {chunks[i] : i \in BeginsAt(addr)} |-> object[id]]
    /\ reply' = <<"release", addr, 0>>
    /\ UNCHANGED <<addressAccumulator, allocated, status>>

(* remove_if finds nothing and erase is given end(): undefined behaviour,  *)
(* which crashes or only moves the end of the vector down by one slot.     *)
ReleaseNothing(addr) ==
    /\ status = "running"
    /\ ~ReleaseDangles(addr)
    /\ BeginsAt(addr) = {}
    /\ \/ Stop("undefined")
       \/ /\ chunks # << >>
          /\ chunks' = Front(chunks)
          /\ reply' = <<"release", addr, 0>>
          /\ UNCHANGED <<addressAccumulator, object, allocated, status>>

ReleaseCrashes(addr) ==
    /\ status = "running"
    /\ ReleaseDangles(addr)
    /\ Stop("undefined")

HeapSet(addr, val) ==
    /\ status = "running"
    /\ \E id \in DOMAIN object :
          /\ Accesses(addr, id)
          /\ object' = [object EXCEPT ![id] = WriteWord(@, Offset(id, addr), val)]
    /\ reply' = <<"set", addr, val>>
    /\ UNCHANGED <<addressAccumulator, chunks, allocated, status>>

HeapGet(addr) ==
    /\ status = "running"
    /\ \E id \in DOMAIN object :
          /\ Accesses(addr, id)
          /\ reply' = <<"get", addr, ReadWord(object[id], Offset(id, addr))>>
    /\ UNCHANGED <<addressAccumulator, chunks, object, allocated, status>>

AccessFails(addr) ==
    /\ status = "running"
    /\ \/ AccessAborts(addr) /\ Stop("aborted")
       \/ AccessUndefined(addr) /\ Stop("undefined")

(* The destructor deletes what each slot holds, a chunk that is in two     *)
(* slots twice.                                                            *)
Close_but_last ==                                                     \* mutant
    /\ status = "running"
    /\ \A i, j \in DOMAIN chunks : i # j /\ chunks[i] = chunks[j] => chunks[i] = Null
    /\ object' = [id \in DOMAIN object \ ToSet(SubSeq(chunks, 1, Len(chunks) - 1)) |-> object[id]]
    /\ chunks' = << >>
    /\ status' = "closed"
    /\ reply' = <<"close", 0, 0>>
    /\ UNCHANGED <<addressAccumulator, allocated>>

Close ==
    /\ status = "running"
    /\ \A i, j \in DOMAIN chunks : i # j /\ chunks[i] = chunks[j] => chunks[i] = Null
    /\ object' = [id \in DOMAIN object \ {chunks[i] : i \in DOMAIN chunks} |-> object[id]]
    /\ chunks' = << >>
    /\ status' = "closed"
    /\ reply' = <<"close", 0, 0>>
    /\ UNCHANGED <<addressAccumulator, allocated>>

CloseCrashes ==
    /\ status = "running"
    /\ \E i, j \in DOMAIN chunks : i # j /\ chunks[i] = chunks[j] /\ chunks[i] # Null
    /\ Stop("undefined")
=============================================================================
