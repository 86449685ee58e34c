---------------------------- MODULE GuestMemory ----------------------------
(***************************************************************************)
(* What the heap promises a C program that uses it properly: every block   *)
(* it allocated and has not released is an array of its own, a word reads  *)
(* as what was last stored in that word, and releasing one block disturbs  *)
(* no other.  Blocks are named by their number, not by an address.         *)
(***************************************************************************)
EXTENDS Naturals

CONSTANTS MaxAllocation, MaxSize, Value, Indeterminate

VARIABLES
    content,    \* the live blocks: number |-> index |-> word
    created,    \* how many blocks there ever were
    loaded      \* what the last load returned

vars == <<content, created, loaded>>

Nothing == << >>

Init == content = << >> /\ created = 0 /\ loaded = Nothing

Allocate(size) ==
    /\ created < MaxAllocation
    /\ created' = created + 1
    /\ content' = [b \in DOMAIN content \cup {created'} |->
                     IF b = created' THEN [i \in 0 .. size - 1 |-> Indeterminate]
                                     ELSE content[b]]
    /\ loaded' = Nothing

Release(block) ==
    /\ content' = [b \in DOMAIN content \ {block} |-> content[b]]
    /\ loaded' = Nothing
    /\ UNCHANGED created

Store(block, i, val) ==
    /\ content' = [content EXCEPT ![block][i] = val]
    /\ loaded' = Nothing
    /\ UNCHANGED created

Load(block, i) ==
    /\ loaded' = <<content[block][i]>>
    /\ UNCHANGED <<content, created>>

(* The program ends and with it all its blocks.                            *)
Exit ==
    /\ content' = << >>
    /\ loaded' = Nothing
    /\ UNCHANGED created

Next ==
    \/ Exit
    \/ \E size \in 0 .. MaxSize : Allocate(size)
    \/ \E block \in DOMAIN content :
          \/ Release(block)
          \/ \E i \in DOMAIN content[block] :
                Load(block, i) \/ \E val \in Value : Store(block, i, val)

Spec == Init /\ [][Next]_vars
=============================================================================
