---------------------------- MODULE PointerTransfer ----------------------------
(***************************************************************************)
(* One transfer function applied to two facts, of which one says no more   *)
(* than the other: does the order survive?  analyzeForward asks for that   *)
(* (src/Assignment3/Dataflow.h, 114-116), and a fact must stay a closed    *)
(* graph whatever instruction it goes through.                             *)
(***************************************************************************)
EXTENDS PointerAnalysis

CONSTANTS
    Fact,           \* facts about the same nodes and objects
    Instructions    \* the instructions tried

(* A field is an object of its own, never a struct in turn.                *)
ASSUME FactAssumption ==
    /\ \A f \in Fact : /\ IsFact(f) /\ IsFiniteSet(DOMAIN f.pts)
                       /\ Closed(f) /\ MapsAreNodes(f)
                       /\ DOMAIN f.field \cap f.fields = {}
    /\ \A f, g \in Fact : /\ DOMAIN f.pts = DOMAIN g.pts
                          /\ f.field = g.field /\ f.fields = g.fields
                          /\ f.pointee = g.pointee /\ f.arrays = g.arrays

ASSUME InstructionsAssumption ==
    \A i \in Instructions : IsInstruction(i) /\ i.op # "call"

VARIABLES smaller, larger, instruction, transferred

vars == <<smaller, larger, instruction, transferred>>

Below(f, g) == \A v \in DOMAIN f.pts : f.pts[v] \subseteq PointToSet(g, v)

Init ==
    /\ smaller \in Fact
    /\ larger \in Fact
    /\ Below(smaller, larger)
    /\ instruction \in Instructions
    /\ transferred = FALSE

(* No activation of analyzeForward for a callee is an entry point.         *)
Transfer ==
    /\ ~transferred
    /\ \E seen \in Visits(smaller, instruction) :
          smaller' = TransferInst(smaller, instruction, FALSE, 0, seen)
    /\ \E seen \in Visits(larger, instruction) :
          larger' = TransferInst(larger, instruction, FALSE, 0, seen)
    /\ transferred' = TRUE
    /\ UNCHANGED instruction

Next == Transfer

Spec == Init /\ [][Next]_vars

-----------------------------------------------------------------------------
(* A store or copy through a pointer whose pointees the fact must tell.    *)
(* With none it is top, with one a strong update, else a weak one: these   *)
(* are not monotone (lines 468-485, 489-524, 533-552, 561-580).            *)
ThroughPointer(i) ==
    \/ i.op \in {"memcpy", "memset"}
    \/ i.op = "store" /\ ~IsAlloca(i.pointer)

(* All other transfer functions keep the order of two facts none of their  *)
(* assertions rejects: the caller of analyzeForward must ensure that its   *)
(* function is monotone, as otherwise the fixedpoint may not terminate.    *)
Monotone ==
    ~ThroughPointer(instruction) /\ smaller.fault = "none" /\ larger.fault = "none"
        => Below(smaller, larger)

(* No transfer function leaves a value in a points-to set that is not a    *)
(* node, nor a struct without its field, even in the fact whose assertion  *)
(* fails, and whatever the loops visit whose set changes under them        *)
(* (addObjectSet, setStructField of PointerAnalysisFact).                  *)
StaysClosed == \A f \in {smaller, larger} : Closed(f) /\ MapsAreNodes(f)
=============================================================================
