------------------------- MODULE PointerAnalysisFact -------------------------
(***************************************************************************)
(* The points-to fact of Assignment 3 (class PointerAnalysisFact of        *)
(* src/Assignment3/PointerAnalysis.h) and its operations.                  *)
(*                                                                         *)
(* An LLVM value is a tuple whose first component is its class: "alloca",  *)
(* "mock" and "field" (AllocaInst objects, the last two made up by the     *)
(* analysis), "load", "call", "malloc" (a call of malloc) and "inst"       *)
(* (other instructions), "argument", "function", "int" (ConstantInt),      *)
(* "null" (ConstantPointerNull) and "global" (any other constant).  The    *)
(* second is its name; a call has the line of its debug location third.    *)
(*                                                                         *)
(* pointerContainer, objectContainer and the keys of pointToSetContainer   *)
(* always grow together (lines 66-69, 79-82, 181-188, 213-215), so all     *)
(* three are the domain of pts.  The inverse maps are left out where they  *)
(* add nothing: mockPointeeToPointerMapper altogether, and the values of   *)
(* fieldToStructMapper.  Operations return the fact they leave behind;     *)
(* what they look up is PointToSet.                                        *)
(***************************************************************************)
EXTENDS Naturals, Sequences, FiniteSets, Functions

EmptyFact ==
    [pts     |-> << >>,   \* pointToSetContainer: value |-> set of values
     field   |-> << >>,   \* structToFieldMapper
     fields  |-> {},      \* the keys of fieldToStructMapper
     pointee |-> << >>,   \* mockPointerToPointeeMapper
     arrays  |-> {},      \* isMockArrayContainer
     edges   |-> {},      \* callGraphContainer, as pairs
     fault   |-> "none"]  \* "assert" once an assertion has failed,
                          \* "undefined" once behaviour is undefined

IsAlloca(v) == v[1] \in {"alloca", "mock", "field"}

IsObject(v) == v[1] \notin {"null", "global"}

IsPointer(v) == v[1] # "global"

Fault(f, kind) == [f EXCEPT !.fault = IF @ = "none" THEN kind ELSE @]

Check(f, condition) == IF condition THEN f ELSE Fault(f, "assert")

(* operator==: neither the call graph nor the maps are compared.           *)
SameFact_never(f, g) == FALSE                                          \* mutant

SameFact(f, g) == f.pts = g.pts

PointToSet(f, v) == IF v \in DOMAIN f.pts THEN f.pts[v] ELSE {v}

(* TLC's f @@ g, which the provers do not know: f, and g where f is not.   *)
Override(f, g) ==
    [x \in DOMAIN f \cup DOMAIN g |-> IF x \in DOMAIN f THEN f[x] ELSE g[x]]

Put(f, v, value) == Override([x \in {v} |-> value], f)

With(f, v, S) == [f EXCEPT !.pts = Put(@, v, S)]

(* A value seen for the first time points to itself.                       *)
AddAll(f, V) == [f EXCEPT !.pts = Override(@, [v \in V |-> {v}])]

AddPointer(f, p) == AddAll(Check(f, IsPointer(p)), {p})

AddObject(f, o) == AddAll(Check(f, IsObject(o)), {o})

AddObjectSet(f, S) == AddAll(Check(f, \A o \in S : IsObject(o)), S)

AddPointTo_unregistered(f, p, o) ==                                    \* mutant
    LET g == AddPointer(f, p) IN With(g, p, PointToSet(g, p) \cup {o})

AddPointTo(f, p, o) ==
    LET g == AddObject(AddPointer(f, p), o) IN With(g, p, PointToSet(g, p) \cup {o})

RemovePointTo(f, p, o) ==
    LET g == AddPointer(f, p) IN With(g, p, PointToSet(g, p) \ {o})

UnionPointToSet(f, p, S) ==
    LET g == AddObjectSet(AddPointer(f, p), S) IN With(g, p, PointToSet(g, p) \cup S)

ClearPointToSet(f, p) == With(AddPointer(f, p), p, {})

(* getPointToSet of a set: the values in it that are pointers.             *)
PointToSetOfAll(f, S) == UNION {PointToSet(f, v) : v \in {v \in S : IsPointer(v)}}

UnionPts(a, b) ==
    [v \in DOMAIN a \cup DOMAIN b |->
        (IF v \in DOMAIN a THEN a[v] ELSE {}) \cup (IF v \in DOMAIN b THEN b[v] ELSE {})]

(* unionFact: points-to sets are united, the maps keep what they had and   *)
(* the call graph of the source is left behind.                            *)
UnionFact_known_nodes(dest, src) ==                                    \* mutant
    [dest EXCEPT !.pts     = [v \in DOMAIN @ |-> UnionPts(@, src.pts)[v]],
                 !.field   = Override(@, src.field),
                 !.fields  = @ \cup src.fields,
                 !.pointee = Override(@, src.pointee),
                 !.arrays  = @ \cup src.arrays]

UnionFact(dest, src) ==
    [Check(dest, \A v \in DOMAIN src.pts : \A o \in src.pts[v] : IsObject(o))
        EXCEPT !.pts     = UnionPts(@, src.pts),
               !.field   = Override(@, src.field),
               !.fields  = @ \cup src.fields,
               !.pointee = Override(@, src.pointee),
               !.arrays  = @ \cup src.arrays]

SetTop(f) == [f EXCEPT !.pts = [v \in DOMAIN @ |-> DOMAIN @]]

IsStruct(f, v) == v \in DOMAIN f.field

IsField(f, v) == v \in f.fields

AllStruct(f, S) == \A v \in S : IsStruct(f, v)

AllField(f, S) == \A v \in S : IsField(f, v)

AllStructOrField(f, S) == \A v \in S : IsStruct(f, v) \/ IsField(f, v)

AllNeither(f, S) == \A v \in S : ~IsStruct(f, v) /\ ~IsField(f, v)

AllPointToStruct(f, S) == \A v \in S : AllStruct(f, PointToSet(f, v))

(* getAllStructField and getAllMockPointerPointee, and the assertion that  *)
(* each value has one.                                                     *)
FieldsOf(f, S) == {f.field[v] : v \in S \cap DOMAIN f.field}

PointeesOf(f, S) == {f.pointee[v] : v \in S \cap DOMAIN f.pointee}

HavePointees(f, S) == S \subseteq DOMAIN f.pointee

SetStructField(f, struct, field) ==
    [f EXCEPT !.field = Put(@, struct, field), !.fields = @ \cup {field}]

(* A pointer is given one mock pointee: the object of its allocation site. *)
SetMockPointee(f, p, o) ==
    [Check(f, p \in DOMAIN f.pointee => f.pointee[p] = o)
        EXCEPT !.pointee = Override(@, [x \in {p} |-> o])]

AddCallEdge(f, from, to) == [f EXCEPT !.edges = @ \cup {<<from, to>>}]

-----------------------------------------------------------------------------
(* The points-to graph is closed: everything pointed to is a node.         *)
Closed(f) == \A v \in DOMAIN f.pts : f.pts[v] \subseteq DOMAIN f.pts

(* All a fact has.                                                         *)
IsFact(f) ==
    f = [pts |-> f.pts, field |-> f.field, fields |-> f.fields, pointee |-> f.pointee,
         arrays |-> f.arrays, edges |-> f.edges, fault |-> f.fault]

(* What the maps relate are nodes too, and a field belongs to a struct.    *)
MapsAreNodes(f) ==
    /\ DOMAIN f.field \cup Range(f.field) \subseteq DOMAIN f.pts
    /\ DOMAIN f.pointee \cup Range(f.pointee) \subseteq DOMAIN f.pts
    /\ Range(f.field) \subseteq f.fields
    /\ f.arrays \subseteq DOMAIN f.pts
=============================================================================
