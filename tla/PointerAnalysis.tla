--------------------------- MODULE PointerAnalysis ---------------------------
(***************************************************************************)
(* The transfer functions of the points-to analysis (PointerAnalysis.h,    *)
(* lines 422-1197): one operator per transferFact..., then transferInst    *)
(* for every instruction that is not a call of a function, which are the   *)
(* ones that do not analyse another function.                              *)
(*                                                                         *)
(* An instruction is a record; its constructors are below.  A type is the  *)
(* sequence of its layers, <<"pointer", "struct">> or <<"array", "scalar">>*)
(***************************************************************************)
EXTENDS PointerAnalysisFact, SequencesExt

Alloca(v, type) == [op |-> "alloca", value |-> v, type |-> type]
Load(v, p) == [op |-> "load", value |-> v, pointer |-> p]
Store(val, p) == [op |-> "store", operand |-> val, pointer |-> p]
(* A store of an argument; its type matters at an entry point.             *)
StoreArgument(arg, p, type) ==
    [op |-> "store", operand |-> arg, pointer |-> p, type |-> type]
(* The name clang gives a getelementptr that is not into a struct tells    *)
(* what it is: "arrayid...", "arraydecay...", or anything else.            *)
GetElementPtr(v, p, kind) == [op |-> "gep", value |-> v, pointer |-> p, kind |-> kind]
BitCast(v, val, type) == [op |-> "bitcast", value |-> v, operand |-> val, type |-> type]
MemCpy(dest, src) == [op |-> "memcpy", pointer |-> dest, operand |-> src]
MemSet(dest, val) == [op |-> "memset", pointer |-> dest, operand |-> val]
Call(v, callee, args) ==
    [op |-> "call", value |-> v, callee |-> callee, args |-> args]
(* A call through a register that was loaded from p.                       *)
CallLoaded(v, callee, p, args) ==
    [op |-> "call", value |-> v, callee |-> callee, args |-> args, loadedFrom |-> p]
Return(val) == [op |-> "ret", operand |-> val]
ReturnVoid == [op |-> "ret"]

(* The values an instruction names, and the types its transfer looks at.   *)
OperandsOf(op) ==
    CASE op = "alloca" -> {"value"}
      [] op \in {"load", "gep"} -> {"value", "pointer"}
      [] op \in {"store", "memcpy", "memset"} -> {"operand", "pointer"}
      [] op = "bitcast" -> {"value", "operand"}
      [] op = "call" -> {"value", "callee", "args"}
      [] op = "ret" -> {}

MakesObjects(i) ==
    i.op \in {"alloca", "bitcast"} \/ (i.op = "store" /\ i.operand[1] = "argument")

IsInstruction(i) ==
    /\ i.op \in {"alloca", "load", "store", "gep", "bitcast", "memcpy", "memset", "call", "ret"}
    /\ OperandsOf(i.op) \subseteq DOMAIN i
    /\ MakesObjects(i) => i.type \in Seq(STRING)

(* A value of a module whose functions are F.                              *)
Known(v, F) == v[1] = "function" => v \in F

KnownOperands(i, F) ==
    /\ "value" \in DOMAIN i => Known(i.value, F)
    /\ "pointer" \in DOMAIN i => Known(i.pointer, F)
    /\ "operand" \in DOMAIN i => Known(i.operand, F)

-----------------------------------------------------------------------------
Reference(f, l, r) == AddPointTo(ClearPointToSet(f, l), l, r)          \* l = &r

NonClearAssign(f, l, r) ==                                             \* l = r
    LET g == AddPointer(f, r)
    IN  RemovePointTo(UnionPointToSet(g, l, PointToSet(g, r)), l, l)

Assign_without_clear(f, l, r) ==                                       \* mutant
    LET g == AddPointer(f, r) IN UnionPointToSet(g, l, PointToSet(g, r))

Assign(f, l, r) ==                                                     \* l = r
    LET g == AddPointer(f, r)
    IN  UnionPointToSet(ClearPointToSet(g, l), l, PointToSet(g, r))

LoadThrough_top(f, l, r) ==                                            \* mutant
    IF PointToSet(f, r) = {} THEN SetTop(f)
    ELSE LET g == AddPointer(f, r)
         IN  UnionPointToSet(ClearPointToSet(g, l), l,
                             PointToSetOfAll(g, PointToSet(g, r)))

LoadThrough(f, l, r) ==                                                \* l = *r
    LET g == AddPointer(f, r)
    IN  UnionPointToSet(ClearPointToSet(g, l), l,
                        PointToSetOfAll(g, PointToSet(g, r)))

(* What a transfer through l starts with: both operands are asserted to be *)
(* pointers and the set of l is looked up.                                 *)
Through(f, l, r) == AddPointer(Check(f, IsPointer(r)), l)

(* Every pointee of l gets S added, and may lose itself.  The loops of     *)
(* lines 480, 547 and 615 iterate over the set of l: when l is its own     *)
(* pointee they change that set under the iterator.  That is undefined:    *)
(* beside l they visit any of the old and new pointees, those in seen.     *)
WeakUpdate(f, l, losesSelf, S, seen) ==
    LET pointees == PointToSet(f, l)
        new(v) == (PointToSet(f, v) \ {w \in {v} : losesSelf}) \cup S
        changed == l \in pointees /\ (losesSelf \/ new(l) # pointees)
        visited == IF changed THEN {l} \cup (seen \cap (pointees \cup S)) ELSE pointees
        g == AddObjectSet(f, S)
        h == [g EXCEPT !.pts = Override([v \in visited |-> new(v)], @)]
    IN  IF changed THEN Fault(h, "undefined") ELSE h

(* What such a loop may have visited when instruction i is over.           *)
Visits(f, i) ==
    LET S == PointToSet(f, i.pointer)
    IN  IF /\ i.op = "memcpy" \/ (i.op = "store" /\ ~IsAlloca(i.pointer))
           /\ i.pointer \in S
           /\ S # {i.pointer}
        THEN SUBSET ((DOMAIN f.pts \cup {i.operand}) \ {i.pointer})
        ELSE {{}}

StoreThrough(f, l, r, seen) ==                                         \* *l = r
    LET g == Through(f, l, r)
        pointees == PointToSet(g, l)
    IN  CASE pointees = {} -> SetTop(g)
          [] Cardinality(pointees) = 1 ->
               Assign(g, CHOOSE v \in pointees : TRUE, r)
          [] OTHER ->
               LET h == AddPointer(g, r)
                   S == PointToSet(h, r)
               IN  WeakUpdate(h, l, S # {}, S, seen)

(* A null stored to one of several pointees changes nothing.               *)
StoreNull(f, l) ==                                                     \* *l = nullptr
    LET g == AddPointer(f, l)
        pointees == PointToSet(g, l)
    IN  CASE pointees = {} -> SetTop(g)
          [] Cardinality(pointees) = 1 ->
               ClearPointToSet(g, CHOOSE v \in pointees : TRUE)
          [] OTHER -> g

ArrayStoreNull(f, l) ==                                                \* l[] = nullptr
    LET g == AddPointer(f, l)
        pointees == PointToSet(g, l)
        h == Check(g, pointees \subseteq g.arrays /\ HavePointees(g, pointees))
    IN  IF h.fault # "none" THEN h
        ELSE CASE pointees = {} -> SetTop(h)
               [] Cardinality(pointees) = 1 ->
                    ClearPointToSet(h, CHOOSE v \in PointeesOf(h, pointees) : TRUE)
               [] OTHER -> h

(* The copy of *r into the pointees of l, which are fields.                *)
LoadStoreField(f, l, r, seen) ==                                       \* *l = *r
    LET g == Through(f, l, r)
        pointees == PointToSet(g, l)
    IN  CASE pointees = {} -> SetTop(g)
          [] Cardinality(pointees) = 1 ->
               LoadThrough(g, CHOOSE v \in pointees : TRUE, r)
          [] OTHER ->
               LET h == AddPointer(g, r)
               IN  WeakUpdate(h, l, FALSE, PointToSetOfAll(h, PointToSet(h, r)), seen)

LoadStoreStruct(f, l, r) ==                                            \* *l._ = *r
    LET g == Through(f, l, r)
        h == Check(g, AllStruct(g, PointToSet(g, l)))
        targets == FieldsOf(h, PointToSet(h, l))
    IN  IF h.fault # "none" THEN h
        ELSE CASE targets = {} -> SetTop(h)
               [] Cardinality(targets) = 1 ->
                    LoadThrough(h, CHOOSE v \in targets : TRUE, r)
               [] OTHER ->
                    LET k == AddPointer(h, r)
                        S == PointToSetOfAll(k, PointToSet(k, r))
                    IN  [AddObjectSet(k, S) EXCEPT
                            !.pts = Override([v \in targets |-> PointToSet(k, v) \cup S], @)]

(* The structs the pointees of l point to, one after the other; setTop     *)
(* replaces the set the loop iterates over.                                *)
LoadStorePointer2Struct(f, l, r) ==                                    \* **l._ = *r
    LET g == Through(f, l, r)
        Copy(struct, h) ==
            LET k == LoadStoreStruct(h, struct, r)
            IN  IF PointToSet(h, struct) = {} THEN Fault(k, "undefined") ELSE k
    IN  FoldSet(Copy, g, PointToSet(g, l))

ReferenceStore(f, l, r, seen) ==                                       \* *l = &r
    LET g == Through(f, l, r)
        pointees == PointToSet(g, l)
    IN  CASE pointees = {} -> SetTop(g)
          [] Cardinality(pointees) = 1 ->
               Reference(g, CHOOSE v \in pointees : TRUE, r)
          [] OTHER -> WeakUpdate(g, l, FALSE, {r}, seen)

AssignSet(f, l, S) == UnionPointToSet(ClearPointToSet(f, l), l, S)

FieldReference(f, l, r) ==                                             \* l = &r.field
    LET g == Check(f, IsStruct(f, r))
    IN  IF g.fault # "none" THEN g ELSE Reference(g, l, g.field[r])

FieldAssign(f, l, r) == AssignSet(f, l, FieldsOf(f, PointToSet(f, r))) \* l = r.field

FieldLoad(f, l, r) ==                                                  \* l = (*r).field
    LET structs == PointToSetOfAll(f, PointToSet(f, r))
    IN  AssignSet(Check(f, AllStruct(f, structs)), l, FieldsOf(f, structs))

(* A struct stands for its field, a field for itself.                      *)
StructFieldHybrid(f, l, r) ==
    LET S == PointToSet(f, r)
    IN  AssignSet(f, l, FieldsOf(f, S) \cup {v \in S : ~IsStruct(f, v)})

ArrayAssign(f, l, r) ==                                                \* l = r[]
    LET g == AddPointer(f, r)
        arrays == PointToSet(g, r)
    IN  AssignSet(Check(g, HavePointees(g, arrays)), l, PointeesOf(g, arrays))

-----------------------------------------------------------------------------
MockField(f, struct, n) ==
    LET field == <<"field", struct, n>>
    IN  SetStructField(Reference(AddObject(f, field), struct, field), struct, field)

MockPointee(made, layer, n) ==
    LET o == <<"mock", made.last, n>>
        g == Reference(AddObject(made.fact, o), made.last, o)
        h == IF layer = "array" THEN [g EXCEPT !.arrays = @ \cup {o}] ELSE g
    IN  [fact |-> SetMockPointee(h, made.last, o), last |-> o]

(* The layers of a type that lead to another object.                       *)
Depth(type) ==
    Cardinality({i \in DOMAIN type : \A j \in 1 .. i : type[j] \in {"pointer", "array"}})

(* mockObject: fresh objects for what a pointer or array of this type      *)
(* leads to, a chain of them, ending in the field of a struct.  Number n   *)
(* is new in every call: a second visit makes other objects.               *)
MockObject(f, v, type, n) ==
    LET depth == Depth(type)
        mocked == FoldLeft(LAMBDA made, layer : MockPointee(made, layer, n),
                           [fact |-> f, last |-> v], SubSeq(type, 1, depth))
    IN  IF type[depth + 1] = "struct" THEN MockField(mocked.fact, mocked.last, n)
        ELSE mocked.fact

TransferAlloca(f, i, n) ==
    CASE Head(i.type) = "pointer" -> AddPointer(f, i.value)
      [] Head(i.type) \in {"struct", "array"} ->
           MockObject(AddObject(f, i.value), i.value, i.type, n)
      [] OTHER -> AddObject(f, i.value)

TransferLoad(f, i) ==
    IF IsAlloca(i.pointer)
    THEN Assign(f, i.value, i.pointer)
    ELSE LoadThrough(f, i.value, i.pointer)

(* The parameter of an entry point is an object of its own, with mocked    *)
(* contents; that of a callee holds what the caller passed.                *)
TransferStoreArgument(f, i, isEntrypoint, n, seen) ==
    LET store == IF IsAlloca(i.pointer)
                 THEN IF isEntrypoint THEN Reference(AddObject(f, i.operand), i.pointer, i.operand)
                                      ELSE Assign(f, i.pointer, i.operand)
                 ELSE StoreThrough(IF isEntrypoint THEN AddObject(f, i.operand) ELSE f,
                                   i.pointer, i.operand, seen)
    IN  IF isEntrypoint THEN MockObject(store, i.operand, i.type, n) ELSE store

StoreValue(f, l, r, seen) ==
    IF IsAlloca(l)
    THEN CASE r[1] = "int"  -> f
           [] r[1] = "null" -> ClearPointToSet(f, l)
           [] OTHER         -> Assign(f, l, r)
    ELSE IF r[1] = "null" THEN StoreNull(f, l) ELSE StoreThrough(f, l, r, seen)

TransferStore(f, i, isEntrypoint, n, seen) ==
    LET l == i.pointer
        r == i.operand
    IN  CASE r[1] = "argument" -> TransferStoreArgument(f, i, isEntrypoint, n, seen)
          [] IsAlloca(r) -> IF IsAlloca(l) THEN Reference(f, l, r)
                                         ELSE ReferenceStore(f, l, r, seen)
          [] OTHER -> StoreValue(f, l, r, seen)

TransferStructGetElemPtr(f, l, r) ==
    LET g == AddPointer(f, r)
        S == PointToSet(g, r)
        emptyOrAmbiguous == AllStruct(g, S) /\ AllField(g, S)
    IN  IF IsAlloca(r) THEN FieldReference(f, l, r)
        ELSE IF emptyOrAmbiguous THEN Fault(g, "assert")
        ELSE IF AllStruct(g, S) THEN FieldAssign(g, l, r)
        ELSE IF AllField(g, S) THEN Assign(g, l, r)
        ELSE IF AllStructOrField(g, S) THEN StructFieldHybrid(g, l, r)
        ELSE IF AllNeither(g, S) THEN FieldLoad(g, l, r)
        ELSE Fault(g, "assert")

TransferGetElemPtr(f, i) ==
    CASE i.kind = "struct" -> TransferStructGetElemPtr(f, i.value, i.pointer)
      [] i.kind = "arrayid" -> ArrayAssign(f, i.value, i.pointer)
      [] i.kind = "arraydecay" -> Assign(f, i.value, i.pointer)
      [] OTHER -> f

(* Only a cast of what malloc returned makes an object; a cast of another  *)
(* call's result is not looked at.                                         *)
TransferBitCast(f, i, n) ==
    CASE i.operand[1] = "malloc" -> MockObject(f, i.value, i.type, n)
      [] i.operand[1] = "call" -> f
      [] OTHER -> Assign(f, i.value, i.operand)

TransferMemCpy(f, i, seen) ==
    LET l == i.pointer
        g == AddPointer(f, l)
        S == PointToSet(g, l)
    IN  IF AllStruct(g, S) THEN LoadStoreStruct(g, l, i.operand)
        ELSE IF AllField(g, S) THEN LoadStoreField(g, l, i.operand, seen)
        ELSE IF AllPointToStruct(g, S) THEN LoadStorePointer2Struct(g, l, i.operand)
        ELSE Fault(g, "assert")

TransferMemSet(f, i) ==
    LET g == AddPointer(f, i.pointer)
        S == PointToSet(g, i.pointer)
    IN  IF i.operand # <<"int", 0>> THEN Fault(f, "assert")
        ELSE IF S \subseteq g.arrays THEN ArrayStoreNull(g, i.pointer)
        ELSE IF S \cap g.arrays = {} THEN StoreNull(g, i.pointer)
        ELSE Fault(g, "assert")

TransferInst(f, i, isEntrypoint, n, seen) ==
    CASE i.op = "alloca"  -> TransferAlloca(f, i, n)
      [] i.op = "store"   -> TransferStore(f, i, isEntrypoint, n, seen)
      [] i.op = "load"    -> TransferLoad(f, i)
      [] i.op = "gep"     -> TransferGetElemPtr(f, i)
      [] i.op = "bitcast" -> TransferBitCast(f, i, n)
      [] i.op = "memcpy"  -> TransferMemCpy(f, i, seen)
      [] i.op = "memset"  -> TransferMemSet(f, i)
      [] i.op = "ret"     -> f
=============================================================================
