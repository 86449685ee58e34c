------------------------- MODULE PointerTransfer_proofs -------------------------
(***************************************************************************)
(* StaysClosed and Monotone of PointerTransfer, for every set of facts     *)
(* about the same nodes and every set of instructions.                     *)
(***************************************************************************)
EXTENDS PointerTransfer, PointerAnalysis_proofs

-----------------------------------------------------------------------------
(* Every value there is: each function is one of them.                     *)
Values ==
    (UNION {DOMAIN f.pts : f \in Fact}) \cup (UNION {Range(i) : i \in Instructions})

LEMMA FactsAreGood ==
    ASSUME NEW f \in Fact
    PROVE  Good(f, Values)
<1>1. IsFact(f) /\ IsFiniteSet(DOMAIN f.pts) /\ Closed(f) /\ MapsAreNodes(f)
  BY FactAssumption
<1>2. DOMAIN f.pts \subseteq Values
  BY DEF Values
<1>3. \A v \in DOMAIN f.pts : Known(v, Values)
  BY <1>2 DEF Known
<1> QED
  BY <1>1, <1>3, Zenon DEF Good

LEMMA OperandsAreKnown ==
    ASSUME NEW i \in Instructions
    PROVE  IsInstruction(i) /\ i.op # "call" /\ KnownOperands(i, Values)
<1>1. Range(i) \subseteq Values
  BY DEF Values
<1>2. \A x \in DOMAIN i : i[x] \in Values
  BY <1>1 DEF Range
<1> QED
  BY <1>2, InstructionsAssumption DEF KnownOperands, Known

ClosedInv == instruction \in Instructions /\ Good(smaller, Values) /\ Good(larger, Values)

LEMMA InitClosed ==
    Init => ClosedInv
BY FactsAreGood DEF Init, ClosedInv

LEMMA NextClosed ==
    ClosedInv /\ [Next]_vars => ClosedInv'
<1> SUFFICES ASSUME ClosedInv, [Next]_vars PROVE ClosedInv'
  OBVIOUS
<1>1. CASE Transfer
  <2>1. IsInstruction(instruction) /\ instruction.op # "call" /\ KnownOperands(instruction, Values)
    BY OperandsAreKnown DEF ClosedInv
  <2>2. Good(smaller', Values)
    BY <1>1, <2>1, GoodTransferInst DEF ClosedInv, Transfer
  <2>3. Good(larger', Values)
    BY <1>1, <2>1, GoodTransferInst DEF ClosedInv, Transfer
  <2> QED
    BY <1>1, <2>2, <2>3 DEF ClosedInv, Transfer
<1>2. CASE UNCHANGED vars
  BY <1>2 DEF vars, ClosedInv
<1> QED
  BY <1>1, <1>2 DEF Next

(* Whatever the fact and the instruction, everything pointed to is a node  *)
(* of the graph afterwards and the maps relate nodes (every transferFact...*)
(* of PointerAnalysis.h registers what it puts into a points-to set).      *)
THEOREM TransferStaysClosed ==
    Spec => []StaysClosed
<1>1. ClosedInv => StaysClosed
  BY DEF ClosedInv, Good, StaysClosed
<1> QED
  BY <1>1, InitClosed, NextClosed, PTL DEF Spec

-----------------------------------------------------------------------------
(* The order of two facts, in which a value not seen yet points to itself. *)
Leq(f, g) == \A w : PointToSet(f, w) \subseteq PointToSet(g, w)

Order(f, g) == IsFact(f) /\ IsFact(g) /\ SameMaps(f, g) /\ Leq(f, g)

LEMMA OrderIsBelow ==
    ASSUME NEW f, NEW g, Order(f, g)
    PROVE  Below(f, g)
<1>1. \A v \in DOMAIN f.pts : PointToSet(f, v) = f.pts[v]
  BY DEF PointToSet
<1> QED
  BY <1>1 DEF Order, Leq, Below

LEMMA FactsInOrder ==
    ASSUME NEW f \in Fact, NEW g \in Fact, Below(f, g)
    PROVE  Order(f, g)
<1>1. IsFact(f) /\ IsFact(g) /\ SameMaps(f, g) /\ DOMAIN f.pts = DOMAIN g.pts
  BY FactAssumption DEF SameMaps
<1>2. Leq(f, g)
  BY <1>1 DEF Leq, Below, PointToSet
<1> QED
  BY <1>1, <1>2 DEF Order

(* Two changes of graphs in order, of which one gives the other's values.  *)
LEMMA OrderRegraphed ==
    ASSUME NEW f, NEW g, Order(f, g), NEW V, NEW W, NEW h, NEW k,
           Regraphed(f, h, V), Regraphed(g, k, W), Leq(h, k)
    PROVE  Order(h, k)
BY DEF Order, Regraphed, SameMaps

LEMMA OrderPointees ==
    ASSUME NEW f, NEW g, Leq(f, g), NEW S, NEW T, S \subseteq T
    PROVE  PointToSetOfAll(f, S) \subseteq PointToSetOfAll(g, T)
BY DEF Leq, PointToSetOfAll

LEMMA OrderMaps ==
    ASSUME NEW f, NEW g, SameMaps(f, g), NEW S, NEW T, S \subseteq T
    PROVE  /\ FieldsOf(f, S) \subseteq FieldsOf(g, T)
           /\ PointeesOf(f, S) \subseteq PointeesOf(g, T)
BY DEF SameMaps, FieldsOf, PointeesOf

LEMMA OrderCheck ==
    ASSUME NEW f, NEW g, Order(f, g), NEW p, NEW q
    PROVE  Order(Check(f, p), Check(g, q))
<1> DEFINE h == Check(f, p)
           k == Check(g, q)
<1>1. /\ IsFact(h) /\ SameMaps(f, h) /\ h.pts = f.pts
      /\ IsFact(k) /\ SameMaps(g, k) /\ k.pts = g.pts
  BY CheckIs DEF Order
<1> HIDE DEF h, k
<1>2. Order(h, k)
  BY <1>1 DEF Order, SameMaps, Leq, PointToSet
<1> QED
  BY <1>2 DEF h, k

LEMMA OrderAddPointer ==
    ASSUME NEW f, NEW g, Order(f, g), NEW p
    PROVE  Order(AddPointer(f, p), AddPointer(g, p))
<1> DEFINE h == AddPointer(f, p)
           k == AddPointer(g, p)
<1>1. /\ Regraphed(f, h, {p}) /\ \A w : PointToSet(h, w) = PointToSet(f, w)
      /\ Regraphed(g, k, {p}) /\ \A w : PointToSet(k, w) = PointToSet(g, w)
  BY AddPointerIs DEF Order
<1> HIDE DEF h, k
<1>2. Leq(h, k)
  BY <1>1 DEF Order, Leq
<1>3. Order(h, k)
  BY <1>1, <1>2, OrderRegraphed
<1> QED
  BY <1>3 DEF h, k

LEMMA OrderAddObject ==
    ASSUME NEW f, NEW g, Order(f, g), NEW o
    PROVE  Order(AddObject(f, o), AddObject(g, o))
<1> DEFINE h == AddObject(f, o)
           k == AddObject(g, o)
<1>1. /\ Regraphed(f, h, {o}) /\ \A w : PointToSet(h, w) = PointToSet(f, w)
      /\ Regraphed(g, k, {o}) /\ \A w : PointToSet(k, w) = PointToSet(g, w)
  BY AddObjectIs DEF Order
<1> HIDE DEF h, k
<1>2. Leq(h, k)
  BY <1>1 DEF Order, Leq
<1>3. Order(h, k)
  BY <1>1, <1>2, OrderRegraphed
<1> QED
  BY <1>3 DEF h, k

LEMMA OrderClearPointToSet ==
    ASSUME NEW f, NEW g, Order(f, g), NEW p
    PROVE  Order(ClearPointToSet(f, p), ClearPointToSet(g, p))
<1> DEFINE h == ClearPointToSet(f, p)
           k == ClearPointToSet(g, p)
<1>0. h = ClearPointToSet(f, p) /\ k = ClearPointToSet(g, p) /\ IsFact(f) /\ IsFact(g)
  BY DEF Order
<1> HIDE DEF h, k
<1>1. /\ Regraphed(f, h, {p}) /\ \A w : PointToSet(h, w) = IF w = p THEN {} ELSE PointToSet(f, w)
      /\ Regraphed(g, k, {p}) /\ \A w : PointToSet(k, w) = IF w = p THEN {} ELSE PointToSet(g, w)
  BY <1>0, ClearPointToSetIs
<1>2. Leq(h, k)
  BY <1>1 DEF Order, Leq
<1>3. Order(h, k)
  BY <1>1, <1>2, OrderRegraphed
<1> QED
  BY <1>3 DEF h, k

LEMMA OrderReference ==
    ASSUME NEW f, NEW g, Order(f, g), NEW l, NEW r
    PROVE  Order(Reference(f, l, r), Reference(g, l, r))
<1> DEFINE h == Reference(f, l, r)
           k == Reference(g, l, r)
<1>0. h = Reference(f, l, r) /\ k = Reference(g, l, r) /\ IsFact(f) /\ IsFact(g)
  BY DEF Order
<1> HIDE DEF h, k
<1>1. /\ Regraphed(f, h, {l, r}) /\ \A w : PointToSet(h, w) = IF w = l THEN {r} ELSE PointToSet(f, w)
      /\ Regraphed(g, k, {l, r}) /\ \A w : PointToSet(k, w) = IF w = l THEN {r} ELSE PointToSet(g, w)
  BY <1>0, ReferenceIs
<1>2. Leq(h, k)
  BY <1>1 DEF Order, Leq
<1>3. Order(h, k)
  BY <1>1, <1>2, OrderRegraphed
<1> QED
  BY <1>3 DEF h, k

LEMMA OrderAssignSet ==
    ASSUME NEW f, NEW g, Order(f, g), NEW l, NEW S, NEW T, S \subseteq T
    PROVE  Order(AssignSet(f, l, S), AssignSet(g, l, T))
<1> DEFINE h == AssignSet(f, l, S)
           k == AssignSet(g, l, T)
<1>0. h = AssignSet(f, l, S) /\ k = AssignSet(g, l, T) /\ IsFact(f) /\ IsFact(g)
  BY DEF Order
<1> HIDE DEF h, k
<1>1. /\ Regraphed(f, h, {l} \cup S) /\ \A w : PointToSet(h, w) = IF w = l THEN S ELSE PointToSet(f, w)
      /\ Regraphed(g, k, {l} \cup T) /\ \A w : PointToSet(k, w) = IF w = l THEN T ELSE PointToSet(g, w)
  BY <1>0, AssignSetIs
<1>2. Leq(h, k)
  BY <1>1 DEF Order, Leq
<1>3. Order(h, k)
  BY <1>1, <1>2, OrderRegraphed
<1> QED
  BY <1>3 DEF h, k

(* A graph's assignment is of a set of values, at a place.                 *)
LEMMA AssignIsOfSet ==
    ASSUME NEW f, NEW l, NEW r, NEW h, h = AddPointer(f, r)
    PROVE  /\ Assign(f, l, r) = AssignSet(h, l, PointToSet(h, r))
           /\ LoadThrough(f, l, r) = AssignSet(h, l, PointToSetOfAll(h, PointToSet(h, r)))
BY Zenon DEF Assign, LoadThrough, AssignSet

LEMMA OrderAssign ==
    ASSUME NEW f, NEW g, Order(f, g), NEW l, NEW r
    PROVE  /\ Order(Assign(f, l, r), Assign(g, l, r))
           /\ Order(LoadThrough(f, l, r), LoadThrough(g, l, r))
<1> DEFINE h == AddPointer(f, r)
           k == AddPointer(g, r)
<1>1. /\ Assign(f, l, r) = AssignSet(h, l, PointToSet(h, r))
      /\ Assign(g, l, r) = AssignSet(k, l, PointToSet(k, r))
      /\ LoadThrough(f, l, r) = AssignSet(h, l, PointToSetOfAll(h, PointToSet(h, r)))
      /\ LoadThrough(g, l, r) = AssignSet(k, l, PointToSetOfAll(k, PointToSet(k, r)))
  BY AssignIsOfSet
<1>2. Order(h, k)
  BY OrderAddPointer
<1> HIDE DEF h, k
<1>3. Leq(h, k) /\ PointToSet(h, r) \subseteq PointToSet(k, r)
  BY <1>2 DEF Order, Leq
<1>4. PointToSetOfAll(h, PointToSet(h, r)) \subseteq PointToSetOfAll(k, PointToSet(k, r))
  BY <1>3, OrderPointees
<1> QED
  BY <1>1, <1>2, <1>3, <1>4, OrderAssignSet

-----------------------------------------------------------------------------
(* Mocked objects are the same in both facts.                              *)
LEMMA OrderMockField ==
    ASSUME NEW f, NEW g, Order(f, g), NEW struct, NEW n
    PROVE  Order(MockField(f, struct, n), MockField(g, struct, n))
<1> DEFINE field == <<"field", struct, n>>
           h == Reference(AddObject(f, field), struct, field)
           k == Reference(AddObject(g, field), struct, field)
<1>1. /\ MockField(f, struct, n) = SetStructField(h, struct, field)
      /\ MockField(g, struct, n) = SetStructField(k, struct, field)
  BY Zenon DEF MockField
<1> HIDE DEF field
<1>2. Order(h, k)
  BY OrderAddObject, OrderReference
<1> HIDE DEF h, k
<1> DEFINE a == SetStructField(h, struct, field)
           b == SetStructField(k, struct, field)
<1>3. /\ IsFact(a) /\ a.pts = h.pts /\ a.pointee = h.pointee /\ a.arrays = h.arrays
      /\ a.field = Put(h.field, struct, field) /\ a.fields = h.fields \cup {field}
      /\ IsFact(b) /\ b.pts = k.pts /\ b.pointee = k.pointee /\ b.arrays = k.arrays
      /\ b.field = Put(k.field, struct, field) /\ b.fields = k.fields \cup {field}
  BY <1>2, SetStructFieldIs DEF Order
<1> HIDE DEF a, b
<1>4. Order(a, b)
  BY <1>2, <1>3 DEF Order, SameMaps, Leq, PointToSet
<1> QED
  BY <1>1, <1>4 DEF a, b

InOrder(made, other) == Order(made.fact, other.fact) /\ made.last = other.last

LEMMA OrderMockPointee ==
    ASSUME NEW made, NEW other, InOrder(made, other), NEW layer, NEW n
    PROVE  InOrder(MockPointee(made, layer, n), MockPointee(other, layer, n))
<1> DEFINE p == made.last
           o == <<"mock", p, n>>
           Referred(f) == Reference(AddObject(f, o), p, o)
           Marked(f) == IF layer = "array" THEN [f EXCEPT !.arrays = @ \cup {o}] ELSE f
           f == Referred(made.fact)
           g == Referred(other.fact)
           h == Marked(f)
           k == Marked(g)
<1>1. /\ MockPointee(made, layer, n) = [fact |-> SetMockPointee(h, p, o), last |-> o]
      /\ MockPointee(other, layer, n) = [fact |-> SetMockPointee(k, p, o), last |-> o]
  <2>1. other.last = p
    BY DEF InOrder
  <2> QED
    BY <2>1, Zenon DEF MockPointee
<1> HIDE DEF o
<1>2. Order(f, g)
  BY OrderAddObject, OrderReference DEF InOrder
<1> HIDE DEF f, g
<1>3. Order(h, k)
  BY <1>2 DEF Order, SameMaps, Leq, PointToSet, IsFact
<1> HIDE DEF h, k
<1>4. Order(SetMockPointee(h, p, o), SetMockPointee(k, p, o))
  <2> DEFINE hc == Check(h, p \in DOMAIN h.pointee => h.pointee[p] = o)
             kc == Check(k, p \in DOMAIN k.pointee => k.pointee[p] = o)
             mapped == [x \in {p} |-> o]
  <2>1. /\ SetMockPointee(h, p, o) = [hc EXCEPT !.pointee = Override(hc.pointee, mapped)]
        /\ SetMockPointee(k, p, o) = [kc EXCEPT !.pointee = Override(kc.pointee, mapped)]
    BY Zenon DEF SetMockPointee
  <2>2. Order(hc, kc)
    BY <1>3, OrderCheck
  <2> HIDE DEF hc, kc, mapped
  <2>3. kc.pointee = hc.pointee
    BY <2>2 DEF Order, SameMaps
  <2> DEFINE pointee == Override(hc.pointee, mapped)
  <2>4. /\ SetMockPointee(h, p, o) = [hc EXCEPT !.pointee = pointee]
        /\ SetMockPointee(k, p, o) = [kc EXCEPT !.pointee = pointee]
    BY <2>1, <2>3
  <2> HIDE DEF pointee
  <2> QED
    BY <2>2, <2>4 DEF Order, SameMaps, Leq, PointToSet, IsFact
<1> QED
  BY <1>1, <1>4 DEF InOrder

Ordering == INSTANCE FoldLemmas WITH
    Step <- LAMBDA c, layer, made : MockPointee(made, layer, c.n),
    Item <- LAMBDA c, i : c.layers[i],
    Pick <- LAMBDA s : Max(s),
    Related <- LAMBDA c, made, other : InOrder(made, other)

LEMMA MockObjectIsFold ==
    ASSUME NEW f, NEW v, NEW type, NEW n, NEW c, c = [n |-> n, layers |-> Layers(type)],
           NEW mocked, mocked = Ordering!Fold(c, [fact |-> f, last |-> v], DOMAIN Layers(type))
    PROVE  MockObject(f, v, type, n) =
              IF type[Depth(type) + 1] = "struct" THEN MockField(mocked.fact, mocked.last, n)
              ELSE mocked.fact
<1> DEFINE base == [fact |-> f, last |-> v]
           chain == FoldLeft(LAMBDA made, layer : MockPointee(made, layer, n), base, Layers(type))
           d == [n |-> n, layers |-> Layers(type)]
<1>1. MockObject(f, v, type, n) =
        IF type[Depth(type) + 1] = "struct" THEN MockField(chain.fact, chain.last, n)
        ELSE chain.fact
  BY Zenon DEF MockObject, Layers
<1>2. chain = Ordering!Fold(d, base, DOMAIN Layers(type))
  BY Zenon DEF FoldLeft, Ordering!Fold, MapThenFoldSet, Ordering!MapThenFoldSet
<1> QED
  BY <1>1, <1>2, Zenon

LEMMA OrderMockObject ==
    ASSUME NEW f, NEW g, Order(f, g), NEW v, NEW type \in Seq(STRING), NEW n
    PROVE  Order(MockObject(f, v, type, n), MockObject(g, v, type, n))
<1> DEFINE made == [fact |-> f, last |-> v]
           other == [fact |-> g, last |-> v]
           c == [n |-> n, layers |-> Layers(type)]
           S == DOMAIN Layers(type)
           a == Ordering!Fold(c, made, S)
           b == Ordering!Fold(c, other, S)
<1>1. /\ MockObject(f, v, type, n) =
            IF type[Depth(type) + 1] = "struct" THEN MockField(a.fact, a.last, n) ELSE a.fact
      /\ MockObject(g, v, type, n) =
            IF type[Depth(type) + 1] = "struct" THEN MockField(b.fact, b.last, n) ELSE b.fact
  <2>1. /\ c = [n |-> n, layers |-> Layers(type)]
        /\ a = Ordering!Fold(c, [fact |-> f, last |-> v], DOMAIN Layers(type))
        /\ b = Ordering!Fold(c, [fact |-> g, last |-> v], DOMAIN Layers(type))
    OBVIOUS
  <2> HIDE DEF a, b, c
  <2> QED
    BY <2>1, MockObjectIsFold
<1>2. S = 1 .. Depth(type) /\ Depth(type) \in Nat
  BY LayersDomain
<1>8. IsFiniteSet(S) /\ S \subseteq Nat
  BY <1>2, FS_Interval
<1> HIDE DEF S
<1>3. Ordering!IsFiniteSet(S) /\ Ordering!Picks(S)
  <2>1. Ordering!IsFiniteSet(S)
    BY <1>8 DEF IsFiniteSet, Ordering!IsFiniteSet
  <2> QED
    BY <1>8, <2>1, MaxPicks, Zenon DEF Ordering!Picks
<1>4. InOrder(made, other)
  BY DEF InOrder
<1> HIDE DEF made, other, c
<1>5. \A x \in S : \A p, q :
         InOrder(p, q) => InOrder(MockPointee(p, c.layers[x], c.n), MockPointee(q, c.layers[x], c.n))
  BY OrderMockPointee
<1>6. InOrder(a, b)
  BY <1>3, <1>4, <1>5, Ordering!FoldKeeps, Zenon
<1> HIDE DEF a, b
<1>7. Order(MockField(a.fact, a.last, n), MockField(b.fact, b.last, n)) /\ Order(a.fact, b.fact)
  BY <1>6, OrderMockField DEF InOrder
<1> QED
  BY <1>1, <1>7

-----------------------------------------------------------------------------
(* The transfer functions that keep the order, when no assertion fails.    *)
LEMMA FaultIsSeen ==
    ASSUME NEW f, NEW kind, IsFact(f), kind # "none"
    PROVE  Fault(f, kind).fault # "none"
<1> DEFINE g == Fault(f, kind)
<1>1. g.fault = IF f.fault = "none" THEN kind ELSE f.fault
  BY FaultIs
<1> QED
  BY <1>1

LEMMA OrderTransferAlloca ==
    ASSUME NEW f, NEW g, Order(f, g), NEW i, i.type \in Seq(STRING), NEW n
    PROVE  Order(TransferAlloca(f, i, n), TransferAlloca(g, i, n))
<1>1. /\ Order(AddPointer(f, i.value), AddPointer(g, i.value))
      /\ Order(AddObject(f, i.value), AddObject(g, i.value))
  BY OrderAddPointer, OrderAddObject
<1>2. Order(MockObject(AddObject(f, i.value), i.value, i.type, n),
            MockObject(AddObject(g, i.value), i.value, i.type, n))
  BY <1>1, OrderMockObject
<1> QED
  BY <1>1, <1>2 DEF TransferAlloca

LEMMA OrderTransferLoad ==
    ASSUME NEW f, NEW g, Order(f, g), NEW i
    PROVE  Order(TransferLoad(f, i), TransferLoad(g, i))
BY OrderAssign DEF TransferLoad

(* A store to a local variable.                                            *)
LEMMA OrderTransferStore ==
    ASSUME NEW f, NEW g, Order(f, g), NEW i, IsAlloca(i.pointer), NEW n,
           NEW seen, NEW other
    PROVE  Order(TransferStore(f, i, FALSE, n, seen), TransferStore(g, i, FALSE, n, other))
<1> DEFINE l == i.pointer
           r == i.operand
           Stored(e) == IF r[1] = "argument" THEN Assign(e, l, r)
                        ELSE IF IsAlloca(r) THEN Reference(e, l, r)
                        ELSE IF r[1] = "int" THEN e
                        ELSE IF r[1] = "null" THEN ClearPointToSet(e, l)
                        ELSE Assign(e, l, r)
<1>1. \A e, s : TransferStore(e, i, FALSE, n, s) = Stored(e)
  <2> TAKE e, s
  <2>1. r[1] = "argument" => ~IsAlloca(r)
    BY DEF IsAlloca
  <2>2. TransferStoreArgument(e, i, FALSE, n, s) = Assign(e, l, r)
    BY DEF TransferStoreArgument
  <2>3. StoreValue(e, l, r, s) = IF r[1] = "int" THEN e
                              ELSE IF r[1] = "null" THEN ClearPointToSet(e, l)
                              ELSE Assign(e, l, r)
    BY DEF StoreValue
  <2>4. TransferStore(e, i, FALSE, n, s) =
          CASE r[1] = "argument" -> TransferStoreArgument(e, i, FALSE, n, s)
            [] IsAlloca(r) -> IF IsAlloca(l) THEN Reference(e, l, r)
                                           ELSE ReferenceStore(e, l, r, s)
            [] OTHER -> StoreValue(e, l, r, s)
    BY Zenon DEF TransferStore
  <2>5. IsAlloca(l)
    OBVIOUS
  <2> HIDE DEF l, r
  <2> QED
    BY <2>1, <2>2, <2>3, <2>4, <2>5
<1> HIDE DEF l, r
<1>2. /\ Order(Assign(f, l, r), Assign(g, l, r))
      /\ Order(Reference(f, l, r), Reference(g, l, r))
      /\ Order(ClearPointToSet(f, l), ClearPointToSet(g, l))
  BY OrderAssign, OrderReference, OrderClearPointToSet
<1>3. Order(Stored(f), Stored(g))
  BY <1>2
<1> HIDE DEF Stored
<1>4. /\ TransferStore(f, i, FALSE, n, seen) = Stored(f)
      /\ TransferStore(g, i, FALSE, n, other) = Stored(g)
  BY <1>1
<1> QED
  BY <1>3, <1>4

(* The value of a field may be told by either of the two.                  *)
LEMMA OrderFieldReference ==
    ASSUME NEW f, NEW g, Order(f, g), NEW l, NEW r,
           FieldReference(f, l, r).fault = "none", FieldReference(g, l, r).fault = "none"
    PROVE  Order(FieldReference(f, l, r), FieldReference(g, l, r))
<1> DEFINE h == Check(f, IsStruct(f, r))
           k == Check(g, IsStruct(g, r))
<1>1. /\ FieldReference(f, l, r) = IF h.fault # "none" THEN h ELSE Reference(h, l, h.field[r])
      /\ FieldReference(g, l, r) = IF k.fault # "none" THEN k ELSE Reference(k, l, k.field[r])
  BY Zenon DEF FieldReference
<1>2. Order(h, k)
  BY OrderCheck
<1> HIDE DEF h, k
<1>3. /\ FieldReference(f, l, r) = Reference(h, l, h.field[r])
      /\ FieldReference(g, l, r) = Reference(k, l, h.field[r])
  BY <1>1, <1>2 DEF Order, SameMaps
<1> QED
  BY <1>2, <1>3, OrderReference

(* What the value of a getelementptr may be, from what its pointer may be. *)
FieldTargets(e, X) ==
    IF AllStruct(e, X) THEN FieldsOf(e, X)
    ELSE IF AllField(e, X) THEN X
    ELSE IF AllStructOrField(e, X) THEN FieldsOf(e, X) \cup {v \in X : ~IsStruct(e, v)}
    ELSE FieldsOf(e, PointToSetOfAll(e, X))

Targeted(e, X) ==
    /\ ~(AllStruct(e, X) /\ AllField(e, X))
    /\ AllStruct(e, X) \/ AllField(e, X) \/ AllStructOrField(e, X) \/ AllNeither(e, X)

LEMMA FieldTargetsInOrder ==
    ASSUME NEW f, NEW g, Order(f, g), f.fields \cap DOMAIN f.field = {},
           NEW S, NEW T, S \subseteq T, Targeted(f, S), Targeted(g, T)
    PROVE  FieldTargets(f, S) \subseteq FieldTargets(g, T)
<1>1. /\ FieldsOf(f, S) \subseteq FieldsOf(g, T)
      /\ FieldsOf(f, PointToSetOfAll(f, S)) \subseteq FieldsOf(g, PointToSetOfAll(g, T))
  <2>1. PointToSetOfAll(f, S) \subseteq PointToSetOfAll(g, T) /\ SameMaps(f, g)
    BY OrderPointees DEF Order
  <2> QED
    BY <2>1, OrderMaps
<1>2. \A v : IsStruct(g, v) = IsStruct(f, v) /\ IsField(g, v) = IsField(f, v)
  BY DEF Order, SameMaps, IsStruct, IsField
<1>3. \A v : ~(IsStruct(f, v) /\ IsField(f, v))
  BY DEF IsStruct, IsField
<1>4. S # {}
  BY DEF Targeted, AllStruct, AllField
<1>5. PICK v \in S : TRUE
  BY <1>4
<1>6. /\ AllStruct(g, T) => AllStruct(f, S)
      /\ AllField(g, T) => AllField(f, S) /\ ~AllStruct(f, S)
  BY <1>2, <1>3, <1>5 DEF AllStruct, AllField
<1>7. AllNeither(g, T) => ~AllStruct(f, S) /\ ~AllField(f, S) /\ ~AllStructOrField(f, S)
  BY <1>2, <1>5 DEF AllStruct, AllField, AllStructOrField, AllNeither
<1>8. AllField(f, S) => S \subseteq {w \in T : ~IsStruct(g, w)}
  BY <1>2, <1>3 DEF AllField
<1>9. AllStructOrField(g, T) => AllStructOrField(f, S)
  BY <1>2 DEF AllStructOrField
<1>10. {w \in S : ~IsStruct(f, w)} \subseteq {w \in T : ~IsStruct(g, w)}
  BY <1>2
<1>11. CASE AllStruct(g, T)
  BY <1>1, <1>6, <1>11 DEF FieldTargets
<1>12. CASE ~AllStruct(g, T) /\ AllField(g, T)
  BY <1>6, <1>12 DEF FieldTargets
<1>13. CASE ~AllStruct(g, T) /\ ~AllField(g, T) /\ AllStructOrField(g, T)
  BY <1>1, <1>8, <1>9, <1>10, <1>13 DEF FieldTargets
<1>14. CASE ~AllStruct(g, T) /\ ~AllField(g, T) /\ ~AllStructOrField(g, T)
  BY <1>1, <1>7, <1>14 DEF FieldTargets, Targeted
<1> QED
  BY <1>11, <1>12, <1>13, <1>14

(* The same graph, but for nodes that point to themselves, and maps.       *)
Alike(f, g) ==
    IsFact(g) /\ SameMaps(f, g) /\ \A w : PointToSet(g, w) = PointToSet(f, w)

LEMMA AlikeCheck ==
    ASSUME NEW f, IsFact(f), NEW condition
    PROVE  Alike(f, Check(f, condition))
<1> DEFINE g == Check(f, condition)
<1>1. IsFact(g) /\ SameMaps(f, g) /\ g.pts = f.pts
  BY CheckIs
<1> HIDE DEF g
<1>2. Alike(f, g)
  BY <1>1 DEF Alike, PointToSet
<1> QED
  BY <1>2 DEF g

LEMMA AlikeInOrder ==
    ASSUME NEW f, NEW g, Order(f, g), NEW h, Alike(f, h), NEW k, Alike(g, k)
    PROVE  Order(h, k)
BY DEF Order, Alike, SameMaps, Leq

(* The getelementptr of a register, when no assertion fails.               *)
LEMMA StructGetElemPtrIs ==
    ASSUME NEW f, IsFact(f), NEW l, NEW r, ~IsAlloca(r), NEW h, h = AddPointer(f, r),
           NEW S, S = PointToSet(h, r), NEW result, result = TransferStructGetElemPtr(f, l, r),
           result.fault = "none"
    PROVE  /\ Targeted(h, S)
           /\ \E e : Alike(h, e) /\ result = AssignSet(e, l, FieldTargets(h, S))
<1>1. IsFact(h) /\ Alike(h, h)
  BY AddPointerIs DEF Regraphed, Alike, SameMaps
<1>2. result # Fault(h, "assert")
  BY <1>1, FaultIsSeen
<1>3. result = IF AllStruct(h, S) /\ AllField(h, S) THEN Fault(h, "assert")
               ELSE IF AllStruct(h, S) THEN FieldAssign(h, l, r)
               ELSE IF AllField(h, S) THEN Assign(h, l, r)
               ELSE IF AllStructOrField(h, S) THEN StructFieldHybrid(h, l, r)
               ELSE IF AllNeither(h, S) THEN FieldLoad(h, l, r)
               ELSE Fault(h, "assert")
  BY DEF TransferStructGetElemPtr
<1>4. Targeted(h, S)
  BY <1>2, <1>3 DEF Targeted
<1>5. CASE AllStruct(h, S)
  <2>1. result = FieldAssign(h, l, r)
    BY <1>3, <1>4, <1>5 DEF Targeted
  <2>2. FieldTargets(h, S) = FieldsOf(h, S)
    BY <1>5 DEF FieldTargets
  <2>3. result = AssignSet(h, l, FieldTargets(h, S))
    BY <2>1, <2>2 DEF FieldAssign
  <2> QED
    BY <1>1, <1>4, <2>3
<1>6. CASE ~AllStruct(h, S) /\ AllField(h, S)
  <2> DEFINE e == AddPointer(h, r)
  <2>1. result = Assign(h, l, r) /\ FieldTargets(h, S) = S
    BY <1>3, <1>6 DEF FieldTargets
  <2>2. result = AssignSet(e, l, PointToSet(e, r))
    BY <2>1, AssignIsOfSet
  <2>3. Regraphed(h, e, {r}) /\ \A w : PointToSet(e, w) = PointToSet(h, w)
    BY <1>1, AddPointerIs
  <2> HIDE DEF e
  <2>4. Alike(h, e)
    BY <2>3 DEF Regraphed, Alike
  <2>5. result = AssignSet(e, l, FieldTargets(h, S))
    BY <2>1, <2>2, <2>3
  <2> QED
    BY <1>4, <2>4, <2>5
<1>7. CASE ~AllStruct(h, S) /\ ~AllField(h, S) /\ AllStructOrField(h, S)
  <2>1. result = StructFieldHybrid(h, l, r)
    BY <1>3, <1>7
  <2>2. FieldTargets(h, S) = FieldsOf(h, S) \cup {v \in S : ~IsStruct(h, v)}
    BY <1>7 DEF FieldTargets
  <2>3. result = AssignSet(h, l, FieldTargets(h, S))
    BY <2>1, <2>2 DEF StructFieldHybrid
  <2> QED
    BY <1>1, <1>4, <2>3
<1>8. CASE ~AllStruct(h, S) /\ ~AllField(h, S) /\ ~AllStructOrField(h, S)
  <2> DEFINE e == Check(h, AllStruct(h, PointToSetOfAll(h, S)))
  <2>1. result = FieldLoad(h, l, r)
    BY <1>2, <1>3, <1>8
  <2>2. FieldTargets(h, S) = FieldsOf(h, PointToSetOfAll(h, S))
    BY <1>8 DEF FieldTargets
  <2>3. result = AssignSet(e, l, FieldTargets(h, S))
    BY <2>1, <2>2 DEF FieldLoad
  <2>4. Alike(h, e)
    BY <1>1, AlikeCheck
  <2> QED
    BY <1>4, <2>3, <2>4
<1> QED
  BY <1>4, <1>5, <1>6, <1>7, <1>8

LEMMA OrderTransferStructGetElemPtr ==
    ASSUME NEW f, NEW g, Order(f, g), f.fields \cap DOMAIN f.field = {}, NEW l, NEW r,
           NEW lower, lower = TransferStructGetElemPtr(f, l, r), lower.fault = "none",
           NEW upper, upper = TransferStructGetElemPtr(g, l, r), upper.fault = "none"
    PROVE  Order(lower, upper)
<1> DEFINE h == AddPointer(f, r)
           k == AddPointer(g, r)
           S == PointToSet(h, r)
           T == PointToSet(k, r)
<1>1. CASE IsAlloca(r)
  <2>1. lower = FieldReference(f, l, r) /\ upper = FieldReference(g, l, r)
    BY <1>1 DEF TransferStructGetElemPtr
  <2> QED
    BY <2>1, OrderFieldReference
<1>2. CASE ~IsAlloca(r)
  <2>1. Order(h, k) /\ S \subseteq T
    BY OrderAddPointer DEF Order, Leq
  <2>2. h.fields \cap DOMAIN h.field = {}
    <3>1. Regraphed(f, h, {r})
      BY AddPointerIs DEF Order
    <3> HIDE DEF h
    <3> QED
      BY <3>1 DEF Regraphed, SameMaps
  <2>3. /\ Targeted(h, S)
        /\ \E e : Alike(h, e) /\ lower = AssignSet(e, l, FieldTargets(h, S))
    <3> HIDE DEF S
    <3>1. S = PointToSet(h, r)
      BY DEF S
    <3> QED
      BY <1>2, <3>1, StructGetElemPtrIs DEF Order
  <2>4. /\ Targeted(k, T)
        /\ \E e : Alike(k, e) /\ upper = AssignSet(e, l, FieldTargets(k, T))
    <3> HIDE DEF T
    <3>1. T = PointToSet(k, r)
      BY DEF T
    <3> QED
      BY <1>2, <3>1, StructGetElemPtrIs DEF Order
  <2>5. PICK d : Alike(h, d) /\ lower = AssignSet(d, l, FieldTargets(h, S))
    BY <2>3
  <2>6. PICK e : Alike(k, e) /\ upper = AssignSet(e, l, FieldTargets(k, T))
    BY <2>4
  <2> HIDE DEF h, k, S, T
  <2>7. FieldTargets(h, S) \subseteq FieldTargets(k, T)
    BY <2>1, <2>2, <2>3, <2>4, FieldTargetsInOrder
  <2>8. Order(d, e)
    BY <2>1, <2>5, <2>6, AlikeInOrder
  <2> QED
    BY <2>5, <2>6, <2>7, <2>8, OrderAssignSet
<1> QED
  BY <1>1, <1>2

LEMMA OrderTransferGetElemPtr ==
    ASSUME NEW f, NEW g, Order(f, g), f.fields \cap DOMAIN f.field = {}, NEW i,
           TransferGetElemPtr(f, i).fault = "none", TransferGetElemPtr(g, i).fault = "none"
    PROVE  Order(TransferGetElemPtr(f, i), TransferGetElemPtr(g, i))
<1> DEFINE l == i.value
           r == i.pointer
<1>1. CASE i.kind = "struct"
  <2>1. /\ TransferGetElemPtr(f, i) = TransferStructGetElemPtr(f, l, r)
        /\ TransferGetElemPtr(g, i) = TransferStructGetElemPtr(g, l, r)
    BY <1>1 DEF TransferGetElemPtr
  <2> HIDE DEF l, r
  <2> QED
    BY <2>1, OrderTransferStructGetElemPtr
<1>2. CASE i.kind # "struct"
  <2>1. Order(Assign(f, l, r), Assign(g, l, r))
    BY OrderAssign
  <2>2. Order(ArrayAssign(f, l, r), ArrayAssign(g, l, r))
    <3> DEFINE h == AddPointer(f, r)
               k == AddPointer(g, r)
               hc == Check(h, HavePointees(h, PointToSet(h, r)))
               kc == Check(k, HavePointees(k, PointToSet(k, r)))
    <3>1. /\ ArrayAssign(f, l, r) = AssignSet(hc, l, PointeesOf(h, PointToSet(h, r)))
          /\ ArrayAssign(g, l, r) = AssignSet(kc, l, PointeesOf(k, PointToSet(k, r)))
      BY Zenon DEF ArrayAssign
    <3>2. Order(h, k)
      BY OrderAddPointer
    <3> HIDE DEF h, k
    <3>3. PointToSet(h, r) \subseteq PointToSet(k, r) /\ SameMaps(h, k)
      BY <3>2 DEF Order, Leq
    <3>4. PointeesOf(h, PointToSet(h, r)) \subseteq PointeesOf(k, PointToSet(k, r))
      <4> DEFINE A == PointToSet(h, r)
                 B == PointToSet(k, r)
      <4>1. A \subseteq B /\ SameMaps(h, k)
        BY <3>3
      <4> HIDE DEF A, B
      <4>2. PointeesOf(h, A) \subseteq PointeesOf(k, B)
        BY <4>1, OrderMaps
      <4> QED
        BY <4>2 DEF A, B
    <3>5. Order(hc, kc)
      BY <3>2, OrderCheck
    <3> HIDE DEF hc, kc
    <3> QED
      BY <3>1, <3>4, <3>5, OrderAssignSet
  <2> HIDE DEF l, r
  <2>3. \A e : TransferGetElemPtr(e, i) = IF i.kind = "arrayid" THEN ArrayAssign(e, l, r)
                                         ELSE IF i.kind = "arraydecay" THEN Assign(e, l, r)
                                         ELSE e
    BY <1>2 DEF TransferGetElemPtr, l, r
  <2> QED
    BY <2>1, <2>2, <2>3
<1> QED
  BY <1>1, <1>2

LEMMA OrderTransferBitCast ==
    ASSUME NEW f, NEW g, Order(f, g), NEW i, i.type \in Seq(STRING), NEW n
    PROVE  Order(TransferBitCast(f, i, n), TransferBitCast(g, i, n))
<1>1. /\ Order(MockObject(f, i.value, i.type, n), MockObject(g, i.value, i.type, n))
      /\ Order(Assign(f, i.value, i.operand), Assign(g, i.value, i.operand))
  BY OrderMockObject, OrderAssign
<1> QED
  BY <1>1 DEF TransferBitCast

LEMMA OrderTransferInst ==
    ASSUME NEW f, NEW g, Order(f, g), f.fields \cap DOMAIN f.field = {},
           NEW i, IsInstruction(i), i.op # "call", ~ThroughPointer(i),
           NEW seen, NEW lower, lower = TransferInst(f, i, FALSE, 0, seen), lower.fault = "none",
           NEW other, NEW upper, upper = TransferInst(g, i, FALSE, 0, other), upper.fault = "none"
    PROVE  Order(lower, upper)
<1>1. i.op \in {"alloca", "store", "load", "gep", "bitcast", "ret"}
  BY DEF IsInstruction, ThroughPointer
<1>2. i.op \in {"alloca", "bitcast"} => i.type \in Seq(STRING)
  BY DEF IsInstruction, MakesObjects
<1>3. CASE i.op = "alloca"
  <2>1. lower = TransferAlloca(f, i, 0) /\ upper = TransferAlloca(g, i, 0)
    BY <1>3 DEF TransferInst
  <2> QED
    BY <1>2, <1>3, <2>1, OrderTransferAlloca
<1>4. CASE i.op = "store"
  <2>1. lower = TransferStore(f, i, FALSE, 0, seen) /\ upper = TransferStore(g, i, FALSE, 0, other)
    BY <1>4 DEF TransferInst
  <2>2. IsAlloca(i.pointer)
    BY <1>4 DEF ThroughPointer
  <2> QED
    BY <2>1, <2>2, OrderTransferStore
<1>5. CASE i.op = "load"
  <2>1. lower = TransferLoad(f, i) /\ upper = TransferLoad(g, i)
    BY <1>5 DEF TransferInst
  <2> QED
    BY <2>1, OrderTransferLoad
<1>6. CASE i.op = "gep"
  <2>1. lower = TransferGetElemPtr(f, i) /\ upper = TransferGetElemPtr(g, i)
    BY <1>6 DEF TransferInst
  <2> QED
    BY <2>1, OrderTransferGetElemPtr
<1>7. CASE i.op = "bitcast"
  <2>1. lower = TransferBitCast(f, i, 0) /\ upper = TransferBitCast(g, i, 0)
    BY <1>7 DEF TransferInst
  <2> QED
    BY <1>2, <1>7, <2>1, OrderTransferBitCast
<1>8. CASE i.op = "ret"
  BY <1>8 DEF TransferInst
<1> QED
  BY <1>1, <1>3, <1>4, <1>5, <1>6, <1>7, <1>8

-----------------------------------------------------------------------------
(* Before the instruction the facts are any two in order; after it they    *)
(* are in order unless it goes through a pointer or an assertion failed.   *)
OrderInv ==
    /\ instruction \in Instructions
    /\ ~transferred => smaller \in Fact /\ larger \in Fact
    /\ Monotone

LEMMA InitInOrder ==
    Init => OrderInv
BY DEF Init, OrderInv, Monotone

LEMMA NextInOrder ==
    OrderInv /\ ~transferred /\ Below(smaller, larger) /\ Transfer => OrderInv'
<1> SUFFICES ASSUME OrderInv, ~transferred, Below(smaller, larger), Transfer PROVE OrderInv'
  OBVIOUS
<1>1. IsInstruction(instruction) /\ instruction.op # "call"
  BY InstructionsAssumption DEF OrderInv
<1>2. Order(smaller, larger)
  BY FactsInOrder DEF OrderInv
<1>3. smaller.fields \cap DOMAIN smaller.field = {}
  BY FactAssumption DEF OrderInv
<1>4. ASSUME ~ThroughPointer(instruction), smaller'.fault = "none", larger'.fault = "none"
      PROVE  Order(smaller', larger')
  <2>1. PICK seen : smaller' = TransferInst(smaller, instruction, FALSE, 0, seen)
    BY DEF Transfer
  <2>2. PICK other : larger' = TransferInst(larger, instruction, FALSE, 0, other)
    BY DEF Transfer
  <2> QED
    BY <1>1, <1>2, <1>3, <1>4, <2>1, <2>2, OrderTransferInst
<1>5. Monotone'
  BY <1>4, OrderIsBelow DEF Monotone, Transfer
<1> QED
  BY <1>5 DEF OrderInv, Transfer

(* Every transfer function but a store or copy through a pointer keeps the *)
(* order of two facts, as Dataflow.h (112-116) asks of its caller.         *)
BelowInv == OrderInv /\ (~transferred => Below(smaller, larger))

THEOREM TransferIsMonotone ==
    Spec => []Monotone
<1>1. Init => BelowInv
  BY InitInOrder DEF Init, BelowInv
<1>2. BelowInv /\ [Next]_vars => BelowInv'
  <2> SUFFICES ASSUME BelowInv, [Next]_vars PROVE BelowInv'
    OBVIOUS
  <2>1. CASE Transfer
    BY <2>1, NextInOrder DEF BelowInv, Transfer
  <2>2. CASE UNCHANGED vars
    BY <2>2 DEF vars, BelowInv, OrderInv, Monotone, Below, ThroughPointer
  <2> QED
    BY <2>1, <2>2 DEF Next
<1>3. BelowInv => Monotone
  BY DEF BelowInv, OrderInv
<1> QED
  BY <1>1, <1>2, <1>3, PTL DEF Spec
================================================================================
