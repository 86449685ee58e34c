------------------------ MODULE PointerAnalysis_proofs ------------------------
(***************************************************************************)
(* What every operation on a points-to fact, and every transfer function,  *)
(* preserves.                                                              *)
(***************************************************************************)
EXTENDS PointerAnalysis, FiniteSetTheorems, TLAPS

SameMaps(f, g) ==
    /\ g.field = f.field /\ g.fields = f.fields
    /\ g.pointee = f.pointee /\ g.arrays = f.arrays

(* A fact that is a closed graph in which every function is one of F.      *)
Good(f, F) ==
    /\ IsFact(f) /\ IsFiniteSet(DOMAIN f.pts) /\ Closed(f) /\ MapsAreNodes(f)
    /\ \A v \in DOMAIN f.pts : Known(v, F)

-----------------------------------------------------------------------------
(* What the operations on the points-to sets do: the graph they leave.     *)
LEMMA FaultIs ==
    ASSUME NEW f, IsFact(f), NEW kind, NEW g, g = Fault(f, kind)
    PROVE  /\ IsFact(g) /\ SameMaps(f, g) /\ g.pts = f.pts
           /\ g.fault = IF f.fault = "none" THEN kind ELSE f.fault
BY DEF Fault, IsFact, SameMaps

LEMMA CheckIs ==
    ASSUME NEW f, IsFact(f), NEW condition, NEW g, g = Check(f, condition)
    PROVE  /\ IsFact(g) /\ SameMaps(f, g) /\ g.pts = f.pts
           /\ g.fault = "none" => f.fault = "none" /\ condition
           /\ condition => g = f
BY FaultIs DEF Check, SameMaps

LEMMA PtsIs ==
    ASSUME NEW f, IsFact(f), NEW pts, NEW g, g = [f EXCEPT !.pts = pts]
    PROVE  IsFact(g) /\ SameMaps(f, g) /\ g.pts = pts /\ g.fault = f.fault
BY DEF IsFact, SameMaps

LEMMA AddAllIs ==
    ASSUME NEW f, IsFact(f), NEW V, NEW g, g = AddAll(f, V)
    PROVE  /\ IsFact(g) /\ SameMaps(f, g) /\ g.fault = f.fault
           /\ DOMAIN g.pts = DOMAIN f.pts \cup V
           /\ \A v : PointToSet(g, v) = PointToSet(f, v)
<1>1. IsFact(g) /\ SameMaps(f, g) /\ g.fault = f.fault /\ g.pts = Override(f.pts, [v \in V |-> {v}])
  BY PtsIs DEF AddAll
<1> QED
  BY <1>1 DEF PointToSet, Override

LEMMA WithIs ==
    ASSUME NEW f, IsFact(f), NEW v, NEW S, NEW g, g = With(f, v, S)
    PROVE  /\ IsFact(g) /\ SameMaps(f, g) /\ g.fault = f.fault
           /\ DOMAIN g.pts = DOMAIN f.pts \cup {v}
           /\ \A w : PointToSet(g, w) = IF w = v THEN S ELSE PointToSet(f, w)
<1>1. IsFact(g) /\ SameMaps(f, g) /\ g.fault = f.fault /\ g.pts = Put(f.pts, v, S)
  BY PtsIs DEF With
<1> QED
  BY <1>1 DEF PointToSet, Override, Put

(* g is f with the nodes V and other points-to sets.                       *)
Regraphed(f, g, V) ==
    /\ IsFact(g) /\ SameMaps(f, g)
    /\ DOMAIN g.pts = DOMAIN f.pts \cup V
    /\ g.fault = "none" => f.fault = "none"

LEMMA AddPointerIs ==
    ASSUME NEW f, IsFact(f), NEW p, NEW g, g = AddPointer(f, p)
    PROVE  /\ Regraphed(f, g, {p})
           /\ \A w : PointToSet(g, w) = PointToSet(f, w)
<1> DEFINE h == Check(f, IsPointer(p))
<1>1. IsFact(h) /\ SameMaps(f, h) /\ h.pts = f.pts /\ (h.fault = "none" => f.fault = "none")
  BY CheckIs
<1> HIDE DEF h
<1>2. g = AddAll(h, {p})
  BY DEF AddPointer, h
<1>3. \A w : PointToSet(h, w) = PointToSet(f, w)
  BY <1>1 DEF PointToSet
<1> QED
  BY <1>1, <1>2, <1>3, AddAllIs DEF Regraphed, SameMaps

LEMMA AddObjectSetIs ==
    ASSUME NEW f, IsFact(f), NEW S, NEW g, g = AddObjectSet(f, S)
    PROVE  /\ Regraphed(f, g, S)
           /\ \A w : PointToSet(g, w) = PointToSet(f, w)
<1> DEFINE h == Check(f, \A o \in S : IsObject(o))
<1>1. IsFact(h) /\ SameMaps(f, h) /\ h.pts = f.pts /\ (h.fault = "none" => f.fault = "none")
  BY CheckIs
<1> HIDE DEF h
<1>2. g = AddAll(h, S)
  BY DEF AddObjectSet, h
<1>3. \A w : PointToSet(h, w) = PointToSet(f, w)
  BY <1>1 DEF PointToSet
<1> QED
  BY <1>1, <1>2, <1>3, AddAllIs DEF Regraphed, SameMaps

LEMMA AddObjectIs ==
    ASSUME NEW f, IsFact(f), NEW o, NEW g, g = AddObject(f, o)
    PROVE  /\ Regraphed(f, g, {o})
           /\ \A w : PointToSet(g, w) = PointToSet(f, w)
<1> DEFINE h == Check(f, IsObject(o))
<1>1. IsFact(h) /\ SameMaps(f, h) /\ h.pts = f.pts /\ (h.fault = "none" => f.fault = "none")
  BY CheckIs
<1> HIDE DEF h
<1>2. g = AddAll(h, {o})
  BY DEF AddObject, h
<1>3. \A w : PointToSet(h, w) = PointToSet(f, w)
  BY <1>1 DEF PointToSet
<1> QED
  BY <1>1, <1>2, <1>3, AddAllIs DEF Regraphed, SameMaps

(* Two such changes in a row are one.                                      *)
LEMMA RegraphedTwice ==
    ASSUME NEW f, NEW g, NEW h, NEW V, NEW W, Regraphed(f, g, V), Regraphed(g, h, W)
    PROVE  Regraphed(f, h, V \cup W)
BY DEF Regraphed, SameMaps

LEMMA ThenWith ==
    ASSUME NEW f, NEW h, NEW V, Regraphed(f, h, V),
           \A w : PointToSet(h, w) = PointToSet(f, w),
           NEW p, NEW T, NEW g, g = With(h, p, T)
    PROVE  /\ Regraphed(f, g, V \cup {p})
           /\ \A w : PointToSet(g, w) = IF w = p THEN T ELSE PointToSet(f, w)
BY WithIs DEF Regraphed, SameMaps

LEMMA AddPointToIs ==
    ASSUME NEW f, IsFact(f), NEW p, NEW o, NEW g, g = AddPointTo(f, p, o)
    PROVE  /\ Regraphed(f, g, {p, o})
           /\ \A w : PointToSet(g, w) =
                        IF w = p THEN PointToSet(f, p) \cup {o} ELSE PointToSet(f, w)
<1> DEFINE k == AddPointer(f, p)
           h == AddObject(k, o)
<1>1. Regraphed(f, k, {p}) /\ \A w : PointToSet(k, w) = PointToSet(f, w)
  BY AddPointerIs
<1>2. Regraphed(k, h, {o}) /\ \A w : PointToSet(h, w) = PointToSet(k, w)
  <2> HIDE DEF k
  <2> QED BY <1>1, AddObjectIs DEF Regraphed
<1>3. g = With(h, p, PointToSet(h, p) \cup {o})
  BY Zenon DEF AddPointTo
<1> HIDE DEF h, k
<1>4. Regraphed(f, h, {p} \cup {o}) /\ \A w : PointToSet(h, w) = PointToSet(f, w)
  BY <1>1, <1>2, RegraphedTwice
<1>5. g = With(h, p, PointToSet(f, p) \cup {o})
  BY <1>3, <1>4
<1>6. ({p} \cup {o}) \cup {p} = {p, o}
  OBVIOUS
<1> QED
  BY <1>4, <1>5, <1>6, ThenWith

LEMMA RemovePointToIs ==
    ASSUME NEW f, IsFact(f), NEW p, NEW o, NEW g, g = RemovePointTo(f, p, o)
    PROVE  /\ Regraphed(f, g, {p})
           /\ \A w : PointToSet(g, w) =
                        IF w = p THEN PointToSet(f, p) \ {o} ELSE PointToSet(f, w)
<1> DEFINE h == AddPointer(f, p)
<1>1. Regraphed(f, h, {p}) /\ \A w : PointToSet(h, w) = PointToSet(f, w)
  BY AddPointerIs
<1>2. g = With(h, p, PointToSet(h, p) \ {o})
  BY Zenon DEF RemovePointTo
<1> HIDE DEF h
<1>3. g = With(h, p, PointToSet(f, p) \ {o})
  BY <1>1, <1>2
<1>4. {p} \cup {p} = {p}
  OBVIOUS
<1> QED
  BY <1>1, <1>3, <1>4, ThenWith

LEMMA UnionPointToSetIs ==
    ASSUME NEW f, IsFact(f), NEW p, NEW S, NEW g, g = UnionPointToSet(f, p, S)
    PROVE  /\ Regraphed(f, g, {p} \cup S)
           /\ \A w : PointToSet(g, w) =
                        IF w = p THEN PointToSet(f, p) \cup S ELSE PointToSet(f, w)
<1> DEFINE k == AddPointer(f, p)
           h == AddObjectSet(k, S)
<1>1. Regraphed(f, k, {p}) /\ \A w : PointToSet(k, w) = PointToSet(f, w)
  BY AddPointerIs
<1>2. Regraphed(k, h, S) /\ \A w : PointToSet(h, w) = PointToSet(k, w)
  <2> HIDE DEF k
  <2> QED BY <1>1, AddObjectSetIs DEF Regraphed
<1>3. g = With(h, p, PointToSet(h, p) \cup S)
  BY Zenon DEF UnionPointToSet
<1> HIDE DEF h, k
<1>4. Regraphed(f, h, {p} \cup S) /\ \A w : PointToSet(h, w) = PointToSet(f, w)
  BY <1>1, <1>2, RegraphedTwice
<1>5. g = With(h, p, PointToSet(f, p) \cup S)
  BY <1>3, <1>4
<1>6. ({p} \cup S) \cup {p} = {p} \cup S
  OBVIOUS
<1> QED
  BY <1>4, <1>5, <1>6, ThenWith

LEMMA ClearPointToSetIs ==
    ASSUME NEW f, IsFact(f), NEW p, NEW g, g = ClearPointToSet(f, p)
    PROVE  /\ Regraphed(f, g, {p})
           /\ \A w : PointToSet(g, w) = IF w = p THEN {} ELSE PointToSet(f, w)
<1> DEFINE h == AddPointer(f, p)
<1>1. Regraphed(f, h, {p}) /\ \A w : PointToSet(h, w) = PointToSet(f, w)
  BY AddPointerIs
<1>2. g = With(h, p, {})
  BY Zenon DEF ClearPointToSet
<1> HIDE DEF h
<1> QED
  BY <1>1, <1>2, WithIs DEF Regraphed, SameMaps

-----------------------------------------------------------------------------
(* What the assignments do.                                                *)
LEMMA ReferenceIs ==
    ASSUME NEW f, IsFact(f), NEW l, NEW r, NEW g, g = Reference(f, l, r)
    PROVE  /\ Regraphed(f, g, {l, r})
           /\ \A w : PointToSet(g, w) = IF w = l THEN {r} ELSE PointToSet(f, w)
<1> DEFINE h == ClearPointToSet(f, l)
<1>1. /\ Regraphed(f, h, {l})
      /\ \A w : PointToSet(h, w) = IF w = l THEN {} ELSE PointToSet(f, w)
  <2>1. h = ClearPointToSet(f, l)
    OBVIOUS
  <2> HIDE DEF h
  <2> QED
    BY <2>1, ClearPointToSetIs
<1>2. g = AddPointTo(h, l, r)
  BY Zenon DEF Reference
<1> HIDE DEF h
<1>3. /\ Regraphed(h, g, {l, r})
      /\ \A w : PointToSet(g, w) = IF w = l THEN PointToSet(h, l) \cup {r} ELSE PointToSet(h, w)
  BY <1>1, <1>2, AddPointToIs DEF Regraphed
<1>4. Regraphed(f, g, {l} \cup {l, r})
  BY <1>1, <1>3, RegraphedTwice
<1>5. {l} \cup {l, r} = {l, r}
  OBVIOUS
<1> QED
  BY <1>1, <1>3, <1>4, <1>5

LEMMA AssignSetIs ==
    ASSUME NEW f, IsFact(f), NEW l, NEW S, NEW g, g = AssignSet(f, l, S)
    PROVE  /\ Regraphed(f, g, {l} \cup S)
           /\ \A w : PointToSet(g, w) = IF w = l THEN S ELSE PointToSet(f, w)
<1> DEFINE h == ClearPointToSet(f, l)
<1>1. /\ Regraphed(f, h, {l})
      /\ \A w : PointToSet(h, w) = IF w = l THEN {} ELSE PointToSet(f, w)
  <2>1. h = ClearPointToSet(f, l)
    OBVIOUS
  <2> HIDE DEF h
  <2> QED
    BY <2>1, ClearPointToSetIs
<1>2. g = UnionPointToSet(h, l, S)
  BY Zenon DEF AssignSet
<1> HIDE DEF h
<1>3. /\ Regraphed(h, g, {l} \cup S)
      /\ \A w : PointToSet(g, w) = IF w = l THEN PointToSet(h, l) \cup S ELSE PointToSet(h, w)
  BY <1>1, <1>2, UnionPointToSetIs DEF Regraphed
<1>4. Regraphed(f, g, {l} \cup ({l} \cup S))
  BY <1>1, <1>3, RegraphedTwice
<1>5. {l} \cup ({l} \cup S) = {l} \cup S
  OBVIOUS
<1> QED
  BY <1>1, <1>3, <1>4, <1>5

LEMMA AssignIs ==
    ASSUME NEW f, IsFact(f), NEW l, NEW r, NEW g, g = Assign(f, l, r)
    PROVE  /\ Regraphed(f, g, {l, r} \cup PointToSet(f, r))
           /\ \A w : PointToSet(g, w) = IF w = l THEN PointToSet(f, r) ELSE PointToSet(f, w)
<1> DEFINE h == AddPointer(f, r)
           S == PointToSet(f, r)
<1>1. Regraphed(f, h, {r}) /\ \A w : PointToSet(h, w) = PointToSet(f, w)
  BY AddPointerIs
<1>2. g = AssignSet(h, l, PointToSet(h, r))
  BY Zenon DEF Assign, AssignSet
<1> HIDE DEF h
<1>3. g = AssignSet(h, l, S)
  BY <1>1, <1>2
<1> HIDE DEF S
<1>4. /\ Regraphed(h, g, {l} \cup S)
      /\ \A w : PointToSet(g, w) = IF w = l THEN S ELSE PointToSet(h, w)
  BY <1>1, <1>3, AssignSetIs DEF Regraphed
<1>5. Regraphed(f, g, {r} \cup ({l} \cup S))
  BY <1>1, <1>4, RegraphedTwice
<1>6. {r} \cup ({l} \cup S) = {l, r} \cup S
  OBVIOUS
<1> QED
  BY <1>1, <1>4, <1>5, <1>6 DEF S

LEMMA NonClearAssignIs ==
    ASSUME NEW f, IsFact(f), NEW l, NEW r, NEW g, g = NonClearAssign(f, l, r)
    PROVE  /\ Regraphed(f, g, {l, r} \cup PointToSet(f, r))
           /\ \A w : PointToSet(g, w) =
                        IF w = l THEN (PointToSet(f, l) \cup PointToSet(f, r)) \ {l}
                        ELSE PointToSet(f, w)
<1> DEFINE k == AddPointer(f, r)
           S == PointToSet(f, r)
           h == UnionPointToSet(k, l, S)
<1>1. Regraphed(f, k, {r}) /\ \A w : PointToSet(k, w) = PointToSet(f, w)
  BY AddPointerIs
<1>2. g = RemovePointTo(h, l, l)
  <2>1. PointToSet(k, r) = S
    BY <1>1
  <2> QED
    BY <2>1, Zenon DEF NonClearAssign
<1>3. /\ Regraphed(k, h, {l} \cup S)
      /\ \A w : PointToSet(h, w) = IF w = l THEN PointToSet(k, l) \cup S ELSE PointToSet(k, w)
  <2> HIDE DEF k, S
  <2> QED BY <1>1, UnionPointToSetIs DEF Regraphed
<1> HIDE DEF h, k, S
<1>4. /\ Regraphed(h, g, {l})
      /\ \A w : PointToSet(g, w) = IF w = l THEN PointToSet(h, l) \ {l} ELSE PointToSet(h, w)
  BY <1>3, <1>2, RemovePointToIs DEF Regraphed
<1>5. Regraphed(f, g, ({r} \cup ({l} \cup S)) \cup {l})
  BY <1>1, <1>3, <1>4, RegraphedTwice
<1>6. ({r} \cup ({l} \cup S)) \cup {l} = {l, r} \cup S
  OBVIOUS
<1> QED
  BY <1>1, <1>3, <1>4, <1>5, <1>6 DEF S

LEMMA LoadThroughIs ==
    ASSUME NEW f, IsFact(f), NEW l, NEW r, NEW g, g = LoadThrough(f, l, r)
    PROVE  LET S == PointToSetOfAll(f, PointToSet(f, r))
           IN  /\ Regraphed(f, g, {l, r} \cup S)
               /\ \A w : PointToSet(g, w) = IF w = l THEN S ELSE PointToSet(f, w)
<1> DEFINE h == AddPointer(f, r)
           S == PointToSetOfAll(f, PointToSet(f, r))
<1>1. Regraphed(f, h, {r}) /\ \A w : PointToSet(h, w) = PointToSet(f, w)
  BY AddPointerIs
<1>2. g = AssignSet(h, l, PointToSetOfAll(h, PointToSet(h, r)))
  BY Zenon DEF LoadThrough, AssignSet
<1> HIDE DEF h
<1>3. PointToSetOfAll(h, PointToSet(h, r)) = S
  BY <1>1 DEF PointToSetOfAll
<1> HIDE DEF S
<1>4. /\ Regraphed(h, g, {l} \cup S)
      /\ \A w : PointToSet(g, w) = IF w = l THEN S ELSE PointToSet(h, w)
  BY <1>1, <1>2, <1>3, AssignSetIs DEF Regraphed
<1>5. Regraphed(f, g, {r} \cup ({l} \cup S))
  BY <1>1, <1>4, RegraphedTwice
<1>6. {r} \cup ({l} \cup S) = {l, r} \cup S
  OBVIOUS
<1> QED
  BY <1>1, <1>4, <1>5, <1>6 DEF S

-----------------------------------------------------------------------------
(* Every operation leaves a closed graph whose functions are known.        *)
LEMMA FinitePair ==
    \A x, y : IsFiniteSet({x, y})
<1> TAKE x, y
<1>1. {x, y} = {x} \cup {y}
  OBVIOUS
<1>2. IsFiniteSet({x}) /\ IsFiniteSet({y})
  BY FS_Singleton
<1>3. IsFiniteSet({x} \cup {y})
  BY <1>2, FS_Union
<1> QED
  BY <1>1, <1>3

LEMMA GoodPointees ==
    ASSUME NEW F, NEW f, Good(f, F), NEW v, Known(v, F)
    PROVE  /\ PointToSet(f, v) \subseteq DOMAIN f.pts \cup {v}
           /\ v \in DOMAIN f.pts => PointToSet(f, v) \subseteq DOMAIN f.pts
           /\ \A w \in PointToSet(f, v) : Known(w, F)
           /\ IsFiniteSet(PointToSet(f, v))
<1>1. PointToSet(f, v) \subseteq DOMAIN f.pts \/ PointToSet(f, v) = {v}
  BY DEF Good, Closed, PointToSet
<1>2. IsFiniteSet(PointToSet(f, v))
  BY <1>1, FS_Subset, FS_Singleton DEF Good
<1> QED
  BY <1>2 DEF Good, Closed, PointToSet

LEMMA GoodPointeesOfAll ==
    ASSUME NEW F, NEW f, Good(f, F), NEW S, IsFiniteSet(S), \A v \in S : Known(v, F)
    PROVE  /\ PointToSetOfAll(f, S) \subseteq DOMAIN f.pts \cup S
           /\ \A w \in PointToSetOfAll(f, S) : Known(w, F)
           /\ IsFiniteSet(PointToSetOfAll(f, S))
<1>1. \A v \in S : /\ PointToSet(f, v) \subseteq DOMAIN f.pts \cup {v}
                   /\ \A w \in PointToSet(f, v) : Known(w, F)
  BY GoodPointees
<1>2. \A w \in PointToSetOfAll(f, S) : \E v \in S : w \in PointToSet(f, v)
  BY DEF PointToSetOfAll
<1>3. PointToSetOfAll(f, S) \subseteq DOMAIN f.pts \cup S
  BY <1>1, <1>2
<1>4. IsFiniteSet(PointToSetOfAll(f, S))
  BY <1>3, FS_Union, FS_Subset DEF Good
<1> QED
  BY <1>1, <1>2, <1>3, <1>4

LEMMA GoodRegraphed ==
    ASSUME NEW F, NEW f, Good(f, F), NEW V, IsFiniteSet(V), \A v \in V : Known(v, F),
           NEW g, Regraphed(f, g, V),
           \A w \in DOMAIN g.pts : PointToSet(g, w) \subseteq DOMAIN g.pts
    PROVE  Good(g, F)
<1>1. Closed(g)
  BY DEF Closed, PointToSet
<1>2. MapsAreNodes(g)
  BY DEF MapsAreNodes, Good, Regraphed, SameMaps
<1>3. IsFiniteSet(DOMAIN g.pts)
  BY FS_Union DEF Good, Regraphed
<1> QED
  BY <1>1, <1>2, <1>3 DEF Good, Regraphed

LEMMA GoodFault ==
    ASSUME NEW F, NEW f, Good(f, F), NEW kind
    PROVE  Good(Fault(f, kind), F)
<1> DEFINE g == Fault(f, kind)
<1>1. IsFact(g) /\ SameMaps(f, g) /\ g.pts = f.pts
  BY FaultIs DEF Good
<1> HIDE DEF g
<1>2. Good(g, F)
  BY <1>1 DEF Good, Closed, MapsAreNodes, SameMaps
<1> QED
  BY <1>2 DEF g

LEMMA GoodCheck ==
    ASSUME NEW F, NEW f, Good(f, F), NEW condition
    PROVE  Good(Check(f, condition), F)
BY GoodFault DEF Check

LEMMA GoodAddPointer ==
    ASSUME NEW F, NEW f, Good(f, F), NEW p, Known(p, F)
    PROVE  Good(AddPointer(f, p), F)
<1> DEFINE g == AddPointer(f, p)
<1>1. Regraphed(f, g, {p}) /\ \A w : PointToSet(g, w) = PointToSet(f, w)
  BY AddPointerIs DEF Good
<1> HIDE DEF g
<1>2. \A w \in DOMAIN g.pts : PointToSet(g, w) \subseteq DOMAIN g.pts
  BY <1>1, GoodPointees DEF Regraphed, Good
<1>3. Good(g, F)
  BY <1>1, <1>2, GoodRegraphed, FS_Singleton
<1> QED
  BY <1>3 DEF g

LEMMA GoodAddObject ==
    ASSUME NEW F, NEW f, Good(f, F), NEW o, Known(o, F)
    PROVE  Good(AddObject(f, o), F)
<1> DEFINE g == AddObject(f, o)
<1>1. Regraphed(f, g, {o}) /\ \A w : PointToSet(g, w) = PointToSet(f, w)
  BY AddObjectIs DEF Good
<1> HIDE DEF g
<1>2. \A w \in DOMAIN g.pts : PointToSet(g, w) \subseteq DOMAIN g.pts
  BY <1>1, GoodPointees DEF Regraphed, Good
<1>3. Good(g, F)
  BY <1>1, <1>2, GoodRegraphed, FS_Singleton
<1> QED
  BY <1>3 DEF g

LEMMA GoodAddAll ==
    ASSUME NEW F, NEW f, Good(f, F), NEW S, IsFiniteSet(S), \A o \in S : Known(o, F)
    PROVE  Good(AddAll(f, S), F)
<1> DEFINE g == AddAll(f, S)
<1>1. Regraphed(f, g, S) /\ \A w : PointToSet(g, w) = PointToSet(f, w)
  BY AddAllIs DEF Good, Regraphed
<1> HIDE DEF g
<1>2. \A w \in DOMAIN g.pts : PointToSet(g, w) \subseteq DOMAIN g.pts
  BY <1>1, GoodPointees DEF Regraphed, Good
<1>3. Good(g, F)
  BY <1>1, <1>2, GoodRegraphed, FS_Singleton, FS_Union
<1> QED
  BY <1>3 DEF g

LEMMA GoodAddObjectSet ==
    ASSUME NEW F, NEW f, Good(f, F), NEW S, IsFiniteSet(S), \A o \in S : Known(o, F)
    PROVE  Good(AddObjectSet(f, S), F)
BY GoodCheck, GoodAddAll DEF AddObjectSet

LEMMA GoodClearPointToSet ==
    ASSUME NEW F, NEW f, Good(f, F), NEW p, Known(p, F)
    PROVE  Good(ClearPointToSet(f, p), F)
<1> DEFINE g == ClearPointToSet(f, p)
<1>1. Regraphed(f, g, {p}) /\ \A w : PointToSet(g, w) = IF w = p THEN {} ELSE PointToSet(f, w)
  <2>1. g = ClearPointToSet(f, p) /\ IsFact(f)
    BY DEF Good
  <2> HIDE DEF g
  <2> QED
    BY <2>1, ClearPointToSetIs
<1> HIDE DEF g
<1>2. \A w \in DOMAIN g.pts : PointToSet(g, w) \subseteq DOMAIN g.pts
  BY <1>1, GoodPointees DEF Regraphed, Good
<1>3. Good(g, F)
  BY <1>1, <1>2, GoodRegraphed, FS_Singleton
<1> QED
  BY <1>3 DEF g

LEMMA GoodReference ==
    ASSUME NEW F, NEW f, Good(f, F), NEW l, Known(l, F), NEW r, Known(r, F)
    PROVE  Good(Reference(f, l, r), F)
<1> DEFINE g == Reference(f, l, r)
<1>1. /\ Regraphed(f, g, {l, r})
      /\ \A w : PointToSet(g, w) = IF w = l THEN {r} ELSE PointToSet(f, w)
  <2>1. g = Reference(f, l, r) /\ IsFact(f)
    BY DEF Good
  <2> HIDE DEF g
  <2> QED
    BY <2>1, ReferenceIs
<1> HIDE DEF g
<1>2. \A w \in DOMAIN g.pts : PointToSet(g, w) \subseteq DOMAIN g.pts
  BY <1>1, GoodPointees DEF Regraphed, Good
<1>3. Good(g, F)
  BY <1>1, <1>2, GoodRegraphed, FinitePair
<1> QED
  BY <1>3 DEF g

LEMMA GoodAssignSet ==
    ASSUME NEW F, NEW f, Good(f, F), NEW l, Known(l, F), NEW S, IsFiniteSet(S), \A v \in S : Known(v, F)
    PROVE  Good(AssignSet(f, l, S), F)
<1> DEFINE g == AssignSet(f, l, S)
<1>1. /\ Regraphed(f, g, {l} \cup S)
      /\ \A w : PointToSet(g, w) = IF w = l THEN S ELSE PointToSet(f, w)
  <2>1. g = AssignSet(f, l, S) /\ IsFact(f)
    BY DEF Good
  <2> HIDE DEF g
  <2> QED
    BY <2>1, AssignSetIs
<1> HIDE DEF g
<1>2. \A w \in DOMAIN g.pts : PointToSet(g, w) \subseteq DOMAIN g.pts
  BY <1>1, GoodPointees DEF Regraphed, Good
<1>3. Good(g, F)
  BY <1>1, <1>2, GoodRegraphed, FS_Singleton, FS_Union
<1> QED
  BY <1>3 DEF g

LEMMA GoodAssign ==
    ASSUME NEW F, NEW f, Good(f, F), NEW l, Known(l, F), NEW r, Known(r, F)
    PROVE  Good(Assign(f, l, r), F)
<1> DEFINE g == AddPointer(f, r)
<1>1. Good(g, F)
  BY GoodAddPointer
<1> HIDE DEF g
<1>2. Good(AssignSet(g, l, PointToSet(g, r)), F)
  BY <1>1, GoodPointees, GoodAssignSet
<1> QED
  BY <1>2 DEF g, Assign, AssignSet

LEMMA GoodNonClearAssign ==
    ASSUME NEW F, NEW f, Good(f, F), NEW l, Known(l, F), NEW r, Known(r, F)
    PROVE  Good(NonClearAssign(f, l, r), F)
<1> DEFINE g == NonClearAssign(f, l, r)
<1>1. /\ Regraphed(f, g, {l, r} \cup PointToSet(f, r))
      /\ \A w : PointToSet(g, w) =
                   IF w = l THEN (PointToSet(f, l) \cup PointToSet(f, r)) \ {l}
                   ELSE PointToSet(f, w)
  <2>1. g = NonClearAssign(f, l, r) /\ IsFact(f)
    BY DEF Good
  <2> HIDE DEF g
  <2> QED
    BY <2>1, NonClearAssignIs
<1> HIDE DEF g
<1>2. \A w \in DOMAIN g.pts : PointToSet(g, w) \subseteq DOMAIN g.pts
  BY <1>1, GoodPointees DEF Regraphed, Good
<1>3. IsFiniteSet({l, r} \cup PointToSet(f, r))
  BY FinitePair, GoodPointees, FS_Union
<1>4. Good(g, F)
  BY <1>1, <1>2, <1>3, GoodRegraphed, GoodPointees
<1> QED
  BY <1>4 DEF g

LEMMA GoodLoadThrough ==
    ASSUME NEW F, NEW f, Good(f, F), NEW l, Known(l, F), NEW r, Known(r, F)
    PROVE  Good(LoadThrough(f, l, r), F)
<1> DEFINE g == AddPointer(f, r)
           S == PointToSetOfAll(g, PointToSet(g, r))
<1>1. Good(g, F)
  BY GoodAddPointer
<1> HIDE DEF g
<1>2. IsFiniteSet(S) /\ \A v \in S : Known(v, F)
  BY <1>1, GoodPointees, GoodPointeesOfAll
<1>3. Good(AssignSet(g, l, S), F)
  <2> HIDE DEF S
  <2> QED BY <1>1, <1>2, GoodAssignSet
<1> QED
  BY <1>3 DEF g, LoadThrough, AssignSet

LEMMA GoodSetTop ==
    ASSUME NEW F, NEW f, Good(f, F)
    PROVE  Good(SetTop(f), F)
<1> DEFINE g == SetTop(f)
<1>1. Regraphed(f, g, {}) /\ g.pts = [v \in DOMAIN f.pts |-> DOMAIN f.pts]
  BY PtsIs DEF SetTop, Good, Regraphed
<1> HIDE DEF g
<1>2. \A w \in DOMAIN g.pts : PointToSet(g, w) \subseteq DOMAIN g.pts
  BY <1>1 DEF PointToSet
<1>3. Good(g, F)
  BY <1>1, <1>2, GoodRegraphed, FS_EmptySet
<1> QED
  BY <1>3 DEF g

LEMMA GoodUnionPointToSet ==
    ASSUME NEW F, NEW f, Good(f, F), NEW p, Known(p, F), NEW S, IsFiniteSet(S), \A v \in S : Known(v, F)
    PROVE  Good(UnionPointToSet(f, p, S), F)
<1> DEFINE g == UnionPointToSet(f, p, S)
<1>1. /\ Regraphed(f, g, {p} \cup S)
      /\ \A w : PointToSet(g, w) = IF w = p THEN PointToSet(f, p) \cup S ELSE PointToSet(f, w)
  <2>1. g = UnionPointToSet(f, p, S) /\ IsFact(f)
    BY DEF Good
  <2> HIDE DEF g
  <2> QED
    BY <2>1, UnionPointToSetIs
<1> HIDE DEF g
<1>2. \A w \in DOMAIN g.pts : PointToSet(g, w) \subseteq DOMAIN g.pts
  BY <1>1, GoodPointees DEF Regraphed, Good
<1>3. Good(g, F)
  BY <1>1, <1>2, GoodRegraphed, FS_Singleton, FS_Union
<1> QED
  BY <1>3 DEF g

LEMMA GoodOverride ==
    ASSUME NEW F, NEW f, Good(f, F), NEW new, DOMAIN new \subseteq DOMAIN f.pts,
           \A v \in DOMAIN new : new[v] \subseteq DOMAIN f.pts
    PROVE  Good([f EXCEPT !.pts = Override(new, @)], F)
<1> DEFINE g == [f EXCEPT !.pts = Override(new, @)]
<1>1. g = [f EXCEPT !.pts = Override(new, f.pts)] /\ IsFact(f)
  BY DEF Good
<1> HIDE DEF g
<1>2. IsFact(g) /\ SameMaps(f, g) /\ g.pts = Override(new, f.pts) /\ g.fault = f.fault
  BY <1>1, PtsIs
<1>3. DOMAIN g.pts = DOMAIN f.pts \cup {}
  BY <1>2 DEF Override
<1>4. \A w \in DOMAIN g.pts : PointToSet(g, w) \subseteq DOMAIN g.pts
  BY <1>2, <1>3 DEF Override, PointToSet, Good, Closed
<1>5. Good(g, F)
  BY <1>2, <1>3, <1>4, GoodRegraphed, FS_EmptySet DEF Regraphed
<1> QED
  BY <1>5 DEF g

(* A node, and what it points to.                                          *)
LEMMA GoodNode ==
    ASSUME NEW F, NEW f, Good(f, F), NEW p, Known(p, F), NEW g, g = AddPointer(f, p)
    PROVE  /\ Good(g, F) /\ p \in DOMAIN g.pts
           /\ PointToSet(g, p) \subseteq DOMAIN g.pts
           /\ IsFiniteSet(PointToSet(g, p))
           /\ \A v \in PointToSet(g, p) : Known(v, F)
           /\ \A w : PointToSet(g, w) = PointToSet(f, w)
<1>1. Good(g, F)
  BY GoodAddPointer
<1>2. Regraphed(f, g, {p}) /\ \A w : PointToSet(g, w) = PointToSet(f, w)
  BY AddPointerIs DEF Good
<1>3. p \in DOMAIN g.pts
  BY <1>2 DEF Regraphed
<1> QED
  BY <1>1, <1>2, <1>3, GoodPointees

LEMMA ChosenIsOne ==
    ASSUME NEW S, S # {}
    PROVE  (CHOOSE v \in S : TRUE) \in S
OBVIOUS

(* A transfer through a pointer begins with its node.                      *)
LEMMA GoodThrough ==
    ASSUME NEW F, NEW f, Good(f, F), NEW l, Known(l, F), NEW r, NEW g, g = Through(f, l, r)
    PROVE  /\ Good(g, F) /\ l \in DOMAIN g.pts
           /\ IsFiniteSet(PointToSet(g, l))
           /\ \A v \in PointToSet(g, l) : Known(v, F)
<1> DEFINE h == Check(f, IsPointer(r))
<1>1. Good(h, F)
  BY GoodCheck
<1>2. g = AddPointer(h, l)
  BY DEF Through
<1> HIDE DEF h
<1> QED
  BY <1>1, <1>2, GoodNode

LEMMA GoodWeakUpdate ==
    ASSUME NEW F, NEW f, Good(f, F), NEW l, l \in DOMAIN f.pts, NEW losesSelf,
           NEW S, IsFiniteSet(S), \A v \in S : Known(v, F), NEW seen
    PROVE  Good(WeakUpdate(f, l, losesSelf, S, seen), F)
<1> DEFINE pointees == PointToSet(f, l)
           new(v) == (PointToSet(f, v) \ {w \in {v} : losesSelf}) \cup S
           changed == l \in pointees /\ (losesSelf \/ new(l) # pointees)
           visited == IF changed THEN {l} \cup (seen \cap (pointees \cup S)) ELSE pointees
           g == AddObjectSet(f, S)
           sets == [v \in visited |-> new(v)]
           h == [g EXCEPT !.pts = Override(sets, @)]
<1>1. Good(g, F)
  BY GoodAddObjectSet
<1>2. Regraphed(f, g, S)
  BY AddObjectSetIs DEF Good
<1>3. Known(l, F) /\ \A v \in DOMAIN f.pts : Known(v, F)
  BY DEF Good
<1>4. pointees \subseteq DOMAIN f.pts
  BY <1>3, GoodPointees
<1>5. DOMAIN sets \subseteq DOMAIN f.pts \cup S
  <2>1. visited \subseteq {l} \cup pointees \cup S
    <3> HIDE DEF pointees, changed
    <3> QED OBVIOUS
  <2>2. DOMAIN sets = visited
    OBVIOUS
  <2> HIDE DEF sets, visited, pointees
  <2> QED
    BY <1>4, <2>1, <2>2
<1>6. \A v \in DOMAIN sets : sets[v] \subseteq PointToSet(f, v) \cup S
  <2> HIDE DEF visited
  <2> QED OBVIOUS
<1>7. WeakUpdate(f, l, losesSelf, S, seen) = IF changed THEN Fault(h, "undefined") ELSE h
  BY Zenon DEF WeakUpdate
<1>8. Good(h, F)
  <2> HIDE DEF g, sets
  <2>1. DOMAIN g.pts = DOMAIN f.pts \cup S
    BY <1>2 DEF Regraphed
  <2>2. \A v \in DOMAIN f.pts : PointToSet(f, v) \subseteq DOMAIN f.pts
    BY DEF Good, Closed, PointToSet
  <2>3. \A v \in S : PointToSet(f, v) \subseteq DOMAIN f.pts \cup S
    BY <2>2 DEF PointToSet
  <2>4. DOMAIN sets \subseteq DOMAIN g.pts /\ \A v \in DOMAIN sets : sets[v] \subseteq DOMAIN g.pts
    BY <1>5, <1>6, <2>1, <2>2, <2>3
  <2> QED
    BY <1>1, <2>4, GoodOverride
<1> HIDE DEF h, changed
<1> QED
  BY <1>7, <1>8, GoodFault

-----------------------------------------------------------------------------
(* The transfer functions of stores and copies.                            *)
LEMMA GoodStoreThrough ==
    ASSUME NEW F, NEW f, Good(f, F), NEW l, Known(l, F), NEW r, Known(r, F), NEW seen
    PROVE  Good(StoreThrough(f, l, r, seen), F)
<1> DEFINE g == Through(f, l, r)
           pointees == PointToSet(g, l)
           h == AddPointer(g, r)
           S == PointToSet(h, r)
<1>1. /\ Good(g, F) /\ l \in DOMAIN g.pts
      /\ \A v \in pointees : Known(v, F)
  BY GoodThrough
<1>2. /\ Good(h, F) /\ l \in DOMAIN h.pts
      /\ \A v \in S : Known(v, F)
      /\ IsFiniteSet(S)
  <2> HIDE DEF g
  <2>1. Regraphed(g, h, {r})
    BY <1>1, AddPointerIs DEF Good
  <2> QED
    BY <1>1, <2>1, GoodNode DEF Regraphed
<1>3. CASE pointees = {}
  <2>1. StoreThrough(f, l, r, seen) = SetTop(g)
    BY <1>3, FS_EmptySet DEF StoreThrough
  <2> HIDE DEF g
  <2> QED
    BY <1>1, <2>1, GoodSetTop
<1>4. CASE pointees # {} /\ Cardinality(pointees) = 1
  <2>1. StoreThrough(f, l, r, seen) = Assign(g, CHOOSE v \in pointees : TRUE, r)
    BY <1>4 DEF StoreThrough
  <2> HIDE DEF g, pointees
  <2> QED
    BY <1>1, <1>4, <2>1, ChosenIsOne, GoodAssign
<1>5. CASE pointees # {} /\ Cardinality(pointees) # 1
  <2>1. StoreThrough(f, l, r, seen) = WeakUpdate(h, l, S # {}, S, seen)
    BY <1>5 DEF StoreThrough
  <2> HIDE DEF h, S
  <2> QED
    BY <1>2, <2>1, GoodWeakUpdate
<1> QED
  BY <1>3, <1>4, <1>5

LEMMA GoodStoreNull ==
    ASSUME NEW F, NEW f, Good(f, F), NEW l, Known(l, F)
    PROVE  Good(StoreNull(f, l), F)
<1> DEFINE g == AddPointer(f, l)
           pointees == PointToSet(g, l)
<1>1. Good(g, F) /\ \A v \in pointees : Known(v, F)
  BY GoodNode
<1>2. CASE pointees = {}
  <2>1. StoreNull(f, l) = SetTop(g)
    BY <1>2, FS_EmptySet DEF StoreNull
  <2> HIDE DEF g
  <2> QED
    BY <1>1, <2>1, GoodSetTop
<1>3. CASE pointees # {} /\ Cardinality(pointees) = 1
  <2>1. StoreNull(f, l) = ClearPointToSet(g, CHOOSE v \in pointees : TRUE)
    BY <1>3 DEF StoreNull
  <2> HIDE DEF g, pointees
  <2> QED
    BY <1>1, <1>3, <2>1, ChosenIsOne, GoodClearPointToSet
<1>4. CASE pointees # {} /\ Cardinality(pointees) # 1
  BY <1>1, <1>4 DEF StoreNull
<1> QED
  BY <1>2, <1>3, <1>4

LEMMA GoodMaps ==
    ASSUME NEW F, NEW f, Good(f, F), NEW S
    PROVE  /\ FieldsOf(f, S) \subseteq DOMAIN f.pts
           /\ PointeesOf(f, S) \subseteq DOMAIN f.pts
           /\ IsFiniteSet(FieldsOf(f, S)) /\ IsFiniteSet(PointeesOf(f, S))
           /\ \A v \in FieldsOf(f, S) \cup PointeesOf(f, S) : Known(v, F)
<1>1. FieldsOf(f, S) \subseteq DOMAIN f.pts /\ PointeesOf(f, S) \subseteq DOMAIN f.pts
  BY DEF Good, MapsAreNodes, FieldsOf, PointeesOf, Range
<1> QED
  BY <1>1, FS_Subset DEF Good

LEMMA GoodArrayStoreNull ==
    ASSUME NEW F, NEW f, Good(f, F), NEW l, Known(l, F)
    PROVE  Good(ArrayStoreNull(f, l), F)
<1> DEFINE g == AddPointer(f, l)
           pointees == PointToSet(g, l)
           h == Check(g, pointees \subseteq g.arrays /\ HavePointees(g, pointees))
           targets == PointeesOf(h, pointees)
<1>1. Good(g, F) /\ \A v \in pointees : Known(v, F)
  BY GoodNode
<1>2. Good(h, F)
  <2> HIDE DEF g, pointees
  <2> QED BY <1>1, GoodCheck
<1>3. ArrayStoreNull(f, l) =
        IF h.fault # "none" THEN h
        ELSE CASE pointees = {} -> SetTop(h)
               [] Cardinality(pointees) = 1 -> ClearPointToSet(h, CHOOSE v \in targets : TRUE)
               [] OTHER -> h
  BY Zenon DEF ArrayStoreNull
<1>4. h.fault = "none" /\ pointees # {} => targets # {}
  <2>1. IsFact(g)
    BY <1>1 DEF Good
  <2> HIDE DEF g
  <2>2. h.fault = "none" => HavePointees(g, pointees) /\ h = g
    BY <2>1, CheckIs
  <2> HIDE DEF h, pointees
  <2> QED
    BY <2>2 DEF HavePointees, PointeesOf
<1>5. \A v \in targets : Known(v, F)
  <2> HIDE DEF h, pointees
  <2> QED BY <1>2, GoodMaps
<1> HIDE DEF targets, h, pointees
<1>6. Good(SetTop(h), F)
  BY <1>2, GoodSetTop
<1>7. targets # {} => Good(ClearPointToSet(h, CHOOSE v \in targets : TRUE), F)
  BY <1>2, <1>5, ChosenIsOne, GoodClearPointToSet
<1>8. \/ ArrayStoreNull(f, l) = h
      \/ ArrayStoreNull(f, l) = SetTop(h)
      \/ targets # {} /\ ArrayStoreNull(f, l) = ClearPointToSet(h, CHOOSE v \in targets : TRUE)
  BY <1>3, <1>4, FS_EmptySet
<1> QED
  BY <1>2, <1>6, <1>7, <1>8

LEMMA GoodLoadStoreField ==
    ASSUME NEW F, NEW f, Good(f, F), NEW l, Known(l, F), NEW r, Known(r, F), NEW seen
    PROVE  Good(LoadStoreField(f, l, r, seen), F)
<1> DEFINE g == Through(f, l, r)
           pointees == PointToSet(g, l)
           h == AddPointer(g, r)
           S == PointToSetOfAll(h, PointToSet(h, r))
<1>1. /\ Good(g, F) /\ l \in DOMAIN g.pts
      /\ \A v \in pointees : Known(v, F)
  BY GoodThrough
<1>2. /\ Good(h, F) /\ l \in DOMAIN h.pts
      /\ \A v \in PointToSet(h, r) : Known(v, F)
      /\ IsFiniteSet(PointToSet(h, r))
  <2> HIDE DEF g
  <2>1. Regraphed(g, h, {r})
    BY <1>1, AddPointerIs DEF Good
  <2> QED
    BY <1>1, <2>1, GoodNode DEF Regraphed
<1>3. IsFiniteSet(S) /\ \A v \in S : Known(v, F)
  <2> HIDE DEF h
  <2> QED BY <1>2, GoodPointeesOfAll
<1>4. CASE pointees = {}
  <2> DEFINE one == LoadThrough(g, CHOOSE v \in pointees : TRUE, r)
             many == WeakUpdate(h, l, FALSE, S, seen)
  <2>1. LoadStoreField(f, l, r, seen) =
          CASE pointees = {} -> SetTop(g)
            [] Cardinality(pointees) = 1 -> one
            [] OTHER -> many
    BY Zenon DEF LoadStoreField
  <2> HIDE DEF g, pointees, h, S, one, many
  <2>2. LoadStoreField(f, l, r, seen) = SetTop(g)
    BY <1>4, <2>1, FS_EmptySet
  <2> QED
    BY <1>1, <2>2, GoodSetTop
<1>5. CASE pointees # {} /\ Cardinality(pointees) = 1
  <2>1. LoadStoreField(f, l, r, seen) = LoadThrough(g, CHOOSE v \in pointees : TRUE, r)
    BY <1>5 DEF LoadStoreField
  <2> HIDE DEF g, pointees
  <2> QED
    BY <1>1, <1>5, <2>1, ChosenIsOne, GoodLoadThrough
<1>6. CASE pointees # {} /\ Cardinality(pointees) # 1
  <2>1. LoadStoreField(f, l, r, seen) = WeakUpdate(h, l, FALSE, S, seen)
    BY <1>6 DEF LoadStoreField
  <2> HIDE DEF h, S
  <2> QED
    BY <1>2, <1>3, <2>1, GoodWeakUpdate
<1> QED
  BY <1>4, <1>5, <1>6

LEMMA GoodReferenceStore ==
    ASSUME NEW F, NEW f, Good(f, F), NEW l, Known(l, F), NEW r, Known(r, F), NEW seen
    PROVE  Good(ReferenceStore(f, l, r, seen), F)
<1> DEFINE g == Through(f, l, r)
           pointees == PointToSet(g, l)
<1>1. /\ Good(g, F) /\ l \in DOMAIN g.pts
      /\ \A v \in pointees : Known(v, F)
  BY GoodThrough
<1>2. CASE pointees = {}
  <2> DEFINE one == Reference(g, CHOOSE v \in pointees : TRUE, r)
             many == WeakUpdate(g, l, FALSE, {r}, seen)
  <2>1. ReferenceStore(f, l, r, seen) =
          CASE pointees = {} -> SetTop(g)
            [] Cardinality(pointees) = 1 -> one
            [] OTHER -> many
    BY Zenon DEF ReferenceStore
  <2> HIDE DEF g, pointees, one, many
  <2>2. ReferenceStore(f, l, r, seen) = SetTop(g)
    BY <1>2, <2>1, FS_EmptySet
  <2> QED
    BY <1>1, <2>2, GoodSetTop
<1>3. CASE pointees # {} /\ Cardinality(pointees) = 1
  <2>1. ReferenceStore(f, l, r, seen) = Reference(g, CHOOSE v \in pointees : TRUE, r)
    BY <1>3 DEF ReferenceStore
  <2> HIDE DEF g, pointees
  <2> QED
    BY <1>1, <1>3, <2>1, ChosenIsOne, GoodReference
<1>4. CASE pointees # {} /\ Cardinality(pointees) # 1
  <2>1. ReferenceStore(f, l, r, seen) = WeakUpdate(g, l, FALSE, {r}, seen)
    BY <1>4 DEF ReferenceStore
  <2> HIDE DEF g
  <2>2. IsFiniteSet({r}) /\ \A v \in {r} : Known(v, F)
    BY FS_Singleton
  <2> QED
    BY <1>1, <2>1, <2>2, GoodWeakUpdate
<1> QED
  BY <1>2, <1>3, <1>4

LEMMA GoodLoadStoreStruct ==
    ASSUME NEW F, NEW f, Good(f, F), NEW l, Known(l, F), NEW r, Known(r, F)
    PROVE  Good(LoadStoreStruct(f, l, r), F)
<1> DEFINE g == Through(f, l, r)
           h == Check(g, AllStruct(g, PointToSet(g, l)))
           targets == FieldsOf(h, PointToSet(h, l))
           k == AddPointer(h, r)
           S == PointToSetOfAll(k, PointToSet(k, r))
           e == AddObjectSet(k, S)
           new == [v \in targets |-> PointToSet(k, v) \cup S]
           weak == [e EXCEPT !.pts = Override(new, @)]
<1>1. Good(h, F)
  <2>1. Good(g, F)
    BY GoodThrough
  <2> HIDE DEF g
  <2> QED
    BY <2>1, GoodCheck
<1>2. /\ targets \subseteq DOMAIN h.pts
      /\ \A v \in targets : Known(v, F)
  <2> HIDE DEF h
  <2> QED
    BY <1>1, GoodMaps
<1>3. LoadStoreStruct(f, l, r) =
        IF h.fault # "none" THEN h
        ELSE CASE targets = {} -> SetTop(h)
               [] Cardinality(targets) = 1 -> LoadThrough(h, CHOOSE v \in targets : TRUE, r)
               [] OTHER -> weak
  BY Zenon DEF LoadStoreStruct
<1>4. /\ Good(k, F)
      /\ targets \subseteq DOMAIN k.pts
      /\ \A v \in PointToSet(k, r) : Known(v, F)
      /\ IsFiniteSet(PointToSet(k, r))
  <2> HIDE DEF h, targets
  <2>1. Regraphed(h, k, {r})
    BY <1>1, AddPointerIs DEF Good
  <2> QED
    BY <1>1, <1>2, <2>1, GoodNode DEF Regraphed
<1> HIDE DEF h, targets
<1>5. IsFiniteSet(S) /\ \A v \in S : Known(v, F)
  <2> HIDE DEF k
  <2> QED BY <1>4, GoodPointeesOfAll
<1>6. Good(e, F) /\ DOMAIN e.pts = DOMAIN k.pts \cup S
  <2> HIDE DEF k, S
  <2>1. Regraphed(k, e, S)
    BY <1>4, AddObjectSetIs DEF Good
  <2> QED
    BY <1>4, <1>5, <2>1, GoodAddObjectSet DEF Regraphed
<1>7. \A v \in targets : PointToSet(k, v) \subseteq DOMAIN k.pts
  <2> HIDE DEF k
  <2> QED
    BY <1>2, <1>4, GoodPointees
<1>8. Good(weak, F)
  <2> HIDE DEF e, k, S
  <2>1. DOMAIN new = targets /\ \A v \in targets : new[v] = PointToSet(k, v) \cup S
    OBVIOUS
  <2> HIDE DEF new
  <2>2. DOMAIN new \subseteq DOMAIN e.pts /\ \A v \in DOMAIN new : new[v] \subseteq DOMAIN e.pts
    BY <1>4, <1>6, <1>7, <2>1
  <2> QED
    BY <1>6, <2>2, GoodOverride
<1> HIDE DEF weak
<1>9. targets # {} => Good(LoadThrough(h, CHOOSE v \in targets : TRUE, r), F)
  BY <1>1, <1>2, ChosenIsOne, GoodLoadThrough
<1>10. Good(SetTop(h), F)
  BY <1>1, GoodSetTop
<1>11. \/ LoadStoreStruct(f, l, r) \in {h, SetTop(h), weak}
       \/ /\ targets # {}
          /\ LoadStoreStruct(f, l, r) = LoadThrough(h, CHOOSE v \in targets : TRUE, r)
  BY <1>3, FS_EmptySet
<1> QED
  BY <1>1, <1>8, <1>9, <1>10, <1>11

(* The structs are copied to one after the other: a fold over them.        *)
CopyOne(c, struct, h) ==
    LET k == LoadStoreStruct(h, struct, c.r)
    IN  IF PointToSet(h, struct) = {} THEN Fault(k, "undefined") ELSE k

Copying == INSTANCE FoldLemmas WITH
    Step <- CopyOne,
    Item <- LAMBDA c, struct : struct,
    Pick <- LAMBDA s : CHOOSE x \in s : TRUE,
    Related <- LAMBDA c, f, g : Good(f, c.F)

LEMMA GoodLoadStorePointer2Struct ==
    ASSUME NEW F, NEW f, Good(f, F), NEW l, Known(l, F), NEW r, Known(r, F)
    PROVE  Good(LoadStorePointer2Struct(f, l, r), F)
<1> DEFINE g == Through(f, l, r)
           c == [r |-> r, F |-> F]
           S == PointToSet(g, l)
<1>1. /\ Good(g, F)
      /\ \A v \in S : Known(v, F)
      /\ IsFiniteSet(S)
  BY GoodThrough
<1>2. LoadStorePointer2Struct(f, l, r) = Copying!Fold(c, g, S)
  BY Zenon DEF LoadStorePointer2Struct, FoldSet, Copying!Fold, MapThenFoldSet,
               Copying!MapThenFoldSet, CopyOne
<1>3. Copying!IsFiniteSet(S) /\ Copying!Picks(S)
  <2>1. Copying!IsFiniteSet(S)
    BY <1>1 DEF IsFiniteSet, Copying!IsFiniteSet
  <2>2. \A s : s # {} => (CHOOSE x \in s : TRUE) \in s
    OBVIOUS
  <2> QED
    BY <2>1, <2>2, Zenon DEF Copying!Picks
<1> HIDE DEF g, S
<1>4. c.r = r /\ c.F = F
  OBVIOUS
<1> HIDE DEF c
<1>5. \A x \in S : \A v, w : Good(v, c.F) => Good(CopyOne(c, x, v), c.F)
  <2> SUFFICES ASSUME NEW x \in S, NEW v, Good(v, F)
               PROVE  Good(CopyOne(c, x, v), F)
    BY <1>4
  <2>1. Good(LoadStoreStruct(v, x, c.r), F)
    BY <1>1, <1>4, GoodLoadStoreStruct
  <2> QED
    BY <2>1, GoodFault DEF CopyOne
<1>6. Good(Copying!Fold(c, g, S), c.F)
  <2>1. Good(g, c.F)
    BY <1>1, <1>4
  <2> QED
    BY <1>3, <1>5, <2>1, Copying!FoldKeeps, Zenon
<1> QED
  BY <1>2, <1>4, <1>6

-----------------------------------------------------------------------------
(* Fields, arrays and the objects the analysis makes up.                   *)
LEMMA GoodFieldReference ==
    ASSUME NEW F, NEW f, Good(f, F), NEW l, Known(l, F), NEW r
    PROVE  Good(FieldReference(f, l, r), F)
<1> DEFINE g == Check(f, IsStruct(f, r))
<1>1. Good(g, F)
  BY GoodCheck
<1>2. g.fault = "none" => IsStruct(f, r) /\ g = f
  BY CheckIs DEF Good
<1>3. FieldReference(f, l, r) = IF g.fault # "none" THEN g ELSE Reference(g, l, g.field[r])
  BY Zenon DEF FieldReference
<1> HIDE DEF g
<1>4. CASE g.fault # "none"
  BY <1>1, <1>3, <1>4
<1>5. CASE g.fault = "none"
  <2>1. g.field[r] \in DOMAIN g.pts
    BY <1>1, <1>2, <1>5 DEF IsStruct, Good, MapsAreNodes, Range
  <2>2. Known(g.field[r], F)
    BY <1>1, <2>1 DEF Good
  <2>3. FieldReference(f, l, r) = Reference(g, l, g.field[r])
    BY <1>3, <1>5
  <2> QED
    BY <1>1, <2>2, <2>3, GoodReference
<1> QED
  BY <1>4, <1>5

LEMMA GoodFieldAssign ==
    ASSUME NEW F, NEW f, Good(f, F), NEW l, Known(l, F), NEW r
    PROVE  Good(FieldAssign(f, l, r), F)
BY GoodMaps, GoodAssignSet DEF FieldAssign

LEMMA GoodFieldLoad ==
    ASSUME NEW F, NEW f, Good(f, F), NEW l, Known(l, F), NEW r
    PROVE  Good(FieldLoad(f, l, r), F)
<1> DEFINE structs == PointToSetOfAll(f, PointToSet(f, r))
           g == Check(f, AllStruct(f, structs))
           S == FieldsOf(f, structs)
<1>1. IsFiniteSet(S) /\ \A v \in S : Known(v, F)
  BY GoodMaps
<1>2. Good(g, F)
  BY GoodCheck
<1>3. FieldLoad(f, l, r) = AssignSet(g, l, S)
  BY Zenon DEF FieldLoad
<1> HIDE DEF g, S
<1> QED
  BY <1>1, <1>2, <1>3, GoodAssignSet

LEMMA GoodStructFieldHybrid ==
    ASSUME NEW F, NEW f, Good(f, F), NEW l, Known(l, F), NEW r, Known(r, F)
    PROVE  Good(StructFieldHybrid(f, l, r), F)
<1> DEFINE S == PointToSet(f, r)
           rest == {v \in S : ~IsStruct(f, v)}
<1>1. IsFiniteSet(FieldsOf(f, S)) /\ \A v \in FieldsOf(f, S) : Known(v, F)
  BY GoodMaps
<1>2. IsFiniteSet(S) /\ \A v \in S : Known(v, F)
  BY GoodPointees
<1>3. IsFiniteSet(rest)
  <2>1. rest \subseteq S
    OBVIOUS
  <2> HIDE DEF rest, S
  <2> QED BY <1>2, <2>1, FS_Subset
<1>4. StructFieldHybrid(f, l, r) = AssignSet(f, l, FieldsOf(f, S) \cup rest)
  BY Zenon DEF StructFieldHybrid
<1>5. IsFiniteSet(FieldsOf(f, S) \cup rest) /\ \A v \in FieldsOf(f, S) \cup rest : Known(v, F)
  BY <1>1, <1>2, <1>3, FS_Union
<1> HIDE DEF rest, S
<1> QED
  BY <1>4, <1>5, GoodAssignSet

LEMMA GoodArrayAssign ==
    ASSUME NEW F, NEW f, Good(f, F), NEW l, Known(l, F), NEW r, Known(r, F)
    PROVE  Good(ArrayAssign(f, l, r), F)
<1> DEFINE g == AddPointer(f, r)
           arrays == PointToSet(g, r)
           h == Check(g, HavePointees(g, arrays))
           S == PointeesOf(g, arrays)
<1>1. Good(g, F)
  BY GoodAddPointer
<1>2. ArrayAssign(f, l, r) = AssignSet(h, l, S)
  BY Zenon DEF ArrayAssign
<1> HIDE DEF g
<1>3. IsFiniteSet(S) /\ \A v \in S : Known(v, F)
  BY <1>1, GoodMaps
<1>4. Good(h, F)
  BY <1>1, GoodCheck
<1> HIDE DEF h, S
<1> QED
  BY <1>2, <1>3, <1>4, GoodAssignSet

LEMMA GoodMapped ==
    ASSUME NEW F, NEW f, Good(f, F), NEW g, IsFact(g), g.pts = f.pts, MapsAreNodes(g)
    PROVE  Good(g, F)
BY DEF Good, Closed

LEMMA SetStructFieldIs ==
    ASSUME NEW f, IsFact(f), NEW struct, NEW field, NEW g, g = SetStructField(f, struct, field)
    PROVE  /\ IsFact(g) /\ g.pts = f.pts /\ g.pointee = f.pointee /\ g.arrays = f.arrays
           /\ g.field = Put(f.field, struct, field) /\ g.fields = f.fields \cup {field}
<1> DEFINE new == Put(f.field, struct, field)
           more == f.fields \cup {field}
<1>1. g = [f EXCEPT !.field = new, !.fields = more]
  BY DEF SetStructField
<1> HIDE DEF new, more
<1>2. IsFact(g) /\ g.pts = f.pts /\ g.pointee = f.pointee /\ g.arrays = f.arrays
      /\ g.field = new /\ g.fields = more
  BY <1>1 DEF IsFact
<1> QED
  BY <1>2 DEF new, more

LEMMA GoodSetStructField ==
    ASSUME NEW F, NEW f, Good(f, F), NEW struct \in DOMAIN f.pts, NEW field \in DOMAIN f.pts
    PROVE  Good(SetStructField(f, struct, field), F)
<1> DEFINE g == SetStructField(f, struct, field)
<1>1. /\ IsFact(g) /\ g.pts = f.pts /\ g.pointee = f.pointee /\ g.arrays = f.arrays
      /\ g.field = Put(f.field, struct, field) /\ g.fields = f.fields \cup {field}
  <2>1. IsFact(f) /\ g = SetStructField(f, struct, field)
    BY DEF Good
  <2> HIDE DEF g
  <2> QED
    BY <2>1, SetStructFieldIs
<1> HIDE DEF g
<1>2. DOMAIN g.field = DOMAIN f.field \cup {struct}
  BY <1>1 DEF Put, Override
<1>3. Range(g.field) \subseteq Range(f.field) \cup {field}
  BY <1>1 DEF Put, Override, Range
<1>4. MapsAreNodes(g)
  BY <1>1, <1>2, <1>3 DEF MapsAreNodes, Good
<1>5. Good(g, F)
  BY <1>1, <1>4, GoodMapped
<1> QED
  BY <1>5 DEF g

LEMMA GoodSetMockPointee ==
    ASSUME NEW F, NEW f, Good(f, F), NEW p \in DOMAIN f.pts, NEW o \in DOMAIN f.pts
    PROVE  Good(SetMockPointee(f, p, o), F)
<1> DEFINE h == Check(f, p \in DOMAIN f.pointee => f.pointee[p] = o)
           g == [h EXCEPT !.pointee = Override(@, [x \in {p} |-> o])]
<1>1. Good(h, F)
  BY GoodCheck
<1>2. h.pts = f.pts
  BY CheckIs DEF Good
<1> HIDE DEF h
<1>3. /\ IsFact(g) /\ g.pts = h.pts /\ g.field = h.field /\ g.fields = h.fields /\ g.arrays = h.arrays
      /\ g.pointee = Override(h.pointee, [x \in {p} |-> o])
  BY <1>1 DEF IsFact, Good
<1>4. SetMockPointee(f, p, o) = g
  BY Zenon DEF SetMockPointee, h
<1> HIDE DEF g
<1>5. DOMAIN g.pointee = DOMAIN h.pointee \cup {p}
  BY <1>3 DEF Override
<1>6. Range(g.pointee) \subseteq Range(h.pointee) \cup {o}
  BY <1>3 DEF Override, Range
<1>7. MapsAreNodes(g)
  BY <1>1, <1>2, <1>3, <1>5, <1>6 DEF MapsAreNodes, Good
<1> QED
  BY <1>1, <1>3, <1>4, <1>7, GoodMapped

LEMMA GoodArray ==
    ASSUME NEW F, NEW f, Good(f, F), NEW o \in DOMAIN f.pts, NEW g,
           g = [f EXCEPT !.arrays = @ \cup {o}]
    PROVE  Good(g, F) /\ g.pts = f.pts
<1>1. /\ IsFact(g) /\ g.pts = f.pts /\ g.field = f.field /\ g.fields = f.fields
      /\ g.pointee = f.pointee /\ g.arrays = f.arrays \cup {o}
  BY DEF IsFact, Good
<1>2. MapsAreNodes(g)
  BY <1>1 DEF MapsAreNodes, Good
<1> QED
  BY <1>1, <1>2, GoodMapped

(* A made up object is one more node, and what points to it is another.    *)
LEMMA GoodMade ==
    ASSUME NEW F, NEW f, Good(f, F), NEW v, Known(v, F), NEW o, Known(o, F), NEW g,
           g = Reference(AddObject(f, o), v, o)
    PROVE  Good(g, F) /\ v \in DOMAIN g.pts /\ o \in DOMAIN g.pts
<1> DEFINE h == AddObject(f, o)
<1>1. Good(h, F)
  BY GoodAddObject
<1>2. g = Reference(h, v, o)
  OBVIOUS
<1> HIDE DEF h
<1>3. Regraphed(h, g, {v, o})
  BY <1>1, <1>2, ReferenceIs DEF Good
<1> QED
  BY <1>1, <1>2, <1>3, GoodReference DEF Regraphed

LEMMA GoodMockField ==
    ASSUME NEW F, NEW f, Good(f, F), NEW struct, Known(struct, F), NEW n
    PROVE  Good(MockField(f, struct, n), F)
<1> DEFINE field == <<"field", struct, n>>
           g == Reference(AddObject(f, field), struct, field)
<1>1. Known(field, F)
  BY DEF Known
<1>2. MockField(f, struct, n) = SetStructField(g, struct, field)
  BY Zenon DEF MockField
<1> HIDE DEF field
<1>3. Good(g, F) /\ struct \in DOMAIN g.pts /\ field \in DOMAIN g.pts
  BY <1>1, GoodMade
<1> HIDE DEF g
<1> QED
  BY <1>2, <1>3, GoodSetStructField

(* The chain of mock objects: a fold over the layers of the type.          *)
GoodMocked(made, F) == Good(made.fact, F) /\ Known(made.last, F)

LEMMA GoodMockPointee ==
    ASSUME NEW F, NEW made, GoodMocked(made, F), NEW layer, NEW n
    PROVE  GoodMocked(MockPointee(made, layer, n), F)
<1> DEFINE o == <<"mock", made.last, n>>
           g == Reference(AddObject(made.fact, o), made.last, o)
           h == IF layer = "array" THEN [g EXCEPT !.arrays = @ \cup {o}] ELSE g
<1>1. Known(o, F)
  BY DEF Known
<1>2. MockPointee(made, layer, n) = [fact |-> SetMockPointee(h, made.last, o), last |-> o]
  BY Zenon DEF MockPointee
<1> HIDE DEF o
<1>3. Good(g, F) /\ made.last \in DOMAIN g.pts /\ o \in DOMAIN g.pts
  BY <1>1, GoodMade DEF GoodMocked
<1> HIDE DEF g
<1>4. Good(h, F) /\ made.last \in DOMAIN h.pts /\ o \in DOMAIN h.pts
  BY <1>3, GoodArray
<1> HIDE DEF h
<1>5. Good(SetMockPointee(h, made.last, o), F)
  BY <1>4, GoodSetMockPointee
<1> QED
  BY <1>1, <1>2, <1>5 DEF GoodMocked

Mocking == INSTANCE FoldLemmas WITH
    Step <- LAMBDA c, layer, made : MockPointee(made, layer, c.n),
    Item <- LAMBDA c, i : c.layers[i],
    Pick <- LAMBDA s : Max(s),
    Related <- LAMBDA c, made, other : GoodMocked(made, c.F)

(* The layers mocked are the indices of a sequence: finitely many, and a   *)
(* set of them has a last.                                                 *)
Layers(type) == SubSeq(type, 1, Depth(type))

LEMMA LayersDomain ==
    ASSUME NEW type \in Seq(STRING)
    PROVE  Depth(type) \in Nat /\ DOMAIN Layers(type) = 1 .. Depth(type)
<1> DEFINE I == {i \in DOMAIN type : \A j \in 1 .. i : type[j] \in {"pointer", "array"}}
<1>1. DOMAIN type = 1 .. Len(type) /\ Len(type) \in Nat
  OBVIOUS
<1>2. IsFiniteSet(1 .. Len(type)) /\ Cardinality(1 .. Len(type)) = Len(type)
  BY <1>1, FS_Interval
<1>3. I \subseteq 1 .. Len(type)
  BY <1>1
<1>4. Depth(type) = Cardinality(I)
  BY DEF Depth
<1> HIDE DEF I
<1>5. IsFiniteSet(I) /\ Cardinality(I) <= Len(type)
  <2>1. Cardinality(I) <= Cardinality(1 .. Len(type)) /\ IsFiniteSet(I)
    BY <1>2, <1>3, FS_Subset
  <2> QED
    BY <1>2, <2>1
<1>6. Depth(type) \in Nat /\ Depth(type) <= Len(type)
  BY <1>4, <1>5, FS_CardinalityType
<1> QED
  BY <1>1, <1>6 DEF Layers

LEMMA MaxPicks ==
    ASSUME NEW S, S \subseteq Nat, IsFiniteSet(S)
    PROVE  \A s \in SUBSET S : s # {} => Max(s) \in s
<1> SUFFICES ASSUME NEW s \in SUBSET S, s # {} PROVE Max(s) \in s
  OBVIOUS
<1> DEFINE rank == [x \in s |-> x]
<1>1. IsFiniteSet(s)
  BY FS_Subset
<1>2. Mocking!IsFiniteSet(s)
  BY <1>1 DEF IsFiniteSet, Mocking!IsFiniteSet
<1>3. \A x \in s : rank[x] = x /\ rank[x] \in Nat
  OBVIOUS
<1> HIDE DEF rank
<1>4. PICK x \in s : \A y \in s : rank[y] <= rank[x]
  BY <1>2, <1>3, Mocking!HighestExists
<1>5. \A y \in s : x >= y
  BY <1>3, <1>4
<1> QED
  BY <1>5 DEF Max

LEMMA GoodMockObject ==
    ASSUME NEW F, NEW f, Good(f, F), NEW v, Known(v, F), NEW type \in Seq(STRING), NEW n
    PROVE  Good(MockObject(f, v, type, n), F)
<1> DEFINE base == [fact |-> f, last |-> v]
           c == [n |-> n, F |-> F, layers |-> Layers(type)]
           S == DOMAIN Layers(type)
           mocked == Mocking!Fold(c, base, S)
<1>1. MockObject(f, v, type, n) =
        IF type[Depth(type) + 1] = "struct" THEN MockField(mocked.fact, mocked.last, n)
        ELSE mocked.fact
  <2> DEFINE chain == FoldLeft(LAMBDA made, layer : MockPointee(made, layer, n), base, Layers(type))
  <2>1. MockObject(f, v, type, n) =
          IF type[Depth(type) + 1] = "struct" THEN MockField(chain.fact, chain.last, n)
          ELSE chain.fact
    BY Zenon DEF MockObject, Layers
  <2>2. chain = mocked
    BY Zenon DEF FoldLeft, Mocking!Fold, MapThenFoldSet, Mocking!MapThenFoldSet
  <2> QED
    BY <2>1, <2>2, Zenon
<1>2. S = 1 .. Depth(type) /\ Depth(type) \in Nat
  BY LayersDomain
<1>3. IsFiniteSet(S) /\ S \subseteq Nat
  BY <1>2, FS_Interval
<1> HIDE DEF S
<1>4. Mocking!IsFiniteSet(S) /\ Mocking!Picks(S)
  <2>1. Mocking!IsFiniteSet(S)
    BY <1>3 DEF IsFiniteSet, Mocking!IsFiniteSet
  <2> QED
    BY <1>3, <2>1, MaxPicks, Zenon DEF Mocking!Picks
<1>5. GoodMocked(base, c.F) /\ c.F = F
  BY DEF GoodMocked
<1> HIDE DEF base, c
<1>6. \A x \in S : \A made : GoodMocked(made, c.F) => GoodMocked(MockPointee(made, c.layers[x], c.n), c.F)
  BY GoodMockPointee
<1>7. GoodMocked(mocked, c.F)
  BY <1>4, <1>5, <1>6, Mocking!FoldKeeps, Zenon
<1> HIDE DEF mocked
<1> QED
  BY <1>1, <1>5, <1>7, GoodMockField DEF GoodMocked

-----------------------------------------------------------------------------
(* Merging two facts, and the edges of a call.                             *)
LEMMA UnionFactIs ==
    ASSUME NEW f, IsFact(f), NEW src, NEW g, g = UnionFact(f, src)
    PROVE  /\ IsFact(g) /\ g.pts = UnionPts(f.pts, src.pts)
           /\ g.field = Override(f.field, src.field) /\ g.fields = f.fields \cup src.fields
           /\ g.pointee = Override(f.pointee, src.pointee) /\ g.arrays = f.arrays \cup src.arrays
<1> DEFINE h == Check(f, \A v \in DOMAIN src.pts : \A o \in src.pts[v] : IsObject(o))
           pts == UnionPts(f.pts, src.pts)
           field == Override(f.field, src.field)
           fields == f.fields \cup src.fields
           pointee == Override(f.pointee, src.pointee)
           arrays == f.arrays \cup src.arrays
<1>1. IsFact(h) /\ SameMaps(f, h) /\ h.pts = f.pts
  BY CheckIs
<1> HIDE DEF h
<1>2. g = [h EXCEPT !.pts = pts, !.field = field, !.fields = fields, !.pointee = pointee, !.arrays = arrays]
  <2>1. g = [h EXCEPT !.pts = UnionPts(h.pts, src.pts), !.field = Override(h.field, src.field),
                      !.fields = h.fields \cup src.fields, !.pointee = Override(h.pointee, src.pointee),
                      !.arrays = h.arrays \cup src.arrays]
    BY Zenon DEF UnionFact, h
  <2> QED
    BY <1>1, <2>1, Zenon DEF SameMaps
<1> HIDE DEF pts, field, fields, pointee, arrays
<1>3. IsFact(g) /\ g.pts = pts /\ g.field = field /\ g.fields = fields /\ g.pointee = pointee /\ g.arrays = arrays
  BY <1>1, <1>2 DEF IsFact
<1> QED
  BY <1>3 DEF pts, field, fields, pointee, arrays

LEMMA OverrideIs ==
    ASSUME NEW f, NEW g
    PROVE  /\ DOMAIN Override(f, g) = DOMAIN f \cup DOMAIN g
           /\ Range(Override(f, g)) \subseteq Range(f) \cup Range(g)
BY DEF Override, Range

LEMMA GoodUnionFact ==
    ASSUME NEW F, NEW f, Good(f, F), NEW src, Good(src, F)
    PROVE  Good(UnionFact(f, src), F)
<1> DEFINE g == UnionFact(f, src)
<1>1. /\ IsFact(g) /\ g.pts = UnionPts(f.pts, src.pts)
      /\ g.field = Override(f.field, src.field) /\ g.fields = f.fields \cup src.fields
      /\ g.pointee = Override(f.pointee, src.pointee) /\ g.arrays = f.arrays \cup src.arrays
  <2>1. g = UnionFact(f, src) /\ IsFact(f)
    BY DEF Good
  <2> HIDE DEF g
  <2> QED
    BY <2>1, UnionFactIs
<1> HIDE DEF g
<1>2. DOMAIN g.pts = DOMAIN f.pts \cup DOMAIN src.pts
  BY <1>1 DEF UnionPts
<1>3. Closed(g)
  BY <1>1, <1>2 DEF UnionPts, Closed, Good
<1>4. IsFiniteSet(DOMAIN g.pts)
  BY <1>2, FS_Union DEF Good
<1>5. /\ DOMAIN g.field = DOMAIN f.field \cup DOMAIN src.field
      /\ Range(g.field) \subseteq Range(f.field) \cup Range(src.field)
      /\ DOMAIN g.pointee = DOMAIN f.pointee \cup DOMAIN src.pointee
      /\ Range(g.pointee) \subseteq Range(f.pointee) \cup Range(src.pointee)
  <2>1. \A a, b : /\ DOMAIN Override(a, b) = DOMAIN a \cup DOMAIN b
                  /\ Range(Override(a, b)) \subseteq Range(a) \cup Range(b)
    BY OverrideIs
  <2> QED
    BY <1>1, <2>1, Zenon
<1>6. MapsAreNodes(g)
  BY <1>1, <1>2, <1>5 DEF MapsAreNodes, Good
<1>7. Good(g, F)
  BY <1>1, <1>2, <1>3, <1>4, <1>6 DEF Good
<1> QED
  BY <1>7 DEF g

LEMMA GoodEdges ==
    ASSUME NEW F, NEW f, Good(f, F), NEW edges
    PROVE  Good([f EXCEPT !.edges = edges], F)
<1> DEFINE g == [f EXCEPT !.edges = edges]
<1>1. /\ IsFact(g) /\ SameMaps(f, g) /\ g.pts = f.pts
  BY DEF IsFact, SameMaps, Good
<1> HIDE DEF g
<1>2. Good(g, F)
  BY <1>1 DEF Good, Closed, MapsAreNodes, SameMaps
<1> QED
  BY <1>2 DEF g

LEMMA GoodEmptyFact ==
    ASSUME NEW F
    PROVE  Good(EmptyFact, F)
<1>1. EmptyFact.pts = << >> /\ EmptyFact.field = << >> /\ EmptyFact.pointee = << >>
      /\ EmptyFact.fields = {} /\ EmptyFact.arrays = {} /\ IsFact(EmptyFact)
  BY DEF EmptyFact, IsFact
<1>2. DOMAIN << >> = {} /\ Range(<< >>) = {}
  BY DEF Range
<1> HIDE DEF EmptyFact
<1> QED
  BY <1>1, <1>2, FS_EmptySet DEF Good, Closed, MapsAreNodes

-----------------------------------------------------------------------------
(* No transfer function leaves a graph that is not closed.                 *)
LEMMA GoodTransferAlloca ==
    ASSUME NEW F, NEW f, Good(f, F), NEW i, Known(i.value, F), i.type \in Seq(STRING), NEW n
    PROVE  Good(TransferAlloca(f, i, n), F)
<1>1. Good(AddPointer(f, i.value), F) /\ Good(AddObject(f, i.value), F)
  BY GoodAddPointer, GoodAddObject
<1>2. Good(MockObject(AddObject(f, i.value), i.value, i.type, n), F)
  BY <1>1, GoodMockObject
<1>3. TransferAlloca(f, i, n) \in {AddPointer(f, i.value), AddObject(f, i.value),
                                   MockObject(AddObject(f, i.value), i.value, i.type, n)}
  BY DEF TransferAlloca
<1> QED
  BY <1>1, <1>2, <1>3

LEMMA GoodTransferLoad ==
    ASSUME NEW F, NEW f, Good(f, F), NEW i, Known(i.value, F), Known(i.pointer, F)
    PROVE  Good(TransferLoad(f, i), F)
BY GoodAssign, GoodLoadThrough DEF TransferLoad

LEMMA GoodTransferStoreArgument ==
    ASSUME NEW F, NEW f, Good(f, F), NEW i, Known(i.pointer, F), Known(i.operand, F),
           i.type \in Seq(STRING), NEW isEntrypoint, NEW n, NEW seen
    PROVE  Good(TransferStoreArgument(f, i, isEntrypoint, n, seen), F)
<1> DEFINE store == IF IsAlloca(i.pointer)
                    THEN IF isEntrypoint THEN Reference(AddObject(f, i.operand), i.pointer, i.operand)
                                         ELSE Assign(f, i.pointer, i.operand)
                    ELSE StoreThrough(IF isEntrypoint THEN AddObject(f, i.operand) ELSE f,
                                      i.pointer, i.operand, seen)
<1>1. TransferStoreArgument(f, i, isEntrypoint, n, seen) =
        IF isEntrypoint THEN MockObject(store, i.operand, i.type, n) ELSE store
  BY Zenon DEF TransferStoreArgument
<1>2. Good(store, F)
  <2> DEFINE g == AddObject(f, i.operand)
  <2>1. Good(g, F)
    BY GoodAddObject
  <2> HIDE DEF g
  <2>2. /\ Good(Reference(g, i.pointer, i.operand), F)
        /\ Good(Assign(f, i.pointer, i.operand), F)
        /\ Good(StoreThrough(g, i.pointer, i.operand, seen), F)
        /\ Good(StoreThrough(f, i.pointer, i.operand, seen), F)
    BY <2>1, GoodReference, GoodAssign, GoodStoreThrough
  <2> QED
    BY <2>2 DEF g
<1> HIDE DEF store
<1>3. Good(MockObject(store, i.operand, i.type, n), F)
  BY <1>2, GoodMockObject
<1> QED
  BY <1>1, <1>2, <1>3

LEMMA GoodTransferStore ==
    ASSUME NEW F, NEW f, Good(f, F), NEW i, Known(i.pointer, F), Known(i.operand, F),
           i.operand[1] = "argument" => i.type \in Seq(STRING), NEW isEntrypoint, NEW n,
           NEW seen
    PROVE  Good(TransferStore(f, i, isEntrypoint, n, seen), F)
<1> DEFINE l == i.pointer
           r == i.operand
<1>1. Known(l, F) /\ Known(r, F)
  OBVIOUS
<1>2. Good(StoreValue(f, l, r, seen), F)
  <2> HIDE DEF l, r
  <2>1. /\ Good(ClearPointToSet(f, l), F) /\ Good(Assign(f, l, r), F)
        /\ Good(StoreNull(f, l), F) /\ Good(StoreThrough(f, l, r, seen), F)
    BY <1>1, GoodClearPointToSet, GoodAssign, GoodStoreNull, GoodStoreThrough
  <2> QED
    BY <2>1 DEF StoreValue
<1>3. Good(Reference(f, l, r), F) /\ Good(ReferenceStore(f, l, r, seen), F)
  <2> HIDE DEF l, r
  <2> QED
    BY <1>1, GoodReference, GoodReferenceStore
<1>4. r[1] = "argument" => Good(TransferStoreArgument(f, i, isEntrypoint, n, seen), F)
  BY GoodTransferStoreArgument
<1>5. TransferStore(f, i, isEntrypoint, n, seen) =
        CASE r[1] = "argument" -> TransferStoreArgument(f, i, isEntrypoint, n, seen)
          [] IsAlloca(r) -> IF IsAlloca(l) THEN Reference(f, l, r)
                                         ELSE ReferenceStore(f, l, r, seen)
          [] OTHER -> StoreValue(f, l, r, seen)
  BY Zenon DEF TransferStore
<1> HIDE DEF l, r
<1> QED
  BY <1>2, <1>3, <1>4, <1>5

LEMMA GoodTransferGetElemPtr ==
    ASSUME NEW F, NEW f, Good(f, F), NEW i, Known(i.value, F), Known(i.pointer, F)
    PROVE  Good(TransferGetElemPtr(f, i), F)
<1> DEFINE l == i.value
           r == i.pointer
           g == AddPointer(f, r)
<1>1. Known(l, F) /\ Known(r, F)
  OBVIOUS
<1> HIDE DEF l, r
<1>2. Good(g, F)
  BY <1>1, GoodAddPointer
<1>3. /\ Good(ArrayAssign(f, l, r), F) /\ Good(Assign(f, l, r), F) /\ Good(FieldReference(f, l, r), F)
  BY <1>1, GoodArrayAssign, GoodAssign, GoodFieldReference
<1>4. /\ Good(Fault(g, "assert"), F) /\ Good(FieldAssign(g, l, r), F) /\ Good(Assign(g, l, r), F)
      /\ Good(StructFieldHybrid(g, l, r), F) /\ Good(FieldLoad(g, l, r), F)
  <2> HIDE DEF g
  <2> QED
    BY <1>1, <1>2, GoodFault, GoodFieldAssign, GoodAssign, GoodStructFieldHybrid, GoodFieldLoad
<1>5. TransferStructGetElemPtr(f, l, r) \in
        {FieldReference(f, l, r), Fault(g, "assert"), FieldAssign(g, l, r), Assign(g, l, r),
         StructFieldHybrid(g, l, r), FieldLoad(g, l, r)}
  BY DEF TransferStructGetElemPtr
<1> HIDE DEF g
<1>6. Good(TransferStructGetElemPtr(f, l, r), F)
  BY <1>3, <1>4, <1>5
<1>7. TransferGetElemPtr(f, i) \in
        {TransferStructGetElemPtr(f, l, r), ArrayAssign(f, l, r), Assign(f, l, r), f}
  BY DEF TransferGetElemPtr, l, r
<1> QED
  BY <1>3, <1>6, <1>7

LEMMA GoodTransferBitCast ==
    ASSUME NEW F, NEW f, Good(f, F), NEW i, Known(i.value, F), Known(i.operand, F),
           i.type \in Seq(STRING), NEW n
    PROVE  Good(TransferBitCast(f, i, n), F)
<1>1. Good(MockObject(f, i.value, i.type, n), F) /\ Good(Assign(f, i.value, i.operand), F)
  BY GoodMockObject, GoodAssign
<1>2. TransferBitCast(f, i, n) \in
        {MockObject(f, i.value, i.type, n), Assign(f, i.value, i.operand), f}
  BY DEF TransferBitCast
<1> QED
  BY <1>1, <1>2

LEMMA GoodTransferMemCpy ==
    ASSUME NEW F, NEW f, Good(f, F), NEW i, Known(i.pointer, F), Known(i.operand, F),
           NEW seen
    PROVE  Good(TransferMemCpy(f, i, seen), F)
<1> DEFINE l == i.pointer
           r == i.operand
           g == AddPointer(f, l)
<1>1. Good(g, F)
  BY GoodAddPointer
<1>2. TransferMemCpy(f, i, seen) \in
        {LoadStoreStruct(g, l, r), LoadStoreField(g, l, r, seen), LoadStorePointer2Struct(g, l, r),
         Fault(g, "assert")}
  BY DEF TransferMemCpy
<1> HIDE DEF g
<1>3. /\ Good(LoadStoreStruct(g, l, r), F) /\ Good(LoadStoreField(g, l, r, seen), F)
      /\ Good(LoadStorePointer2Struct(g, l, r), F) /\ Good(Fault(g, "assert"), F)
  BY <1>1, GoodLoadStoreStruct, GoodLoadStoreField, GoodLoadStorePointer2Struct, GoodFault
<1> QED
  BY <1>2, <1>3

LEMMA GoodTransferMemSet ==
    ASSUME NEW F, NEW f, Good(f, F), NEW i, Known(i.pointer, F)
    PROVE  Good(TransferMemSet(f, i), F)
<1> DEFINE l == i.pointer
           g == AddPointer(f, l)
<1>1. Good(g, F)
  BY GoodAddPointer
<1>2. TransferMemSet(f, i) \in
        {Fault(f, "assert"), Fault(g, "assert"), ArrayStoreNull(g, l), StoreNull(g, l)}
  BY DEF TransferMemSet
<1> HIDE DEF g
<1>3. /\ Good(Fault(f, "assert"), F) /\ Good(Fault(g, "assert"), F)
      /\ Good(ArrayStoreNull(g, l), F) /\ Good(StoreNull(g, l), F)
  BY <1>1, GoodFault, GoodArrayStoreNull, GoodStoreNull
<1> QED
  BY <1>2, <1>3

LEMMA InstructionOperands ==
    ASSUME NEW F, NEW i, IsInstruction(i), KnownOperands(i, F)
    PROVE  /\ i.op \in {"alloca", "load", "gep", "bitcast"} => Known(i.value, F)
           /\ i.op \in {"load", "gep", "store", "memcpy", "memset"} => Known(i.pointer, F)
           /\ i.op \in {"store", "memcpy", "memset", "bitcast"} => Known(i.operand, F)
           /\ i.op \in {"alloca", "bitcast"} => i.type \in Seq(STRING)
           /\ i.op = "store" /\ i.operand[1] = "argument" => i.type \in Seq(STRING)
<1>1. /\ i.op = "alloca" => "value" \in DOMAIN i
      /\ i.op \in {"load", "gep"} => "value" \in DOMAIN i /\ "pointer" \in DOMAIN i
      /\ i.op \in {"store", "memcpy", "memset"} => "operand" \in DOMAIN i /\ "pointer" \in DOMAIN i
      /\ i.op = "bitcast" => "value" \in DOMAIN i /\ "operand" \in DOMAIN i
  BY DEF IsInstruction, OperandsOf
<1> QED
  BY <1>1 DEF IsInstruction, KnownOperands, MakesObjects

THEOREM GoodTransferInst ==
    ASSUME NEW F, NEW f, Good(f, F), NEW i, IsInstruction(i), i.op # "call", KnownOperands(i, F),
           NEW isEntrypoint, NEW n, NEW seen
    PROVE  Good(TransferInst(f, i, isEntrypoint, n, seen), F)
<1> DEFINE g == TransferInst(f, i, isEntrypoint, n, seen)
<1>1. CASE i.op = "alloca"
  <2>1. g = TransferAlloca(f, i, n)
    BY <1>1 DEF TransferInst
  <2> QED
    BY <1>1, <2>1, InstructionOperands, GoodTransferAlloca
<1>2. CASE i.op = "store"
  <2>1. g = TransferStore(f, i, isEntrypoint, n, seen)
    BY <1>2 DEF TransferInst
  <2> QED
    BY <1>2, <2>1, InstructionOperands, GoodTransferStore
<1>3. CASE i.op = "load"
  <2>1. g = TransferLoad(f, i)
    BY <1>3 DEF TransferInst
  <2> QED
    BY <1>3, <2>1, InstructionOperands, GoodTransferLoad
<1>4. CASE i.op = "gep"
  <2>1. g = TransferGetElemPtr(f, i)
    BY <1>4 DEF TransferInst
  <2> QED
    BY <1>4, <2>1, InstructionOperands, GoodTransferGetElemPtr
<1>5. CASE i.op = "bitcast"
  <2>1. g = TransferBitCast(f, i, n)
    BY <1>5 DEF TransferInst
  <2> QED
    BY <1>5, <2>1, InstructionOperands, GoodTransferBitCast
<1>6. CASE i.op = "memcpy"
  <2>1. g = TransferMemCpy(f, i, seen)
    BY <1>6 DEF TransferInst
  <2> QED
    BY <1>6, <2>1, InstructionOperands, GoodTransferMemCpy
<1>7. CASE i.op = "memset"
  <2>1. g = TransferMemSet(f, i)
    BY <1>7 DEF TransferInst
  <2> QED
    BY <1>7, <2>1, InstructionOperands, GoodTransferMemSet
<1>8. CASE i.op = "ret"
  BY <1>8 DEF TransferInst
<1> QED
  BY <1>1, <1>2, <1>3, <1>4, <1>5, <1>6, <1>7, <1>8 DEF IsInstruction
===============================================================================
