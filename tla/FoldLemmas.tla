------------------------------ MODULE FoldLemmas ------------------------------
(***************************************************************************)
(* Folds over a finite set, as MapThenFoldSet defines them: what each step *)
(* of a fold keeps, the fold keeps.                                        *)
(*                                                                         *)
(* The induction theorems of the library take an operator as a parameter,  *)
(* which no prover here can instantiate.  Here the operators are CONSTANTS:*)
(* an INSTANCE gives them, and the theorem is about that fold.  What a     *)
(* fold of the model depends on beside its base and its set is packed into *)
(* the context c.  Related is a relation between the values of two folds   *)
(* over the same set, and with v = w a property of one.                    *)
(***************************************************************************)
EXTENDS Naturals, FiniteSets, Folds, FiniteSetTheorems, TLAPS

CONSTANTS
    Step(_, _, _),      \* of a context, an item and the value so far
    Item(_, _),         \* of a context and an element of the set
    Pick(_),            \* the element that is folded last
    Related(_, _, _)    \* of a context and two values

(* The fold of the definitions that are proved about.                      *)
Fold(c, base, S) ==
    MapThenFoldSet(LAMBDA x, v : Step(c, x, v), base, LAMBDA x : Item(c, x), LAMBDA s : Pick(s), S)

Rule(c, base, iter, s) ==
    IF s = {} THEN base ELSE Step(c, Item(c, Pick(s)), iter[s \ {Pick(s)}])

IsFold(c, base, S, g) == g = [s \in SUBSET S |-> Rule(c, base, g, s)]

Picks(S) == \A s \in SUBSET S : s # {} => Pick(s) \in s

-----------------------------------------------------------------------------
(* Induction, for a set rather than a predicate.                           *)
LEMMA NatInductionSet ==
    ASSUME NEW N, 0 \in N, \A n \in Nat : n \in N => n + 1 \in N
    PROVE  \A n \in Nat : n \in N
<1> DEFINE Out == {n \in Nat : n \notin N}
           R == OpToRel(<, Nat)
<1> SUFFICES ASSUME Out # {} PROVE FALSE
  OBVIOUS
<1>1. IsWellFoundedOn(R, Nat)
  BY NatLessThanWellFounded DEF R
<1>2. \A x, y \in Nat : y < x => <<y, x>> \in R
  BY DEF OpToRel
<1> HIDE DEF R
<1>3. Out \subseteq Nat
  OBVIOUS
<1>4. PICK x \in Out : \A y \in Out : ~(<<y, x>> \in R)
  <2> HIDE DEF Out
  <2> QED
    BY <1>1, <1>3, WFMin
<1>5. x \in Nat /\ x # 0
  OBVIOUS
<1>6. x - 1 \in Nat /\ x - 1 < x /\ (x - 1) + 1 = x
  BY <1>5
<1>7. x - 1 \in N
  BY <1>2, <1>4, <1>5, <1>6
<1> QED
  BY <1>4, <1>5, <1>6, <1>7

(* The recursion of MapThenFoldSet has a solution.                         *)
LEMMA FoldDefined ==
    \A c, base, S : IsFiniteSet(S) /\ Picks(S) => \E g : IsFold(c, base, S, g)
<1> SUFFICES ASSUME NEW c, NEW base, NEW S, IsFiniteSet(S), Picks(S)
             PROVE  \E g : IsFold(c, base, S, g)
  BY Zenon
<1> DEFINE Upto(n) == {s \in SUBSET S : Cardinality(s) <= n}
           Solves(n, g) == g = [s \in Upto(n) |-> Rule(c, base, g, s)]
           N == {n \in Nat : \E g : Solves(n, g)}
<1>1. \A s \in SUBSET S : IsFiniteSet(s) /\ Cardinality(s) \in Nat
  BY FS_Subset, FS_CardinalityType
<1>2. 0 \in N
  <2>1. \A s \in Upto(0) : s = {}
    BY <1>1, FS_EmptySet
  <2>2. \A g, s : s = {} => Rule(c, base, g, s) = base
    BY DEF Rule
  <2> DEFINE g == [s \in Upto(0) |-> base]
  <2>3. Solves(0, g)
    BY <2>1, <2>2
  <2> HIDE DEF g, Solves
  <2> QED
    BY <2>3
<1>3. \A n \in Nat : n \in N => n + 1 \in N
  <2> SUFFICES ASSUME NEW n \in Nat, n \in N PROVE n + 1 \in N
    OBVIOUS
  <2>1. PICK g : Solves(n, g)
    OBVIOUS
  <2> DEFINE h == [s \in Upto(n + 1) |-> Rule(c, base, g, s)]
  <2>2. \A s \in Upto(n) : s \in Upto(n + 1)
    BY <1>1
  <2>3. \A s \in Upto(n) : g[s] = Rule(c, base, g, s)
    BY <2>1
  <2>4. \A s \in Upto(n) : h[s] = g[s]
    BY <2>2, <2>3
  <2>5. \A s \in Upto(n + 1) : s # {} => s \ {Pick(s)} \in Upto(n)
    <3> SUFFICES ASSUME NEW s \in Upto(n + 1), s # {} PROVE s \ {Pick(s)} \in Upto(n)
      OBVIOUS
    <3>1. Pick(s) \in s
      BY DEF Picks
    <3>2. IsFiniteSet(s) /\ Cardinality(s) \in Nat /\ Cardinality(s) <= n + 1
      BY <1>1
    <3>3. Cardinality(s \ {Pick(s)}) = Cardinality(s) - 1
      BY <3>1, <3>2, FS_RemoveElement
    <3> QED
      BY <3>2, <3>3
  <2>6. \A s \in Upto(n + 1) : Rule(c, base, h, s) = Rule(c, base, g, s)
    <3> HIDE DEF h, Upto, Solves
    <3> QED
      BY <2>4, <2>5 DEF Rule
  <2>7. Solves(n + 1, h)
    <3>1. h = [s \in Upto(n + 1) |-> Rule(c, base, g, s)]
      OBVIOUS
    <3> HIDE DEF h, Upto
    <3>2. h = [s \in Upto(n + 1) |-> Rule(c, base, h, s)]
      BY <3>1, <2>6
    <3> QED
      BY <3>2
  <2>8. \E k : Solves(n + 1, k)
    <3> HIDE DEF h, Solves
    <3> QED
      BY <2>7
  <2> HIDE DEF Solves
  <2> QED
    BY <2>8
<1>4. Cardinality(S) \in N
  <2>1. Cardinality(S) \in Nat
    BY FS_CardinalityType
  <2> HIDE DEF N
  <2> QED
    BY <1>2, <1>3, <2>1, NatInductionSet
<1>5. PICK g : Solves(Cardinality(S), g)
  BY <1>4
<1>6. Upto(Cardinality(S)) = SUBSET S
  <2>1. \A s \in SUBSET S : Cardinality(s) <= Cardinality(S)
    BY FS_Subset
  <2> QED
    BY <2>1
<1> HIDE DEF Upto
<1>7. g = [s \in SUBSET S |-> Rule(c, base, g, s)]
  BY <1>5, <1>6
<1> QED
  BY <1>7, Zenon DEF IsFold

(* The recursion of a fold, at every subset of the set folded over.        *)
LEMMA FoldIs ==
    \A c, base, S : IsFiniteSet(S) /\ Picks(S) =>
        \E g : IsFold(c, base, S, g) /\ Fold(c, base, S) = g[S]
<1> SUFFICES ASSUME NEW c, NEW base, NEW S, IsFiniteSet(S), Picks(S)
             PROVE  \E g : IsFold(c, base, S, g) /\ Fold(c, base, S) = g[S]
  BY Zenon
<1> DEFINE iter == CHOOSE g : IsFold(c, base, S, g)
<1>1. IsFold(c, base, S, iter)
  BY FoldDefined, Zenon
<1>2. iter[S] = Fold(c, base, S)
  BY Zenon DEF iter, IsFold, Fold, MapThenFoldSet, Rule
<1> HIDE DEF iter
<1> QED
  BY <1>1, <1>2, Zenon

(* Two folds over one set stay related when each step keeps the relation.  *)
THEOREM FoldKeeps ==
    \A c, base, other, S :
        /\ IsFiniteSet(S) /\ Picks(S)
        /\ Related(c, base, other)
        /\ \A x \in S : \A v, w :
              Related(c, v, w) => Related(c, Step(c, Item(c, x), v), Step(c, Item(c, x), w))
        => Related(c, Fold(c, base, S), Fold(c, other, S))
<1> SUFFICES ASSUME NEW c, NEW base, NEW other, NEW S, IsFiniteSet(S), Picks(S),
                    Related(c, base, other),
                    \A x \in S : \A v, w :
                        Related(c, v, w) => Related(c, Step(c, Item(c, x), v), Step(c, Item(c, x), w))
             PROVE  Related(c, Fold(c, base, S), Fold(c, other, S))
  BY Zenon
<1>1. PICK g : IsFold(c, base, S, g) /\ Fold(c, base, S) = g[S]
  BY FoldIs, Zenon
<1>2. PICK h : IsFold(c, other, S, h) /\ Fold(c, other, S) = h[S]
  BY FoldIs, Zenon
<1>3. \A s \in SUBSET S : g[s] = Rule(c, base, g, s) /\ h[s] = Rule(c, other, h, s)
  BY <1>1, <1>2 DEF IsFold
<1> DEFINE N == {n \in Nat : \A s \in SUBSET S : Cardinality(s) = n => Related(c, g[s], h[s])}
<1>4. \A s \in SUBSET S : IsFiniteSet(s) /\ Cardinality(s) \in Nat
  BY FS_Subset, FS_CardinalityType
<1>5. 0 \in N
  <2>1. \A s \in SUBSET S : Cardinality(s) = 0 => s = {}
    BY <1>4, FS_EmptySet
  <2>2. g[{}] = base /\ h[{}] = other
    <3>1. {} \in SUBSET S
      OBVIOUS
    <3> QED
      BY <1>3, <3>1, Zenon DEF Rule
  <2>3. Related(c, g[{}], h[{}])
    BY <2>2, Zenon
  <2>4. \A s \in SUBSET S : Cardinality(s) = 0 => Related(c, g[s], h[s])
    BY <2>1, <2>3, Zenon
  <2> QED
    BY <2>4, Zenon
<1>6. \A n \in Nat : n \in N => n + 1 \in N
  <2> SUFFICES ASSUME NEW n \in Nat, n \in N PROVE n + 1 \in N
    OBVIOUS
  <2>0. \A r \in SUBSET S : Cardinality(r) = n => Related(c, g[r], h[r])
    OBVIOUS
  <2> SUFFICES ASSUME NEW s \in SUBSET S, Cardinality(s) = n + 1
               PROVE  Related(c, g[s], h[s])
    <3>1. n + 1 \in Nat
      OBVIOUS
    <3> QED
      BY <3>1, Zenon
  <2> HIDE DEF N
  <2>1. s # {}
    <3>1. Cardinality({}) = 0 /\ n + 1 # 0
      BY FS_EmptySet
    <3> QED
      BY <3>1
  <2>2. Pick(s) \in s
    BY <2>1 DEF Picks
  <2> DEFINE t == s \ {Pick(s)}
  <2>3. t \in SUBSET S /\ Cardinality(t) = n
    <3>1. Cardinality(t) = Cardinality(s) - 1
      BY <1>4, <2>2, FS_RemoveElement
    <3> HIDE DEF t
    <3>2. Cardinality(t) = n
      BY <3>1
    <3> QED
      BY <3>2 DEF t
  <2>4. Related(c, g[t], h[t])
    <3> HIDE DEF t
    <3> QED
      BY <2>0, <2>3
  <2>5. /\ g[s] = Step(c, Item(c, Pick(s)), g[t])
        /\ h[s] = Step(c, Item(c, Pick(s)), h[t])
    BY <1>3, <2>1, Zenon DEF Rule
  <2>6. Pick(s) \in S
    BY <2>2
  <2> HIDE DEF t
  <2> QED
    BY <2>4, <2>5, <2>6, Zenon
<1>7. Cardinality(S) \in N
  <2>1. Cardinality(S) \in Nat
    BY FS_CardinalityType
  <2> HIDE DEF N
  <2> QED
    BY <1>5, <1>6, <2>1, NatInductionSet
<1>8. Related(c, g[S], h[S])
  BY <1>7
<1> QED
  BY <1>1, <1>2, <1>8, Zenon

(* What is picked is there: a finite set has elements of the highest and   *)
(* of the lowest rank.                                                     *)
LEMMA HighestExists ==
    \A S, rank : IsFiniteSet(S) /\ S # {} /\ (\A x \in S : rank[x] \in Nat) =>
        \E x \in S : \A y \in S : rank[y] <= rank[x]
<1> SUFFICES ASSUME NEW S, NEW rank, IsFiniteSet(S), S # {}, \A x \in S : rank[x] \in Nat
             PROVE  \E x \in S : \A y \in S : rank[y] <= rank[x]
  OBVIOUS
<1> DEFINE HasHighest(s) == \E x \in s : \A y \in s : rank[y] <= rank[x]
           N == {n \in Nat : \A s \in SUBSET S : Cardinality(s) = n + 1 => HasHighest(s)}
<1>1. \A s \in SUBSET S : IsFiniteSet(s) /\ Cardinality(s) \in Nat
  BY FS_Subset, FS_CardinalityType
<1>2. \A s \in SUBSET S, n \in Nat : Cardinality(s) = n + 1 =>
          \E x \in s : Cardinality(s \ {x}) = n
  <2> SUFFICES ASSUME NEW s \in SUBSET S, NEW n \in Nat, Cardinality(s) = n + 1
               PROVE  \E x \in s : Cardinality(s \ {x}) = n
    OBVIOUS
  <2>1. Cardinality({}) = 0 /\ n + 1 # 0
    BY FS_EmptySet
  <2>2. PICK x \in s : TRUE
    BY <2>1
  <2>3. Cardinality(s \ {x}) = Cardinality(s) - 1
    BY <1>1, <2>2, FS_RemoveElement
  <2> QED
    BY <2>2, <2>3
<1>3. 0 \in N
  <2> SUFFICES ASSUME NEW s \in SUBSET S, Cardinality(s) = 0 + 1 PROVE HasHighest(s)
    OBVIOUS
  <2>1. PICK x \in s : Cardinality(s \ {x}) = 0
    BY <1>2
  <2>2. s \ {x} = {}
    BY <1>1, <2>1, FS_EmptySet
  <2>3. \A y \in s : y = x
    BY <2>2
  <2> QED
    BY <2>1, <2>3
<1>4. \A n \in Nat : n \in N => n + 1 \in N
  <2> SUFFICES ASSUME NEW n \in Nat, n \in N, NEW s \in SUBSET S, Cardinality(s) = (n + 1) + 1
               PROVE  HasHighest(s)
    OBVIOUS
  <2>0. \A r \in SUBSET S : Cardinality(r) = n + 1 => HasHighest(r)
    OBVIOUS
  <2> HIDE DEF N
  <2>1. PICK x \in s : Cardinality(s \ {x}) = n + 1
    BY <1>2
  <2>2. PICK z \in s \ {x} : \A y \in s \ {x} : rank[y] <= rank[z]
    BY <2>0, <2>1
  <2>3. rank[x] \in Nat /\ \A y \in s : rank[y] \in Nat
    OBVIOUS
  <2>4. CASE rank[z] <= rank[x]
    <3>1. \A y \in s : rank[y] <= rank[x]
      BY <2>2, <2>3, <2>4
    <3> QED
      BY <3>1
  <2>5. CASE ~(rank[z] <= rank[x])
    <3>1. \A y \in s : rank[y] <= rank[z]
      BY <2>2, <2>3, <2>5
    <3> QED
      BY <3>1
  <2> QED
    BY <2>4, <2>5
<1>5. Cardinality(S) \in Nat /\ Cardinality(S) # 0
  BY <1>1, FS_EmptySet
<1>6. Cardinality(S) - 1 \in Nat /\ (Cardinality(S) - 1) + 1 = Cardinality(S)
  BY <1>5
<1>7. Cardinality(S) - 1 \in N
  <2> HIDE DEF N
  <2> QED
    BY <1>3, <1>4, <1>6, NatInductionSet
<1> QED
  BY <1>6, <1>7

LEMMA LowestExists ==
    \A S, rank : S # {} /\ (\A x \in S : rank[x] \in Nat) =>
        \E x \in S : \A y \in S : rank[x] <= rank[y]
<1> SUFFICES ASSUME NEW S, NEW rank, S # {}, \A x \in S : rank[x] \in Nat
             PROVE  \E x \in S : \A y \in S : rank[x] <= rank[y]
  OBVIOUS
<1> DEFINE R == OpToRel(<, Nat)
           Ranks == {rank[x] : x \in S}
<1>1. IsWellFoundedOn(R, Nat)
  BY NatLessThanWellFounded DEF R
<1>2. \A m, n \in Nat : m < n => <<m, n>> \in R
  BY DEF OpToRel
<1> HIDE DEF R
<1>3. Ranks \subseteq Nat /\ Ranks # {}
  OBVIOUS
<1>4. PICK m \in Ranks : \A n \in Ranks : ~(<<n, m>> \in R)
  <2> HIDE DEF Ranks
  <2> QED
    BY <1>1, <1>3, WFMin
<1>5. PICK x \in S : rank[x] = m
  OBVIOUS
<1>6. \A y \in S : rank[x] <= rank[y]
  <2> SUFFICES ASSUME NEW y \in S PROVE rank[x] <= rank[y]
    OBVIOUS
  <2>1. ~(rank[y] < rank[x])
    BY <1>2, <1>4, <1>5
  <2> QED
    BY <2>1, <1>5
<1> QED
  BY <1>6
===============================================================================
