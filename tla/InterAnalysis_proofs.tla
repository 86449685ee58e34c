------------------------- MODULE InterAnalysis_proofs -------------------------
(***************************************************************************)
(* TypeOK of InterAnalysis, and CallersKept where nothing is analysed in   *)
(* the middle of its own analysis, for every module, placement and stack.  *)
(***************************************************************************)
EXTENDS InterAnalysis, PointerAnalysis_proofs, SequenceTheorems

(* The inductive invariant, of a module m.  A suspended activation is in a *)
(* call; the callees it has not analysed yet are pending only during one.  *)
FactInv(m, f) == Good(f, FunctionsOf(m)) /\ f.fault = "none"

BlocksIn(m, fn) == ToSet(m.blocks[fn[2]])

FrameShape(m, frame) ==
    /\ frame = [fn |-> frame.fn, isEntrypoint |-> frame.isEntrypoint, workList |-> frame.workList,
                bb |-> frame.bb, pc |-> frame.pc, fact |-> frame.fact,
                calling |-> frame.calling, called |-> frame.called, pending |-> frame.pending]
    /\ frame.fn \in FunctionsOf(m)
    /\ frame.workList \subseteq BlocksIn(m, frame.fn)
    /\ frame.bb # NoBlock =>
           frame.bb \in BlocksIn(m, frame.fn) /\ frame.pc \in 1 .. Len(m.code[frame.bb]) + 1
    /\ frame.called \subseteq FunctionsOf(m) /\ frame.pending \subseteq frame.called
    /\ frame.calling =>
           /\ frame.bb # NoBlock
           /\ frame.pc <= Len(m.code[frame.bb])
           /\ m.code[frame.bb][frame.pc].op = "call"
    /\ frame.pending # {} => frame.calling

(* D: the blocks that have results.                                        *)
FrameInv(m, frame, D) ==
    FrameShape(m, frame) /\ FactInv(m, frame.fact) /\ BlocksIn(m, frame.fn) \subseteq D

FramesInv(m, s, D) ==
    /\ IsSequence(s) /\ Len(s) <= StackLimit
    /\ \A i \in 1 .. Len(s) : FrameInv(m, s[i], D) /\ (i < Len(s) => s[i].calling)

Recorded(m, r) ==
    r = [input |-> r.input, output |-> r.output] /\ FactInv(m, r.input) /\ FactInv(m, r.output)

ResultsInv(m, r) ==
    DOMAIN r \subseteq DOMAIN m.code /\ \A b \in DOMAIN r : Recorded(m, r[b])

ModuleInv == module \in Program /\ addr \in Placement(module)

StackInv == FramesInv(module, stack, DOMAIN result)

ResultInv == ResultsInv(module, result)

StatusInv ==
    /\ status \in {"running", "printed", "aborted", "undefined", "overflow"}
    /\ entry \in 1 .. Len(module.functions) + 1
    /\ stack # << >> => entry <= Len(module.functions)

IInv == ModuleInv /\ StackInv /\ ResultInv /\ StatusInv

(* The functions of the module.                                            *)
Defined == FunctionsOf(module)

-----------------------------------------------------------------------------
(* The stack: a sequence, of which the last element is replaced, another   *)
(* is pushed or one is popped.                                             *)
LEMMA OfItsElements ==
    ASSUME NEW S, NEW s \in Seq(S)
    PROVE  IsSequence(s)
<1>1. \A i \in 1 .. Len(s) : s[i] \in ToSet(s)
  BY DEF ToSet
<1>2. s \in [1 .. Len(s) -> ToSet(s)] /\ Len(s) \in Nat
  BY <1>1, LenProperties
<1>3. s \in Seq(ToSet(s))
  BY <1>2, SeqDef
<1> QED
  BY <1>3 DEF IsSequence

LEMMA ElementsOf ==
    ASSUME NEW s, IsSequence(s)
    PROVE  /\ Len(s) \in Nat /\ DOMAIN s = 1 .. Len(s)
           /\ \A i \in 1 .. Len(s) : s[i] \in ToSet(s)
           /\ s # << >> => Len(s) > 0 /\ Last(s) = s[Len(s)] /\ Len(s) \in DOMAIN s
<1>1. s \in Seq(ToSet(s))
  BY DEF IsSequence
<1>2. Len(s) \in Nat /\ DOMAIN s = 1 .. Len(s) /\ \A i \in 1 .. Len(s) : s[i] \in ToSet(s)
  BY <1>1, LenProperties, ElementOfSeq
<1>3. s # << >> => Len(s) # 0
  BY <1>1, EmptySeq
<1> QED
  BY <1>2, <1>3 DEF Last

(* Front(s) is s without its last element.                                 *)
LEMMA Popped ==
    ASSUME NEW s, IsSequence(s), s # << >>, NEW t, t = Front(s)
    PROVE  /\ IsSequence(t) /\ Len(t) = Len(s) - 1
           /\ \A i \in 1 .. Len(t) : t[i] = s[i]
<1> DEFINE S == ToSet(s)
           n == Len(s) - 1
<1>1. s \in Seq(S) /\ Len(s) \in Nat /\ Len(s) > 0 /\ n \in Nat /\ n \in Int
  BY ElementsOf DEF IsSequence
<1>2. \A i \in 1 .. n : s[i] \in S
  BY <1>1, ElementsOf
<1>3. t = SubSeq(s, 1, n)
  BY DEF Front
<1> HIDE DEF S, n
<1>4. /\ SubSeq(s, 1, n) \in Seq(S)
      /\ Len(SubSeq(s, 1, n)) = IF 1 <= n THEN n - 1 + 1 ELSE 0
      /\ \A i \in 1 .. n - 1 + 1 : SubSeq(s, 1, n)[i] = s[1 + i - 1]
  BY <1>1, <1>2, SubSeqProperties
<1>5. n - 1 + 1 = n /\ (~(1 <= n) => n = 0)
  BY <1>1
<1>6. Len(t) = n
  <2>1. CASE 1 <= n
    BY <1>3, <1>4, <1>5, <2>1
  <2>2. CASE ~(1 <= n)
    BY <1>3, <1>4, <1>5, <2>2
  <2> QED
    BY <2>1, <2>2
<1>7. ASSUME NEW i \in 1 .. n PROVE t[i] = s[i]
  <2>1. i \in 1 .. n - 1 + 1 /\ 1 + i - 1 = i
    BY <1>1
  <2>2. SubSeq(s, 1, n)[i] = s[1 + i - 1]
    BY <1>4, <2>1
  <2> QED
    BY <1>3, <2>1, <2>2
<1>8. IsSequence(t)
  BY <1>3, <1>4, OfItsElements
<1> QED
  BY <1>6, <1>7, <1>8 DEF n

LEMMA Pushed ==
    ASSUME NEW s, IsSequence(s), NEW x, NEW t, t = Append(s, x)
    PROVE  /\ IsSequence(t) /\ Len(t) = Len(s) + 1
           /\ \A i \in 1 .. Len(s) : t[i] = s[i]
           /\ t[Len(t)] = x
<1> DEFINE S == ToSet(s) \cup {x}
<1>1. Len(s) \in Nat /\ \A i \in 1 .. Len(s) : s[i] \in S
  BY ElementsOf
<1>2. s \in Seq(S)
  BY SeqDef, LenProperties DEF IsSequence
<1> HIDE DEF S
<1>3. x \in S
  BY DEF S
<1>4. t \in Seq(S) /\ Len(t) = Len(s) + 1 /\ t[Len(s) + 1] = x
      /\ \A i \in 1 .. Len(s) : t[i] = s[i]
  BY <1>2, <1>3, AppendProperties
<1>5. IsSequence(t)
  BY <1>4, OfItsElements
<1> QED
  BY <1>4, <1>5

LEMMA Replaced ==
    ASSUME NEW s, IsSequence(s), s # << >>, NEW x, NEW t, t = Append(Front(s), x)
    PROVE  /\ IsSequence(t) /\ Len(t) = Len(s)
           /\ \A i \in 1 .. Len(s) : i < Len(s) => t[i] = s[i]
           /\ t[Len(s)] = x
<1> DEFINE u == Front(s)
<1>1. IsSequence(u) /\ Len(u) = Len(s) - 1 /\ \A i \in 1 .. Len(u) : u[i] = s[i]
  BY Popped
<1>2. Len(s) \in Nat
  BY ElementsOf
<1>3. t = Append(u, x)
  OBVIOUS
<1> HIDE DEF u
<1>4. /\ IsSequence(t) /\ Len(t) = Len(u) + 1
      /\ \A i \in 1 .. Len(u) : t[i] = u[i]
      /\ t[Len(t)] = x
  <2>1. IsSequence(u)
    BY <1>1
  <2>2. IsSequence(t)
    BY <2>1, <1>3, Pushed
  <2>3. Len(t) = Len(u) + 1
    BY <2>1, <1>3, Pushed
  <2>4. \A i \in 1 .. Len(u) : t[i] = u[i]
    BY <2>1, <1>3, Pushed
  <2>5. t[Len(t)] = x
    BY <2>1, <1>3, Pushed
  <2> QED
    BY <2>2, <2>3, <2>4, <2>5
<1> QED
  BY <1>1, <1>2, <1>4

-----------------------------------------------------------------------------
(* What is known of the module.                                            *)
LEMMA ModuleIs ==
    ASSUME ModuleInv
    PROVE  IsModule(module) /\ IsPlacement(addr, module)
BY ProgramAssumption DEF ModuleInv

LEMMA BlocksOf ==
    ASSUME ModuleInv, NEW fn \in Defined
    PROVE  /\ Name(fn) \in DOMAIN module.blocks /\ fn = <<"function", Name(fn)>>
           /\ Layout(fn) \in Seq(DOMAIN module.code)
           /\ Blocks(fn) \subseteq DOMAIN module.code
           /\ \A b \in Blocks(fn) : module.succ[b] \subseteq Blocks(fn)
           /\ KnownSequence(Params(fn), Defined)
<1>1. PICK name \in DOMAIN module.blocks : fn = <<"function", name>>
  BY DEF Defined, FunctionsOf
<1>2. Name(fn) = name
  BY <1>1 DEF Name
<1>3. /\ module.blocks[name] \in Seq(DOMAIN module.code)
      /\ KnownSequence(module.params[name], Defined)
      /\ \A b \in ToSet(module.blocks[name]) : module.succ[b] \subseteq ToSet(module.blocks[name])
  BY ModuleIs DEF IsModule, Defined
<1>4. ToSet(module.blocks[name]) \subseteq DOMAIN module.code
  BY <1>3, LenProperties, ElementOfSeq DEF ToSet
<1> QED
  BY <1>1, <1>2, <1>3, <1>4 DEF Layout, Blocks, Params

LEMMA BlocksApart ==
    ASSUME ModuleInv, NEW f \in Defined, NEW g \in Defined, f # g
    PROVE  Blocks(f) \cap Blocks(g) = {}
<1>1. /\ Name(f) \in DOMAIN module.blocks /\ f = <<"function", Name(f)>>
      /\ Name(g) \in DOMAIN module.blocks /\ g = <<"function", Name(g)>>
  BY BlocksOf
<1>2. Name(g) \in DOMAIN module.blocks \ {Name(f)}
  BY <1>1
<1> QED
  BY <1>1, <1>2, ModuleIs DEF IsModule, Blocks, Layout

(* A predecessor of a block is a block of the same function.               *)
LEMMA PredecessorsOf ==
    ASSUME ModuleInv, NEW fn \in Defined, NEW b \in Blocks(fn)
    PROVE  Pred(b) \subseteq Blocks(fn) /\ IsFiniteSet(Pred(b))
<1>1. Pred(b) \subseteq DOMAIN module.code /\ IsFiniteSet(Pred(b))
  <2>1. Pred(b) \subseteq DOMAIN module.code /\ IsFiniteSet(DOMAIN module.code)
    BY ModuleIs DEF IsModule, Pred
  <2> QED
    BY <2>1, FS_Subset
<1>2. ASSUME NEW p \in Pred(b) PROVE p \in Blocks(fn)
  <2>1. PICK name \in DOMAIN module.blocks : p \in ToSet(module.blocks[name])
    BY <1>1, ModuleIs DEF IsModule
  <2> DEFINE g == <<"function", name>>
  <2>2. g \in Defined /\ Blocks(g) = ToSet(module.blocks[name])
    BY DEF Defined, FunctionsOf, Blocks, Layout, Name
  <2> HIDE DEF g
  <2>3. b \in module.succ[p]
    BY DEF Pred
  <2>4. b \in Blocks(g)
    BY <2>1, <2>2, <2>3, BlocksOf
  <2>5. g = fn
    BY <2>2, <2>4, BlocksApart
  <2> QED
    BY <2>1, <2>2, <2>5
<1> QED
  BY <1>1, <1>2

LEMMA CodeOf ==
    ASSUME ModuleInv, NEW b \in DOMAIN module.code
    PROVE  /\ IsSequence(module.code[b]) /\ Len(module.code[b]) \in Nat
           /\ DOMAIN module.code[b] = 1 .. Len(module.code[b])
           /\ \A n \in 1 .. Len(module.code[b]) :
                  LET i == module.code[b][n]
                  IN  /\ IsInstruction(i) /\ KnownOperands(i, Defined)
                      /\ i.op = "call" => KnownCall(i, Defined)
<1>1. IsBlock(module.code[b], Defined)
  BY ModuleIs DEF IsModule, Defined
<1>2. IsSequence(module.code[b])
  BY <1>1 DEF IsBlock
<1>3. /\ Len(module.code[b]) \in Nat /\ DOMAIN module.code[b] = 1 .. Len(module.code[b])
      /\ \A n \in 1 .. Len(module.code[b]) : module.code[b][n] \in ToSet(module.code[b])
  BY <1>2, ElementsOf
<1> QED
  BY <1>1, <1>2, <1>3 DEF IsBlock

LEMMA FiniteImage ==
    ASSUME NEW S, IsFiniteSet(S), NEW g
    PROVE  IsFiniteSet({g[x] : x \in S})
<1> DEFINE T == {g[x] : x \in S}
           h == [x \in S |-> g[x]]
<1>1. h \in [S -> T] /\ \A y \in T : \E x \in S : h[x] = y
  OBVIOUS
<1> HIDE DEF T, h
<1>2. h \in Surjection(S, T)
  BY <1>1 DEF Surjection
<1>3. IsFiniteSet(T)
  BY <1>2, FS_Surjection
<1> QED
  BY <1>3 DEF T

LEMMA DefinedFinite ==
    ASSUME ModuleInv
    PROVE  IsFiniteSet(Defined)
<1> DEFINE S == DOMAIN module.blocks
           g == [name \in S |-> <<"function", name>>]
<1>1. IsFiniteSet(S)
  BY ModuleIs DEF IsModule
<1>2. Defined = {g[name] : name \in S}
  BY DEF Defined, FunctionsOf
<1> HIDE DEF S, g
<1> QED
  BY <1>1, <1>2, FiniteImage

-----------------------------------------------------------------------------
(* A set of blocks or functions has a first and a last by address.         *)
Merging == INSTANCE FoldLemmas WITH
    Step <- LAMBDA c, p, f : UnionFact(f, c.result[p].output),
    Item <- LAMBDA c, p : p,
    Pick <- LAMBDA s : CHOOSE x \in s : TRUE,
    Related <- LAMBDA c, f, g : Good(f, c.F)

LEMMA FirstBlockIs ==
    ASSUME ModuleInv, NEW fn \in Defined, NEW S, S \subseteq Blocks(fn), S # {}
    PROVE  FirstBlock(S) \in S
<1>1. \A b \in S : addr[b] \in Nat /\ \A c \in S \ {b} : addr[c] # addr[b]
  <2>1. Name(fn) \in DOMAIN module.blocks /\ Blocks(fn) = ToSet(module.blocks[Name(fn)])
    BY BlocksOf DEF Blocks, Layout
  <2> QED
    BY <2>1, ModuleIs DEF IsPlacement
<1>2. PICK b \in S : \A c \in S : addr[b] <= addr[c]
  BY <1>1, Merging!LowestExists
<1>3. \A c \in S \ {b} : Before(b, c)
  BY <1>1, <1>2 DEF Before
<1> QED
  BY <1>3 DEF FirstBlock

LEMMA AddressOfFunctions ==
    ASSUME ModuleInv, NEW S, S \subseteq Defined
    PROVE  \A f \in S : addr[f[2]] \in Nat /\ \A g \in S \ {f} : addr[g[2]] # addr[f[2]]
<1> SUFFICES ASSUME NEW f \in S
             PROVE  addr[f[2]] \in Nat /\ \A g \in S \ {f} : addr[g[2]] # addr[f[2]]
  OBVIOUS
<1>1. \A g \in S : f[2] \in DOMAIN module.blocks /\ g[2] \in DOMAIN module.blocks
                  /\ f = <<"function", f[2]>> /\ g = <<"function", g[2]>>
  BY BlocksOf DEF Name
<1>2. \A g \in S \ {f} : g[2] \in DOMAIN module.blocks \ {f[2]}
  BY <1>1
<1> QED
  BY <1>1, <1>2, ModuleIs DEF IsPlacement

LEMMA FirstFunctionIs ==
    ASSUME ModuleInv, NEW S, S \subseteq Defined, S # {}
    PROVE  FirstFunction(S) \in S
<1> DEFINE rank == [f \in S |-> addr[f[2]]]
<1>1. \A f \in S : rank[f] = addr[f[2]] /\ rank[f] \in Nat /\ \A g \in S \ {f} : rank[g] # rank[f]
  BY AddressOfFunctions
<1> HIDE DEF rank
<1>2. PICK f \in S : \A g \in S : rank[f] <= rank[g]
  BY <1>1, Merging!LowestExists
<1>3. \A g \in S \ {f} : FunctionBefore(f, g)
  BY <1>1, <1>2 DEF FunctionBefore
<1> QED
  BY <1>3 DEF FirstFunction

LEMMA LastFunctionIs ==
    ASSUME ModuleInv, NEW S, S \subseteq Defined, S # {}
    PROVE  LastFunction(S) \in S
<1> DEFINE rank == [f \in S |-> addr[f[2]]]
<1>1. \A f \in S : rank[f] = addr[f[2]] /\ rank[f] \in Nat /\ \A g \in S \ {f} : rank[g] # rank[f]
  BY AddressOfFunctions
<1>2. IsFiniteSet(S)
  BY DefinedFinite, FS_Subset
<1>3. Merging!IsFiniteSet(S)
  BY <1>2 DEF IsFiniteSet, Merging!IsFiniteSet
<1> HIDE DEF rank
<1>4. PICK f \in S : \A g \in S : rank[g] <= rank[f]
  BY <1>1, <1>3, Merging!HighestExists
<1>5. \A g \in S \ {f} : FunctionBefore(g, f)
  BY <1>1, <1>4 DEF FunctionBefore
<1> QED
  BY <1>5 DEF LastFunction

-----------------------------------------------------------------------------
(* What a call and a merge make of a good fact.                            *)
LEMMA GoodContinued ==
    ASSUME NEW F, NEW g, Good(g, F), NEW h, h = [g EXCEPT !.fault = "none"]
    PROVE  Good(h, F) /\ h.fault = "none"
<1>1. IsFact(h) /\ SameMaps(g, h) /\ h.pts = g.pts /\ h.fault = "none"
  BY DEF IsFact, SameMaps, Good
<1> QED
  BY <1>1 DEF Good, Closed, MapsAreNodes, SameMaps

LEMMA GoodMergedInput ==
    ASSUME ModuleInv, ResultInv, NEW fn \in Defined, Blocks(fn) \subseteq DOMAIN result,
           NEW bb \in Blocks(fn)
    PROVE  Good(MergedInput(bb), Defined)
<1> DEFINE c == [result |-> result, F |-> Defined]
           base == result[bb].input
           S == Pred(bb)
<1>1. /\ Good(base, Defined)
      /\ \A p \in S : Good(result[p].output, Defined)
      /\ IsFiniteSet(S)
  BY PredecessorsOf DEF ResultInv, ResultsInv, Recorded, FactInv, Defined
<1>2. MergedInput(bb) = Merging!Fold(c, base, S)
  BY Zenon DEF MergedInput, FoldSet, Merging!Fold, MapThenFoldSet, Merging!MapThenFoldSet
<1>3. Merging!IsFiniteSet(S) /\ Merging!Picks(S)
  <2>1. Merging!IsFiniteSet(S)
    BY <1>1 DEF IsFiniteSet, Merging!IsFiniteSet
  <2>2. \A s : s # {} => (CHOOSE x \in s : TRUE) \in s
    OBVIOUS
  <2> QED
    BY <2>1, <2>2, Zenon DEF Merging!Picks
<1>4. c.result = result /\ c.F = Defined
  OBVIOUS
<1> HIDE DEF c, base, S
<1>5. \A p \in S : \A v, w : Good(v, c.F) => Good(UnionFact(v, c.result[p].output), c.F)
  BY <1>1, <1>4, GoodUnionFact
<1>6. Good(base, c.F)
  BY <1>1, <1>4
<1>7. Good(Merging!Fold(c, base, S), c.F)
  BY <1>3, <1>5, <1>6, Merging!FoldKeeps, Zenon
<1> QED
  BY <1>2, <1>4, <1>7

LEMMA CalledAreDefined ==
    ASSUME NEW F, NEW f, Good(f, F), NEW call, KnownCall(call, F)
    PROVE  CalledFunctions(f, call) \subseteq F
<1>1. Known(call.callee, F)
  BY DEF KnownCall
<1>2. \A v \in PointToSet(f, call.callee) : Known(v, F)
  BY <1>1, GoodPointees
<1> QED
  BY <1>1, <1>2 DEF CalledFunctions, Functions, Known

LEMMA GoodAddCallEdge ==
    ASSUME NEW F, NEW f, Good(f, F), NEW from, NEW to
    PROVE  Good(AddCallEdge(f, from, to), F)
BY GoodEdges DEF AddCallEdge

LEMMA GoodAddCallEdges ==
    ASSUME NEW F, NEW f, Good(f, F), NEW call, KnownCall(call, F)
    PROVE  Good(AddCallEdges(f, call), F)
<1>1. CASE call.callee[1] = "function"
  BY <1>1, GoodAddCallEdge DEF AddCallEdges
<1>2. CASE call.callee[1] # "function" /\ "loadedFrom" \notin DOMAIN call
  BY <1>2, GoodFault DEF AddCallEdges
<1>3. CASE call.callee[1] # "function" /\ "loadedFrom" \in DOMAIN call
  <2> DEFINE g == AddPointer(f, call.loadedFrom)
             storage == Storage(g, call)
             h == AddPointer(AddCallEdge(g, call.value, storage), call.callee)
             edges == h.edges \cup {<<storage, fn>> : fn \in CalledFunctions(g, call)}
  <2>1. AddCallEdges(f, call) = [h EXCEPT !.edges = edges]
    BY <1>3 DEF AddCallEdges
  <2>2. Good(g, F)
    BY <1>3, GoodAddPointer DEF KnownCall
  <2> HIDE DEF g, storage
  <2>3. Good(h, F)
    BY <2>2, GoodAddCallEdge, GoodAddPointer DEF KnownCall
  <2> HIDE DEF h, edges
  <2>4. Good([h EXCEPT !.edges = edges], F)
    BY <2>3, GoodEdges
  <2> QED
    BY <2>1, <2>4
<1> QED
  BY <1>1, <1>2, <1>3

(* The arguments, from the first to the last.                              *)
Passing == INSTANCE FoldLemmas WITH
    Step <- LAMBDA c, i, g : PassArgument(c.fn, g, c.args, i),
    Item <- LAMBDA c, i : c.indices[i],
    Pick <- LAMBDA s : Max(s),
    Related <- LAMBDA c, f, g : Good(f, c.F)

LEMMA GoodPassArgument ==
    ASSUME NEW F, NEW f, Good(f, F), NEW fn, KnownSequence(Params(fn), F),
           NEW args, KnownSequence(args, F), NEW i \in DOMAIN args
    PROVE  Good(PassArgument(fn, f, args, i), F)
<1>1. CASE i <= Len(Params(fn))
  <2>1. i \in 1 .. Len(args) /\ args[i] \in ToSet(args)
    BY ElementsOf DEF KnownSequence
  <2>2. i \in 1 .. Len(Params(fn))
    BY <1>1, <2>1, ElementsOf DEF KnownSequence
  <2>3. Params(fn)[i] \in ToSet(Params(fn))
    BY <2>2, ElementsOf DEF KnownSequence
  <2>4. Known(Params(fn)[i], F) /\ Known(args[i], F)
    BY <2>1, <2>3 DEF KnownSequence
  <2> QED
    BY <1>1, <2>4, GoodNonClearAssign DEF PassArgument
<1>2. CASE ~(i <= Len(Params(fn)))
  BY <1>2, GoodFault DEF PassArgument
<1> QED
  BY <1>1, <1>2

LEMMA GoodPassTo ==
    ASSUME NEW F, NEW f, Good(f, F), NEW fn, KnownSequence(Params(fn), F),
           NEW args, KnownSequence(args, F)
    PROVE  Good(PassTo(fn, f, args), F)
<1> DEFINE indices == [i \in DOMAIN args |-> i]
           c == [fn |-> fn, args |-> args, indices |-> indices, F |-> F]
           S == DOMAIN args
<1>1. S = 1 .. Len(args) /\ Len(args) \in Nat
  BY ElementsOf DEF KnownSequence
<1>2. IsFiniteSet(S) /\ S \subseteq Nat
  BY <1>1, FS_Interval
<1>3. PassTo(fn, f, args) = Passing!Fold(c, f, S)
  <2>1. DOMAIN indices = S
    OBVIOUS
  <2>2. PassTo(fn, f, args) = Passing!Fold(c, f, DOMAIN indices)
    BY Zenon DEF PassTo, FoldLeft, Passing!Fold, MapThenFoldSet, Passing!MapThenFoldSet
  <2> QED
    BY <2>1, <2>2, Zenon
<1>4. c.fn = fn /\ c.args = args /\ c.F = F /\ \A i \in S : c.indices[i] = i
  OBVIOUS
<1> HIDE DEF c, indices
<1>5. \A i \in S : \A v, w :
        Good(v, c.F) => Good(PassArgument(c.fn, v, c.args, c.indices[i]), c.F)
  BY <1>4, GoodPassArgument
<1> HIDE DEF S
<1>6. Passing!IsFiniteSet(S) /\ Passing!Picks(S)
  <2>1. Passing!IsFiniteSet(S)
    BY <1>2 DEF IsFiniteSet, Passing!IsFiniteSet
  <2> QED
    BY <1>2, <2>1, MaxPicks, Zenon DEF Passing!Picks
<1>7. Good(f, c.F)
  BY <1>4
<1>8. Good(Passing!Fold(c, f, S), c.F)
  BY <1>5, <1>6, <1>7, Passing!FoldKeeps, Zenon
<1> QED
  BY <1>3, <1>4, <1>8

(* The functions called, by address.                                       *)
Handing == INSTANCE FoldLemmas WITH
    Step <- LAMBDA c, fn, f : PassTo(fn, f, c.args),
    Item <- LAMBDA c, fn : fn,
    Pick <- LAMBDA s : LastFunction(s),
    Related <- LAMBDA c, f, g : Good(f, c.F)

LEMMA GoodPassArguments ==
    ASSUME ModuleInv, NEW f, Good(f, Defined), NEW call, KnownSequence(call.args, Defined),
           NEW called, called \subseteq Defined
    PROVE  Good(PassArguments(f, call, called), Defined)
<1> DEFINE c == [args |-> call.args, F |-> Defined]
<1>1. PassArguments(f, call, called) = Handing!Fold(c, f, called)
  BY Zenon DEF PassArguments, ForEachFunction, Handing!Fold, MapThenFoldSet, Handing!MapThenFoldSet
<1>2. Handing!IsFiniteSet(called) /\ Handing!Picks(called)
  <2>1. IsFiniteSet(called)
    BY DefinedFinite, FS_Subset
  <2>2. Handing!IsFiniteSet(called)
    BY <2>1 DEF IsFiniteSet, Handing!IsFiniteSet
  <2>3. \A s \in SUBSET called : s # {} => LastFunction(s) \in s
    BY LastFunctionIs
  <2> QED
    BY <2>2, <2>3, Zenon DEF Handing!Picks
<1>3. c.args = call.args /\ c.F = Defined
  OBVIOUS
<1> HIDE DEF c
<1>4. \A fn \in called : KnownSequence(Params(fn), Defined)
  BY BlocksOf
<1>5. \A fn \in called : \A v, w : Good(v, c.F) => Good(PassTo(fn, v, c.args), c.F)
  BY <1>3, <1>4, GoodPassTo
<1>6. Good(f, c.F)
  BY <1>3
<1>7. Good(Handing!Fold(c, f, called), c.F)
  BY <1>2, <1>5, <1>6, Handing!FoldKeeps, Zenon
<1> QED
  BY <1>1, <1>3, <1>7

(* Whatever is cleared, what is left is closed.                            *)
LEMMA GoodCleared ==
    ASSUME NEW F, NEW f, Good(f, F), NEW cleared
    PROVE  Good([f EXCEPT !.pts = [v \in DOMAIN @ |-> IF v \in cleared THEN {} ELSE @[v]]], F)
<1> DEFINE pts == [v \in DOMAIN f.pts |-> IF v \in cleared THEN {} ELSE f.pts[v]]
           g == [f EXCEPT !.pts = pts]
<1>1. DOMAIN pts = DOMAIN f.pts /\ \A v \in DOMAIN f.pts : pts[v] \subseteq f.pts[v]
  OBVIOUS
<1>2. [f EXCEPT !.pts = [v \in DOMAIN @ |-> IF v \in cleared THEN {} ELSE @[v]]] = g
  OBVIOUS
<1> HIDE DEF pts
<1>3. IsFact(g) /\ SameMaps(f, g) /\ g.pts = pts
  BY PtsIs DEF Good
<1> HIDE DEF g
<1>4. Good(g, F)
  BY <1>1, <1>3 DEF Good, Closed, MapsAreNodes, SameMaps
<1> QED
  BY <1>2, <1>4

LEMMA GoodClearReachable ==
    ASSUME NEW F, NEW f, Good(f, F), NEW args, KnownSequence(args, F)
    PROVE  Good(ClearReachable(f, args), F)
<1> DEFINE g == AddAll(Check(f, \A v \in ToSet(args) : IsPointer(v)), ToSet(args))
           cleared == ReachableFrom(g, UNION {PointToSet(g, args[i]) : i \in DOMAIN args})
<1>1. IsFiniteSet(ToSet(args))
  <2>1. DOMAIN args = 1 .. Len(args) /\ Len(args) \in Nat
    BY ElementsOf DEF KnownSequence
  <2>2. IsFiniteSet(DOMAIN args)
    BY <2>1, FS_Interval
  <2> QED
    BY <2>2, FiniteImage DEF ToSet
<1>2. Good(g, F)
  BY <1>1, GoodCheck, GoodAddAll DEF KnownSequence
<1>3. ClearReachable(f, args) =
        [g EXCEPT !.pts = [v \in DOMAIN @ |-> IF v \in cleared THEN {} ELSE @[v]]]
  BY Zenon DEF ClearReachable
<1> HIDE DEF g, cleared
<1> QED
  BY <1>2, <1>3, GoodCleared

LEMMA MinIs ==
    ASSUME NEW S, S \subseteq Nat, S # {}
    PROVE  Min(S) \in S
<1> DEFINE rank == [x \in S |-> x]
<1>1. \A x \in S : rank[x] = x /\ rank[x] \in Nat
  OBVIOUS
<1> HIDE DEF rank
<1>2. PICK x \in S : \A y \in S : rank[x] <= rank[y]
  BY <1>1, Merging!LowestExists
<1>3. \A y \in S : x <= y
  BY <1>1, <1>2
<1> QED
  BY <1>3 DEF Min

(* What a function returns is a value of its code.                         *)
LEMMA ReturnedIsKnown ==
    ASSUME ModuleInv, NEW fn \in Defined, ReturnsValue(fn)
    PROVE  Known(ReturnInst(fn).operand, Defined)
<1> DEFINE n == Min(ReturnBlocks(fn))
           b == ReturnBlock(fn)
           k == Min(Returns(b))
<1>1. /\ DOMAIN Layout(fn) = 1 .. Len(Layout(fn)) /\ Len(Layout(fn)) \in Nat
      /\ \A i \in DOMAIN Layout(fn) : Layout(fn)[i] \in DOMAIN module.code
  BY BlocksOf, LenProperties, ElementOfSeq
<1>2. n \in DOMAIN Layout(fn) /\ Returns(Layout(fn)[n]) # {}
  <2>0. DOMAIN Layout(fn) \subseteq Nat
    BY <1>1
  <2>1. ReturnBlocks(fn) \subseteq DOMAIN Layout(fn) /\ ReturnBlocks(fn) # {}
    BY Zenon DEF ReturnsValue, ReturnBlocks
  <2>2. n \in ReturnBlocks(fn)
    BY <2>0, <2>1, MinIs
  <2> QED
    BY <2>2 DEF ReturnBlocks
<1>3. b = Layout(fn)[n] /\ b \in DOMAIN module.code /\ Returns(b) # {}
  BY <1>1, <1>2 DEF ReturnBlock
<1> HIDE DEF n, b
<1>4. k \in DOMAIN module.code[b]
  <2>1. Returns(b) \subseteq Nat
    BY <1>3, CodeOf DEF Returns
  <2>2. k \in Returns(b)
    BY <1>3, <2>1, MinIs
  <2> QED
    BY <2>2 DEF Returns
<1>5. KnownOperands(module.code[b][k], Defined)
  BY <1>3, <1>4, CodeOf
<1>6. ReturnInst(fn) = module.code[b][k]
  BY DEF ReturnInst, b
<1> QED
  BY <1>5, <1>6 DEF ReturnsValue, KnownOperands

LEMMA GoodUniteReturn ==
    ASSUME ModuleInv, ResultInv, NEW fn \in Defined, NEW f, Good(f, Defined),
           NEW call, Known(call.value, Defined),
           NEW block, block[fn] \in DOMAIN result \cup {NoBlock}
    PROVE  Good(UniteReturn(fn, f, call, block), Defined)
<1> DEFINE g == IF block[fn] = NoBlock THEN f ELSE UnionFact(f, result[block[fn]].output)
<1>1. Good(g, Defined)
  <2>1. block[fn] # NoBlock => Good(result[block[fn]].output, Defined)
    BY DEF ResultInv, ResultsInv, Recorded, FactInv, Defined
  <2>2. CASE block[fn] = NoBlock
    BY <2>2
  <2>3. CASE block[fn] # NoBlock
    BY <2>1, <2>3, GoodUnionFact
  <2> QED
    BY <2>2, <2>3
<1>2. UniteReturn(fn, f, call, block) =
        IF ReturnsValue(fn) THEN NonClearAssign(g, call.value, ReturnInst(fn).operand) ELSE g
  BY Zenon DEF UniteReturn
<1> HIDE DEF g
<1>3. CASE ReturnsValue(fn)
  BY <1>1, <1>2, <1>3, ReturnedIsKnown, GoodNonClearAssign
<1>4. CASE ~ReturnsValue(fn)
  BY <1>1, <1>2, <1>4
<1> QED
  BY <1>3, <1>4

Uniting == INSTANCE FoldLemmas WITH
    Step <- LAMBDA c, fn, f : UniteReturn(fn, f, c.call, c.block),
    Item <- LAMBDA c, fn : fn,
    Pick <- LAMBDA s : LastFunction(s),
    Related <- LAMBDA c, f, g : Good(f, c.F)

LEMMA GoodUniteReturns ==
    ASSUME ModuleInv, ResultInv, NEW f, Good(f, Defined), NEW call, Known(call.value, Defined),
           NEW called, called \subseteq Defined,
           NEW block, \A fn \in called : block[fn] \in DOMAIN result \cup {NoBlock}
    PROVE  Good(UniteReturns(f, call, called, block), Defined)
<1> DEFINE c == [call |-> call, block |-> block, F |-> Defined]
<1>1. UniteReturns(f, call, called, block) = Uniting!Fold(c, f, called)
  BY Zenon DEF UniteReturns, ForEachFunction, Uniting!Fold, MapThenFoldSet, Uniting!MapThenFoldSet
<1>2. Uniting!IsFiniteSet(called) /\ Uniting!Picks(called)
  <2>1. IsFiniteSet(called)
    BY DefinedFinite, FS_Subset
  <2>2. Uniting!IsFiniteSet(called)
    BY <2>1 DEF IsFiniteSet, Uniting!IsFiniteSet
  <2>3. \A s \in SUBSET called : s # {} => LastFunction(s) \in s
    BY LastFunctionIs
  <2> QED
    BY <2>2, <2>3, Zenon DEF Uniting!Picks
<1>3. c.call = call /\ c.block = block /\ c.F = Defined
  OBVIOUS
<1> HIDE DEF c
<1>4. \A fn \in called : \A v, w : Good(v, c.F) => Good(UniteReturn(fn, v, c.call, c.block), c.F)
  BY <1>3, GoodUniteReturn
<1>5. Good(f, c.F)
  BY <1>3
<1>6. Good(Uniting!Fold(c, f, called), c.F)
  BY <1>2, <1>4, <1>5, Uniting!FoldKeeps, Zenon
<1> QED
  BY <1>1, <1>3, <1>6

-----------------------------------------------------------------------------
(* What happens to the stack and the results.                              *)
LEMMA FrameKept ==
    ASSUME NEW m, NEW frame, NEW D, NEW E, FrameInv(m, frame, D), D \subseteq E
    PROVE  FrameInv(m, frame, E)
BY DEF FrameInv

LEMMA FramesReplaced ==
    ASSUME NEW m, NEW s, NEW D, FramesInv(m, s, D), s # << >>, NEW E, D \subseteq E,
           NEW frame, FrameInv(m, frame, E), NEW t, t = Append(Front(s), frame)
    PROVE  FramesInv(m, t, E) /\ t # << >>
<1>1. IsSequence(s) /\ Len(s) \in Nat /\ Len(s) > 0
  BY ElementsOf DEF FramesInv
<1>2. /\ IsSequence(t) /\ Len(t) = Len(s) /\ t[Len(s)] = frame
      /\ \A i \in 1 .. Len(s) : i < Len(s) => t[i] = s[i]
  <2>1. IsSequence(t) /\ Len(t) = Len(s)
    BY <1>1, Replaced
  <2>2. t[Len(s)] = frame
    BY <1>1, Replaced
  <2>3. \A i \in 1 .. Len(s) : i < Len(s) => t[i] = s[i]
    BY <1>1, Replaced
  <2> QED
    BY <2>1, <2>2, <2>3
<1>3. \A i \in 1 .. Len(s) : FrameInv(m, s[i], E)
  BY FrameKept DEF FramesInv
<1>4. \A i \in 1 .. Len(s) : i = Len(s) \/ i < Len(s)
  BY <1>1
<1>5. t # << >>
  BY <1>1, <1>2
<1> QED
  BY <1>1, <1>2, <1>3, <1>4, <1>5 DEF FramesInv

LEMMA FramesPushed ==
    ASSUME NEW m, NEW s, NEW D, FramesInv(m, s, D), s = << >> \/ s[Len(s)].calling,
           Len(s) < StackLimit, NEW E, D \subseteq E,
           NEW frame, FrameInv(m, frame, E), NEW t, t = Append(s, frame)
    PROVE  FramesInv(m, t, E) /\ t # << >>
<1>1. IsSequence(s) /\ Len(s) \in Nat /\ (s = << >> => Len(s) = 0) /\ StackLimit \in Nat
  BY ElementsOf, StackLimitAssumption DEF FramesInv
<1>2. /\ IsSequence(t) /\ Len(t) = Len(s) + 1 /\ t[Len(t)] = frame
      /\ \A i \in 1 .. Len(s) : t[i] = s[i]
  <2>1. IsSequence(t) /\ Len(t) = Len(s) + 1
    BY <1>1, Pushed
  <2>2. t[Len(t)] = frame
    BY <1>1, Pushed
  <2>3. \A i \in 1 .. Len(s) : t[i] = s[i]
    BY <1>1, Pushed
  <2> QED
    BY <2>1, <2>2, <2>3
<1>3. \A i \in 1 .. Len(s) : FrameInv(m, s[i], E)
  BY FrameKept DEF FramesInv
<1>4. \A i \in 1 .. Len(s) : s[i].calling
  <2> SUFFICES ASSUME NEW i \in 1 .. Len(s) PROVE s[i].calling
    OBVIOUS
  <2>1. s # << >> /\ (i = Len(s) \/ i < Len(s))
    BY <1>1
  <2> QED
    BY <2>1 DEF FramesInv
<1>5. \A i \in 1 .. Len(t) : FrameInv(m, t[i], E) /\ (i < Len(t) => t[i].calling)
  <2> SUFFICES ASSUME NEW i \in 1 .. Len(t)
               PROVE  FrameInv(m, t[i], E) /\ (i < Len(t) => t[i].calling)
    OBVIOUS
  <2>1. CASE i = Len(t)
    BY <1>2, <2>1
  <2>2. CASE i < Len(t)
    <3>1. i \in 1 .. Len(s)
      BY <1>1, <1>2, <2>2
    <3> QED
      BY <1>2, <1>3, <1>4, <3>1
  <2> QED
    BY <1>1, <1>2, <2>1, <2>2
<1>6. t # << >> /\ Len(t) <= StackLimit
  BY <1>1, <1>2
<1> QED
  BY <1>2, <1>5, <1>6 DEF FramesInv

LEMMA FramesPopped ==
    ASSUME NEW m, NEW s, NEW D, FramesInv(m, s, D), s # << >>, NEW t, t = Front(s)
    PROVE  FramesInv(m, t, D)
<1>1. IsSequence(s) /\ Len(s) \in Nat /\ Len(s) > 0 /\ Len(s) <= StackLimit /\ StackLimit \in Nat
  BY ElementsOf, StackLimitAssumption DEF FramesInv
<1>2. IsSequence(t) /\ Len(t) = Len(s) - 1 /\ \A i \in 1 .. Len(t) : t[i] = s[i]
  BY <1>1, Popped
<1>3. \A i \in 1 .. Len(t) : i \in 1 .. Len(s) /\ i < Len(s)
  BY <1>1, <1>2
<1>4. Len(t) <= StackLimit
  BY <1>1, <1>2
<1> QED
  BY <1>2, <1>3, <1>4 DEF FramesInv

LEMMA TopIs ==
    ASSUME StackInv, stack # << >>
    PROVE  /\ Len(stack) \in Nat /\ Len(stack) \in 1 .. Len(stack) /\ Top = stack[Len(stack)]
           /\ FrameInv(module, Top, DOMAIN result)
<1>1. IsSequence(stack)
  BY DEF StackInv, FramesInv
<1>2. Len(stack) \in Nat /\ Len(stack) > 0 /\ Top = stack[Len(stack)]
  BY <1>1, ElementsOf DEF Top
<1> QED
  BY <1>2 DEF StackInv, FramesInv

LEMMA FrameContinued ==
    ASSUME NEW m, NEW frame, FrameShape(m, frame), NEW D, BlocksIn(m, frame.fn) \subseteq D,
           NEW g, Good(g, FunctionsOf(m)), NEW new,
           new = [frame EXCEPT !.fact = [g EXCEPT !.fault = "none"]]
    PROVE  FrameInv(m, new, D)
<1> DEFINE h == [g EXCEPT !.fault = "none"]
<1>1. FactInv(m, h)
  BY GoodContinued DEF FactInv
<1>2. new = [frame EXCEPT !.fact = h]
  OBVIOUS
<1> HIDE DEF h
<1>3. new = [fn |-> frame.fn, isEntrypoint |-> frame.isEntrypoint, workList |-> frame.workList,
             bb |-> frame.bb, pc |-> frame.pc, fact |-> h,
             calling |-> frame.calling, called |-> frame.called, pending |-> frame.pending]
  BY <1>2 DEF FrameShape
<1>4. FrameShape(m, new)
  BY <1>3 DEF FrameShape
<1> QED
  BY <1>1, <1>3, <1>4 DEF FrameInv

(* Every use of GoOnWith: with a good fact, and an activation that is one. *)
LEMMA StackGoesOn ==
    ASSUME StackInv, StatusInv, stack # << >>, NEW g, Good(g, Defined),
           NEW frame, FrameShape(module, frame), BlocksIn(module, frame.fn) \subseteq DOMAIN result,
           GoOnWith(g, frame), UNCHANGED <<module, entry>>, DOMAIN result' = DOMAIN result
    PROVE  StackInv' /\ StatusInv'
<1> DEFINE new == [frame EXCEPT !.fact = [g EXCEPT !.fault = "none"]]
<1>1. FrameInv(module, new, DOMAIN result)
  BY FrameContinued DEF Defined
<1>2. CASE stack' = Append(Front(stack), new) /\ UNCHANGED status
  <2> HIDE DEF new
  <2>1. FramesInv(module, stack', DOMAIN result) /\ stack' # << >>
    BY <1>1, <1>2, FramesReplaced DEF StackInv
  <2> QED
    BY <1>2, <2>1 DEF StackInv, StatusInv
<1>3. CASE status' \in {"aborted", "undefined"} /\ UNCHANGED stack
  BY <1>3 DEF StackInv, StatusInv
<1> QED
  BY <1>2, <1>3 DEF GoOnWith

(* Entering analyzeForward.                                                *)
LEMMA ActivationIs ==
    ASSUME NEW fn \in Defined, NEW isEntrypoint, NEW D, Blocks(fn) \subseteq D
    PROVE  FrameInv(module, Activation(fn, isEntrypoint), D)
<1> DEFINE frame == Activation(fn, isEntrypoint)
<1>1. frame = [fn |-> fn, isEntrypoint |-> isEntrypoint, workList |-> Blocks(fn),
               bb |-> NoBlock, pc |-> 0, fact |-> EmptyFact,
               calling |-> FALSE, called |-> {}, pending |-> {}]
  BY DEF Activation
<1>2. Blocks(fn) = BlocksIn(module, fn)
  BY DEF Blocks, Layout, Name, BlocksIn
<1> HIDE DEF frame
<1>3. FactInv(module, frame.fact)
  <2>1. EmptyFact.fault = "none"
    BY DEF EmptyFact
  <2>2. frame.fact = EmptyFact
    BY <1>1
  <2> QED
    BY <2>1, <2>2, GoodEmptyFact DEF FactInv
<1>4. FrameShape(module, frame)
  BY <1>1, <1>2 DEF FrameShape, Defined
<1>5. FrameInv(module, frame, D)
  BY <1>1, <1>2, <1>3, <1>4 DEF FrameInv
<1> QED
  BY <1>5 DEF frame

LEMMA ResetIs ==
    ASSUME ModuleInv, ResultInv, NEW fn \in Defined, NEW initVal, FactInv(module, initVal),
           NEW r, r = Reset(fn, initVal)
    PROVE  /\ ResultsInv(module, r)
           /\ DOMAIN result \subseteq DOMAIN r /\ Blocks(fn) \subseteq DOMAIN r
           /\ \A b \in DOMAIN result \ Blocks(fn) : r[b] = result[b]
<1> DEFINE first == [input |-> initVal, output |-> initVal]
<1>1. /\ DOMAIN r = Blocks(fn) \cup DOMAIN result
      /\ \A b \in DOMAIN r : r[b] = IF b \in Blocks(fn) THEN first ELSE result[b]
  BY DEF Reset, Override
<1>2. Recorded(module, first)
  BY DEF Recorded
<1> HIDE DEF first
<1>3. Blocks(fn) \subseteq DOMAIN module.code
  BY BlocksOf
<1> QED
  BY <1>1, <1>2, <1>3 DEF ResultInv, ResultsInv

-----------------------------------------------------------------------------
(* What the actions make of the innermost activation.                      *)
Taken(frame, b) ==
    [frame EXCEPT !.workList = @ \ {b}, !.bb = b, !.pc = 1]

Propagated(frame, S) ==
    [frame EXCEPT !.workList = @ \cup S, !.bb = NoBlock, !.fact = EmptyFact]

Settled(frame) ==
    [frame EXCEPT !.bb = NoBlock, !.fact = EmptyFact]

Advanced(frame) ==
    [frame EXCEPT !.pc = @ + 1]

Begun(frame, S) ==
    [frame EXCEPT !.calling = TRUE, !.called = S, !.pending = S]

Proceeding(frame, fn) ==
    [frame EXCEPT !.pending = @ \ {fn}]

Returned(frame) ==
    [frame EXCEPT !.calling = FALSE, !.called = {}, !.pc = @ + 1]

LEMMA ShapeTaken ==
    ASSUME NEW m, NEW frame, FrameShape(m, frame), frame.bb = NoBlock,
           NEW b \in BlocksIn(m, frame.fn), b # NoBlock, Len(m.code[b]) \in Nat,
           NEW new, new = Taken(frame, b)
    PROVE  FrameShape(m, new) /\ new.fn = frame.fn /\ new.fact = frame.fact
<1>1. new = [fn |-> frame.fn, isEntrypoint |-> frame.isEntrypoint, workList |-> frame.workList \ {b},
             bb |-> b, pc |-> 1, fact |-> frame.fact,
             calling |-> frame.calling, called |-> frame.called, pending |-> frame.pending]
  BY DEF FrameShape, Taken
<1>2. /\ new.fn = frame.fn
      /\ new.isEntrypoint = frame.isEntrypoint
      /\ new.workList = frame.workList \ {b}
      /\ new.bb = b
      /\ new.pc = 1
      /\ new.fact = frame.fact
      /\ new.calling = frame.calling
      /\ new.called = frame.called
      /\ new.pending = frame.pending
  BY <1>1
<1>3. new = [fn |-> new.fn, isEntrypoint |-> new.isEntrypoint, workList |-> new.workList,
             bb |-> new.bb, pc |-> new.pc, fact |-> new.fact,
             calling |-> new.calling, called |-> new.called, pending |-> new.pending]
  BY <1>1, <1>2
<1>4. /\ new.workList \subseteq BlocksIn(m, new.fn)
      /\ new.bb # NoBlock =>
             new.bb \in BlocksIn(m, new.fn) /\ new.pc \in 1 .. Len(m.code[new.bb]) + 1
  BY <1>2 DEF FrameShape
<1>5. /\ new.fn \in FunctionsOf(m)
      /\ new.called \subseteq FunctionsOf(m) /\ new.pending \subseteq new.called
  BY <1>2 DEF FrameShape
<1>6. /\ new.calling =>
             /\ new.bb # NoBlock /\ new.pc <= Len(m.code[new.bb])
             /\ m.code[new.bb][new.pc].op = "call"
      /\ new.pending # {} => new.calling
  BY <1>2 DEF FrameShape
<1> QED
  BY <1>2, <1>3, <1>4, <1>5, <1>6 DEF FrameShape

LEMMA ShapePropagated ==
    ASSUME NEW m, NEW frame, FrameShape(m, frame), ~frame.calling,
           NEW S, S \subseteq BlocksIn(m, frame.fn),
           NEW new, new = Propagated(frame, S)
    PROVE  FrameShape(m, new) /\ new.fn = frame.fn /\ new.fact = EmptyFact
<1>1. new = [fn |-> frame.fn, isEntrypoint |-> frame.isEntrypoint, workList |-> frame.workList \cup S,
             bb |-> NoBlock, pc |-> frame.pc, fact |-> EmptyFact,
             calling |-> frame.calling, called |-> frame.called, pending |-> frame.pending]
  BY DEF FrameShape, Propagated
<1> QED
  BY <1>1 DEF FrameShape

LEMMA ShapeSettled ==
    ASSUME NEW m, NEW frame, FrameShape(m, frame), ~frame.calling,
           NEW new, new = Settled(frame)
    PROVE  FrameShape(m, new) /\ new.fn = frame.fn /\ new.fact = EmptyFact
<1>1. new = [fn |-> frame.fn, isEntrypoint |-> frame.isEntrypoint, workList |-> frame.workList,
             bb |-> NoBlock, pc |-> frame.pc, fact |-> EmptyFact,
             calling |-> frame.calling, called |-> frame.called, pending |-> frame.pending]
  BY DEF FrameShape, Settled
<1> QED
  BY <1>1 DEF FrameShape

LEMMA ShapeAdvanced ==
    ASSUME NEW m, NEW frame, FrameShape(m, frame), ~frame.calling, frame.bb # NoBlock,
           Len(m.code[frame.bb]) \in Nat, frame.pc \in 1 .. Len(m.code[frame.bb]),
           NEW new, new = Advanced(frame)
    PROVE  FrameShape(m, new) /\ new.fn = frame.fn /\ new.fact = frame.fact
<1>1. new = [fn |-> frame.fn, isEntrypoint |-> frame.isEntrypoint, workList |-> frame.workList,
             bb |-> frame.bb, pc |-> frame.pc + 1, fact |-> frame.fact,
             calling |-> frame.calling, called |-> frame.called, pending |-> frame.pending]
  BY DEF FrameShape, Advanced
<1> QED
  BY <1>1 DEF FrameShape

LEMMA ShapeBegun ==
    ASSUME NEW m, NEW frame, FrameShape(m, frame), frame.bb # NoBlock,
           frame.pc <= Len(m.code[frame.bb]), m.code[frame.bb][frame.pc].op = "call",
           NEW S, S \subseteq FunctionsOf(m),
           NEW new, new = Begun(frame, S)
    PROVE  FrameShape(m, new) /\ new.fn = frame.fn /\ new.fact = frame.fact
<1>1. new = [fn |-> frame.fn, isEntrypoint |-> frame.isEntrypoint, workList |-> frame.workList,
             bb |-> frame.bb, pc |-> frame.pc, fact |-> frame.fact,
             calling |-> TRUE, called |-> S, pending |-> S]
  BY DEF FrameShape, Begun
<1> QED
  BY <1>1 DEF FrameShape

LEMMA ShapeProceeding ==
    ASSUME NEW m, NEW frame, FrameShape(m, frame), NEW fn \in frame.pending,
           NEW new, new = Proceeding(frame, fn)
    PROVE  FrameShape(m, new) /\ new.fn = frame.fn /\ new.fact = frame.fact
<1>1. new = [fn |-> frame.fn, isEntrypoint |-> frame.isEntrypoint, workList |-> frame.workList,
             bb |-> frame.bb, pc |-> frame.pc, fact |-> frame.fact,
             calling |-> frame.calling, called |-> frame.called, pending |-> frame.pending \ {fn}]
  BY DEF FrameShape, Proceeding
<1> QED
  BY <1>1 DEF FrameShape

LEMMA ShapeReturned ==
    ASSUME NEW m, NEW frame, FrameShape(m, frame), frame.bb # NoBlock, frame.pending = {},
           Len(m.code[frame.bb]) \in Nat, frame.pc \in 1 .. Len(m.code[frame.bb]),
           NEW new, new = Returned(frame)
    PROVE  FrameShape(m, new) /\ new.fn = frame.fn /\ new.fact = frame.fact
<1>1. new = [fn |-> frame.fn, isEntrypoint |-> frame.isEntrypoint, workList |-> frame.workList,
             bb |-> frame.bb, pc |-> frame.pc + 1, fact |-> frame.fact,
             calling |-> FALSE, called |-> {}, pending |-> frame.pending]
  BY DEF FrameShape, Returned
<1>2. /\ new.fn = frame.fn
      /\ new.isEntrypoint = frame.isEntrypoint
      /\ new.workList = frame.workList
      /\ new.bb = frame.bb
      /\ new.pc = frame.pc + 1
      /\ new.fact = frame.fact
      /\ new.calling = FALSE
      /\ new.called = {}
      /\ new.pending = frame.pending
  BY <1>1
<1>3. new = [fn |-> new.fn, isEntrypoint |-> new.isEntrypoint, workList |-> new.workList,
             bb |-> new.bb, pc |-> new.pc, fact |-> new.fact,
             calling |-> new.calling, called |-> new.called, pending |-> new.pending]
  BY <1>1, <1>2
<1>4. /\ new.workList \subseteq BlocksIn(m, new.fn)
      /\ new.bb # NoBlock =>
             new.bb \in BlocksIn(m, new.fn) /\ new.pc \in 1 .. Len(m.code[new.bb]) + 1
  BY <1>2 DEF FrameShape
<1>5. /\ new.fn \in FunctionsOf(m)
      /\ new.called \subseteq FunctionsOf(m) /\ new.pending \subseteq new.called
  BY <1>2 DEF FrameShape
<1>6. /\ new.calling =>
             /\ new.bb # NoBlock /\ new.pc <= Len(m.code[new.bb])
             /\ m.code[new.bb][new.pc].op = "call"
      /\ new.pending # {} => new.calling
  BY <1>2 DEF FrameShape
<1> QED
  BY <1>2, <1>3, <1>4, <1>5, <1>6 DEF FrameShape

-----------------------------------------------------------------------------
(* Every action keeps the invariant.                                       *)
LEMMA InBlockIs ==
    ASSUME IInv, InBlock
    PROVE  /\ Top.fn \in Defined /\ Top.bb \in Blocks(Top.fn) /\ Top.bb \in DOMAIN module.code
           /\ Top.bb \in DOMAIN result
           /\ Top.pc \in 1 .. Len(module.code[Top.bb]) + 1 /\ Len(module.code[Top.bb]) \in Nat
           /\ Good(Top.fact, Defined)
<1>1. FrameInv(module, Top, DOMAIN result)
  BY TopIs DEF InBlock, IInv
<1>2. /\ Top.fn \in Defined /\ Top.bb \in BlocksIn(module, Top.fn)
      /\ BlocksIn(module, Top.fn) \subseteq DOMAIN result
      /\ Top.pc \in 1 .. Len(module.code[Top.bb]) + 1
      /\ Good(Top.fact, Defined)
  BY <1>1 DEF InBlock, FrameInv, FrameShape, FactInv, Defined
<1>3. Top.bb \in DOMAIN module.code
  BY <1>2 DEF IInv, ResultInv, ResultsInv
<1> QED
  BY <1>2, <1>3, CodeOf DEF IInv, Blocks, Layout, Name, BlocksIn

LEMMA AtInstructionIs ==
    ASSUME IInv, AtInstruction
    PROVE  /\ Top.pc \in 1 .. Len(module.code[Top.bb])
           /\ Current = module.code[Top.bb][Top.pc]
           /\ IsInstruction(Current) /\ KnownOperands(Current, Defined)
           /\ Current.op = "call" => KnownCall(Current, Defined) /\ Known(Current.value, Defined)
<1>1. /\ Top.bb \in DOMAIN module.code
      /\ Top.pc \in 1 .. Len(module.code[Top.bb]) + 1 /\ Len(module.code[Top.bb]) \in Nat
  BY InBlockIs DEF AtInstruction
<1>2. Top.pc <= Len(module.code[Top.bb])
  BY DEF AtInstruction, Code
<1>3. Top.pc \in 1 .. Len(module.code[Top.bb]) /\ Current = module.code[Top.bb][Top.pc]
  BY <1>1, <1>2 DEF Current, Code
<1>4. /\ IsInstruction(Current) /\ KnownOperands(Current, Defined)
      /\ Current.op = "call" => KnownCall(Current, Defined)
  BY <1>1, <1>3, CodeOf DEF IInv
<1>5. Current.op = "call" => "value" \in DOMAIN Current
  BY <1>4 DEF IsInstruction, OperandsOf
<1> QED
  BY <1>3, <1>4, <1>5 DEF KnownOperands

LEMMA InitInv ==
    Init => IInv
<1> SUFFICES ASSUME Init PROVE IInv
  OBVIOUS
<1>1. ModuleInv
  BY DEF Init, ModuleInv
<1>2. /\ stack = << >> /\ << >> \in Seq({}) /\ Len(<< >>) = 0 /\ StackLimit \in Nat
  BY StackLimitAssumption DEF Init
<1>3. StackInv
  <2>1. IsSequence(<< >>)
    BY <1>2, OfItsElements
  <2>2. Len(<< >>) <= StackLimit /\ 1 .. Len(<< >>) = {}
    BY <1>2
  <2> QED
    BY <1>2, <2>1, <2>2 DEF StackInv, FramesInv
<1>4. ResultInv
  BY DEF Init, ResultInv, ResultsInv
<1>5. StatusInv
  <2>1. IsModule(module)
    BY <1>1, ModuleIs
  <2>2. Len(module.functions) \in Nat
    BY <2>1, LenProperties DEF IsModule
  <2> QED
    BY <1>2, <2>2 DEF Init, StatusInv
<1> QED
  BY <1>1, <1>3, <1>4, <1>5 DEF IInv

LEMMA StartEntryInv ==
    ASSUME IInv, StartEntry
    PROVE  IInv'
<1> DEFINE fn == module.functions[entry]
<1>1. fn \in Defined /\ entry \in Nat
  <2>1. IsModule(module) /\ entry \in 1 .. Len(module.functions) + 1
    BY ModuleIs DEF IInv, StatusInv
  <2>2. module.functions \in Seq(Defined) /\ Len(module.functions) \in Nat
    BY <2>1, LenProperties DEF IsModule, Defined
  <2>3. entry \in 1 .. Len(module.functions)
    BY <2>1, <2>2 DEF StartEntry
  <2> QED
    BY <2>2, <2>3, ElementOfSeq
<1>2. stack' = <<Activation(fn, TRUE)>> /\ result' = Reset(fn, EmptyFact)
  BY DEF StartEntry
<1> HIDE DEF fn
<1>3. FactInv(module, EmptyFact)
  <2>1. EmptyFact.fault = "none"
    BY DEF EmptyFact
  <2> QED
    BY <2>1, GoodEmptyFact DEF FactInv
<1>4. ResultsInv(module, result') /\ Blocks(fn) \subseteq DOMAIN result'
  BY <1>1, <1>2, <1>3, ResetIs DEF IInv
<1>5. FrameInv(module, Activation(fn, TRUE), DOMAIN result')
  BY <1>1, <1>4, ActivationIs
<1>6. FramesInv(module, stack', DOMAIN result') /\ stack' # << >>
  <2> DEFINE frame == Activation(fn, TRUE)
  <2>1. stack' = <<frame>>
    BY <1>2
  <2>2. FrameInv(module, frame, DOMAIN result')
    BY <1>5
  <2> HIDE DEF frame
  <2>3. <<frame>> \in Seq({frame}) /\ Len(<<frame>>) = 1 /\ <<frame>>[1] = frame
    OBVIOUS
  <2>4. IsSequence(<<frame>>)
    BY <2>3, OfItsElements
  <2>5. StackLimit \in Nat /\ 1 <= StackLimit /\ <<frame>> # << >>
    BY StackLimitAssumption
  <2> QED
    BY <2>1, <2>2, <2>3, <2>4, <2>5 DEF FramesInv
<1> QED
  BY <1>4, <1>6 DEF IInv, ModuleInv, StackInv, ResultInv, StatusInv, StartEntry

LEMMA TakeBlockInv ==
    ASSUME IInv, TakeBlock
    PROVE  IInv'
<1> DEFINE bb == FirstBlock(Top.workList)
           input == MergedInput(bb)
           frame == [Top EXCEPT !.workList = @ \ {bb}, !.bb = bb, !.pc = 1]
           merged == [input EXCEPT !.fault = "none"]
<1>1. /\ FrameInv(module, Top, DOMAIN result) /\ stack # << >>
      /\ Top.bb = NoBlock /\ Top.workList # {}
  BY TopIs DEF IInv, TakeBlock
<1>2. /\ GoOnWith(input, frame)
      /\ result' = [result EXCEPT ![bb].input = merged]
      /\ UNCHANGED <<module, addr, entry>>
  BY DEF TakeBlock
<1>3. /\ Top.fn \in Defined /\ Top.workList \subseteq Blocks(Top.fn)
      /\ Blocks(Top.fn) \subseteq DOMAIN result /\ Blocks(Top.fn) = BlocksIn(module, Top.fn)
  BY <1>1 DEF FrameInv, FrameShape, Defined, Blocks, Layout, Name, BlocksIn
<1>4. bb \in Top.workList
  BY <1>1, <1>3, FirstBlockIs DEF IInv
<1> HIDE DEF bb
<1>5. Good(input, Defined)
  BY <1>3, <1>4, GoodMergedInput DEF IInv
<1> HIDE DEF input
<1>6. bb \in DOMAIN module.code /\ bb # NoBlock /\ Len(module.code[bb]) \in Nat
  <2>1. bb \in DOMAIN module.code
    BY <1>3, <1>4 DEF IInv, ResultInv, ResultsInv
  <2>2. NoBlock \notin DOMAIN module.code
    BY ModuleIs DEF IInv, IsModule
  <2> QED
    BY <2>1, <2>2, CodeOf DEF IInv
<1>7. FrameShape(module, frame) /\ frame.fn = Top.fn
  <2>1. frame = Taken(Top, bb)
    BY DEF Taken
  <2>2. FrameShape(module, Top) /\ bb \in BlocksIn(module, Top.fn)
    BY <1>1, <1>3, <1>4 DEF FrameInv
  <2> HIDE DEF frame
  <2> QED
    BY <1>1, <1>6, <2>1, <2>2, ShapeTaken
<1> HIDE DEF frame
<1>8. FactInv(module, merged)
  BY <1>5, GoodContinued DEF FactInv, Defined
<1> HIDE DEF merged
<1>9. ResultsInv(module, result') /\ DOMAIN result' = DOMAIN result
  <2>1. \A b \in DOMAIN result : Recorded(module, result[b])
    BY DEF IInv, ResultInv, ResultsInv
  <2>2. result[bb] = [input |-> result[bb].input, output |-> result[bb].output]
        /\ FactInv(module, result[bb].output)
    BY <1>3, <1>4, <2>1 DEF Recorded
  <2>3. result'[bb] = [input |-> merged, output |-> result[bb].output]
    BY <1>2, <1>3, <1>4, <2>2
  <2>4. DOMAIN result' = DOMAIN result /\ \A b \in DOMAIN result \ {bb} : result'[b] = result[b]
    BY <1>2
  <2>5. Recorded(module, result'[bb])
    BY <1>8, <2>2, <2>3 DEF Recorded
  <2>6. \A b \in DOMAIN result' : Recorded(module, result'[b])
    BY <2>1, <2>4, <2>5
  <2> QED
    BY <2>4, <2>6 DEF IInv, ResultInv, ResultsInv
<1>10. StackInv' /\ StatusInv'
  BY <1>1, <1>2, <1>3, <1>5, <1>7, <1>9, StackGoesOn DEF IInv
<1> QED
  BY <1>2, <1>9, <1>10 DEF IInv, ModuleInv, ResultInv

(* At the end of a block the activation is in no call.                     *)
LEMMA EndOfBlockIs ==
    ASSUME IInv, InBlock, ~AtInstruction
    PROVE  ~Top.calling /\ FrameShape(module, Top) /\ stack # << >>
           /\ Blocks(Top.fn) = BlocksIn(module, Top.fn) /\ BlocksIn(module, Top.fn) \subseteq DOMAIN result
<1>1. FrameInv(module, Top, DOMAIN result) /\ stack # << >>
  BY TopIs DEF InBlock, IInv
<1>2. ~(Top.pc <= Len(module.code[Top.bb]))
  BY DEF AtInstruction, Code
<1> QED
  BY <1>1, <1>2 DEF FrameInv, FrameShape, Blocks, Layout, Name, BlocksIn

LEMMA EmptyFactInv ==
    ASSUME NEW m
    PROVE  FactInv(m, EmptyFact)
<1>1. EmptyFact.fault = "none"
  BY DEF EmptyFact
<1> QED
  BY <1>1, GoodEmptyFact DEF FactInv

LEMMA UnchangedInv ==
    ASSUME IInv, Unchanged
    PROVE  IInv'
<1>1. /\ ~Top.calling /\ FrameShape(module, Top) /\ stack # << >>
      /\ BlocksIn(module, Top.fn) \subseteq DOMAIN result
  BY EndOfBlockIs DEF Unchanged
<1>2. stack' = Append(Front(stack), Settled(Top)) /\ UNCHANGED <<module, addr, entry, result, status>>
  BY DEF Unchanged, Settled
<1>3. FrameInv(module, Settled(Top), DOMAIN result)
  BY <1>1, ShapeSettled, EmptyFactInv DEF FrameInv
<1>4. FramesInv(module, stack', DOMAIN result) /\ stack' # << >>
  BY <1>1, <1>2, <1>3, FramesReplaced DEF IInv, StackInv
<1> QED
  BY <1>1, <1>2, <1>4 DEF IInv, ModuleInv, StackInv, ResultInv, StatusInv

LEMMA PropagateInv ==
    ASSUME IInv, Propagate
    PROVE  IInv'
<1> DEFINE S == module.succ[Top.bb]
<1>1. /\ ~Top.calling /\ FrameShape(module, Top) /\ stack # << >>
      /\ Blocks(Top.fn) = BlocksIn(module, Top.fn) /\ BlocksIn(module, Top.fn) \subseteq DOMAIN result
  BY EndOfBlockIs DEF Propagate
<1>2. /\ stack' = Append(Front(stack), Propagated(Top, S))
      /\ result' = [result EXCEPT ![Top.bb].output = Top.fact]
      /\ UNCHANGED <<module, addr, entry, status>>
  BY DEF Propagate, Propagated
<1>3. /\ Top.fn \in Defined /\ Top.bb \in Blocks(Top.fn) /\ Top.bb \in DOMAIN result
      /\ FactInv(module, Top.fact)
  <2>1. FactInv(module, Top.fact)
    BY <1>1, TopIs DEF IInv, FrameInv
  <2> QED
    BY <2>1, InBlockIs DEF Propagate
<1>4. S \subseteq BlocksIn(module, Top.fn)
  BY <1>1, <1>3, BlocksOf DEF IInv
<1> HIDE DEF S
<1>5. DOMAIN result' = DOMAIN result /\ ResultsInv(module, result')
  <2> DEFINE bb == Top.bb
  <2>1. \A b \in DOMAIN result : Recorded(module, result[b])
    BY DEF IInv, ResultInv, ResultsInv
  <2>2. result[bb] = [input |-> result[bb].input, output |-> result[bb].output]
        /\ FactInv(module, result[bb].input)
    BY <1>3, <2>1 DEF Recorded
  <2>3. result'[bb] = [input |-> result[bb].input, output |-> Top.fact]
    BY <1>2, <1>3, <2>2
  <2>4. DOMAIN result' = DOMAIN result /\ \A b \in DOMAIN result \ {bb} : result'[b] = result[b]
    BY <1>2
  <2>5. Recorded(module, result'[bb])
    BY <1>3, <2>2, <2>3 DEF Recorded
  <2> HIDE DEF bb
  <2>6. \A b \in DOMAIN result' : Recorded(module, result'[b])
    BY <2>1, <2>4, <2>5
  <2> QED
    BY <2>4, <2>6 DEF IInv, ResultInv, ResultsInv
<1>6. FrameInv(module, Propagated(Top, S), DOMAIN result')
  BY <1>1, <1>4, <1>5, ShapePropagated, EmptyFactInv DEF FrameInv
<1>7. FramesInv(module, stack', DOMAIN result') /\ stack' # << >>
  BY <1>1, <1>2, <1>5, <1>6, FramesReplaced DEF IInv, StackInv
<1> QED
  BY <1>1, <1>2, <1>5, <1>7 DEF IInv, ModuleInv, StackInv, ResultInv, StatusInv

(* What an instruction finds, and where it goes on.                        *)
LEMMA AdvancedIs ==
    ASSUME IInv, AtInstruction, ~Top.calling
    PROVE  /\ FrameShape(module, Advanced(Top)) /\ stack # << >>
           /\ BlocksIn(module, Advanced(Top).fn) \subseteq DOMAIN result
<1>1. FrameInv(module, Top, DOMAIN result) /\ stack # << >> /\ Top.bb # NoBlock
  BY TopIs DEF AtInstruction, InBlock, IInv
<1>2. Len(module.code[Top.bb]) \in Nat /\ Top.pc \in 1 .. Len(module.code[Top.bb])
  BY InBlockIs, AtInstructionIs DEF AtInstruction
<1>3. FrameShape(module, Top) /\ BlocksIn(module, Top.fn) \subseteq DOMAIN result
  BY <1>1 DEF FrameInv
<1> QED
  BY <1>1, <1>2, <1>3, ShapeAdvanced

LEMMA InstructionInv ==
    ASSUME IInv, Instruction
    PROVE  IInv'
<1> PICK seen :
        GoOnWith(TransferInst(Top.fact, Current, Top.isEntrypoint, created, seen), Advanced(Top))
  BY DEF Instruction, Advanced
<1> DEFINE g == TransferInst(Top.fact, Current, Top.isEntrypoint, created, seen)
<1>1. Good(g, Defined)
  <2>1. IsInstruction(Current) /\ KnownOperands(Current, Defined) /\ Current.op # "call"
    BY AtInstructionIs DEF Instruction
  <2>2. Good(Top.fact, Defined)
    BY InBlockIs DEF Instruction, AtInstruction
  <2> QED
    BY <2>1, <2>2, GoodTransferInst
<1>2. GoOnWith(g, Advanced(Top)) /\ UNCHANGED <<module, addr, entry, result>>
  BY DEF Instruction
<1> HIDE DEF g
<1>3. ~Top.calling
  <2>1. Current.op # "call" /\ Current = module.code[Top.bb][Top.pc]
    BY AtInstructionIs DEF Instruction
  <2>2. FrameShape(module, Top)
    BY TopIs DEF Instruction, AtInstruction, InBlock, IInv, FrameInv
  <2> QED
    BY <2>1, <2>2 DEF FrameShape
<1>4. /\ FrameShape(module, Advanced(Top)) /\ stack # << >>
      /\ BlocksIn(module, Advanced(Top).fn) \subseteq DOMAIN result
  BY <1>3, AdvancedIs DEF Instruction
<1>5. StackInv' /\ StatusInv'
  BY <1>1, <1>2, <1>4, StackGoesOn DEF IInv
<1> QED
  BY <1>2, <1>5 DEF IInv, ModuleInv, ResultInv

LEMMA BeginCallInv ==
    ASSUME IInv, BeginCall
    PROVE  IInv'
<1> DEFINE called == CalledFunctions(Top.fact, Current)
           f == AddCallEdges(Top.fact, Current)
           g == PassArguments(f, Current, called)
<1>1. /\ KnownCall(Current, Defined) /\ Current.op = "call"
      /\ Current = module.code[Top.bb][Top.pc] /\ Good(Top.fact, Defined)
      /\ Top.pc \in 1 .. Len(module.code[Top.bb]) /\ Len(module.code[Top.bb]) \in Nat
  BY AtInstructionIs, InBlockIs DEF BeginCall, AtInstruction
<1>2. FrameInv(module, Top, DOMAIN result) /\ stack # << >> /\ Top.bb # NoBlock
  BY TopIs DEF BeginCall, AtInstruction, InBlock, IInv
<1>3. called \subseteq Defined /\ Good(f, Defined)
  BY <1>1, CalledAreDefined, GoodAddCallEdges
<1>4. /\ \/ GoOnWith(f, Advanced(Top))
         \/ GoOnWith(g, Begun(Top, called))
      /\ UNCHANGED <<module, addr, entry, result>>
  BY DEF BeginCall, Advanced, Begun
<1> HIDE DEF called, f
<1>5. Good(g, Defined)
  BY <1>1, <1>3, GoodPassArguments DEF IInv, KnownCall
<1> HIDE DEF g
<1>6. /\ FrameShape(module, Advanced(Top))
      /\ BlocksIn(module, Advanced(Top).fn) \subseteq DOMAIN result
  BY AdvancedIs DEF BeginCall
<1>7. /\ FrameShape(module, Begun(Top, called))
      /\ BlocksIn(module, Begun(Top, called).fn) \subseteq DOMAIN result
  <2>1. Top.pc <= Len(module.code[Top.bb]) /\ module.code[Top.bb][Top.pc].op = "call"
    BY <1>1
  <2>2. FrameShape(module, Top) /\ BlocksIn(module, Top.fn) \subseteq DOMAIN result
    BY <1>2 DEF FrameInv
  <2>3. called \subseteq FunctionsOf(module)
    BY <1>3 DEF Defined
  <2> QED
    BY <1>2, <2>1, <2>2, <2>3, ShapeBegun
<1>8. StackInv' /\ StatusInv'
  <2>1. CASE GoOnWith(f, Advanced(Top))
    BY <1>2, <1>3, <1>4, <1>6, <2>1, StackGoesOn DEF IInv
  <2>2. CASE GoOnWith(g, Begun(Top, called))
    BY <1>2, <1>4, <1>5, <1>7, <2>2, StackGoesOn DEF IInv
  <2> QED
    BY <1>4, <2>1, <2>2
<1> QED
  BY <1>4, <1>8 DEF IInv, ModuleInv, ResultInv

LEMMA AnalyzeCalleeInv ==
    ASSUME IInv, AnalyzeCallee
    PROVE  IInv'
<1> DEFINE fn == FirstFunction(Top.pending)
           rest == Append(Front(stack), Proceeding(Top, fn))
<1>1. /\ FrameInv(module, Top, DOMAIN result) /\ stack # << >> /\ Top.pending # {}
      /\ IsSequence(stack) /\ Len(stack) \in Nat
  BY TopIs DEF AnalyzeCallee, InBlock, IInv, StackInv, FramesInv
<1>2. /\ Top.pending \subseteq Defined /\ Top.calling /\ FrameShape(module, Top)
      /\ FactInv(module, Top.fact) /\ BlocksIn(module, Top.fn) \subseteq DOMAIN result
  BY <1>1 DEF FrameInv, FrameShape, Defined
<1>3. fn \in Top.pending /\ fn \in Defined
  BY <1>1, <1>2, FirstFunctionIs DEF IInv
<1>4. \/ /\ Len(stack) < StackLimit
         /\ stack' = Append(rest, Activation(fn, FALSE))
         /\ result' = Reset(fn, Top.fact)
         /\ UNCHANGED status
      \/ status' = "overflow" /\ UNCHANGED <<stack, result>>
  BY DEF AnalyzeCallee, Proceeding
<1>5. UNCHANGED <<module, addr, entry>>
  BY DEF AnalyzeCallee
<1> HIDE DEF fn
<1>6. CASE /\ Len(stack) < StackLimit
           /\ stack' = Append(rest, Activation(fn, FALSE))
           /\ result' = Reset(fn, Top.fact)
           /\ UNCHANGED status
  <2>1. /\ ResultsInv(module, result') /\ DOMAIN result \subseteq DOMAIN result'
        /\ Blocks(fn) \subseteq DOMAIN result'
    BY <1>2, <1>3, <1>6, ResetIs DEF IInv
  <2>2. FrameInv(module, Proceeding(Top, fn), DOMAIN result') /\ Proceeding(Top, fn).calling
    <3>1. /\ FrameShape(module, Proceeding(Top, fn)) /\ Proceeding(Top, fn).fn = Top.fn
          /\ Proceeding(Top, fn).fact = Top.fact
      BY <1>2, <1>3, ShapeProceeding
    <3>2. Proceeding(Top, fn).calling = Top.calling
      BY DEF Proceeding
    <3> QED
      BY <1>2, <2>1, <3>1, <3>2 DEF FrameInv
  <2>3. FramesInv(module, rest, DOMAIN result') /\ rest # << >>
    BY <1>1, <2>1, <2>2, FramesReplaced DEF IInv, StackInv
  <2>4. Len(rest) = Len(stack) /\ rest[Len(stack)] = Proceeding(Top, fn)
    <3>1. Len(rest) = Len(stack)
      BY <1>1, Replaced
    <3>2. rest[Len(stack)] = Proceeding(Top, fn)
      BY <1>1, Replaced
    <3> QED
      BY <3>1, <3>2
  <2> HIDE DEF rest
  <2>5. FrameInv(module, Activation(fn, FALSE), DOMAIN result')
    BY <1>3, <2>1, ActivationIs
  <2>6. FramesInv(module, stack', DOMAIN result') /\ stack' # << >>
    BY <1>6, <2>2, <2>3, <2>4, <2>5, FramesPushed
  <2> QED
    BY <1>1, <1>5, <1>6, <2>1, <2>6 DEF IInv, ModuleInv, StackInv, ResultInv, StatusInv
<1>7. CASE status' = "overflow" /\ UNCHANGED <<stack, result>>
  BY <1>5, <1>7 DEF IInv, ModuleInv, StackInv, ResultInv, StatusInv
<1> QED
  BY <1>4, <1>6, <1>7

LEMMA ReturnToCallerInv ==
    ASSUME IInv, ReturnToCaller
    PROVE  IInv'
<1>1. stack # << >>
  <2>1. Len(<< >>) = 0
    OBVIOUS
  <2> QED
    BY <2>1 DEF ReturnToCaller
<1>2. stack' = Front(stack) /\ UNCHANGED <<module, addr, entry, result, status>>
  BY DEF ReturnToCaller
<1>3. FramesInv(module, stack', DOMAIN result)
  BY <1>1, <1>2, FramesPopped DEF IInv, StackInv
<1> QED
  BY <1>1, <1>2, <1>3 DEF IInv, ModuleInv, StackInv, ResultInv, StatusInv

LEMMA EndCallInv ==
    ASSUME IInv, EndCall
    PROVE  IInv'
<1>1. PICK block \in [Top.called -> DOMAIN result \cup {NoBlock}] :
          GoOnWith(UniteReturns(ClearReachable(Top.fact, Current.args), Current, Top.called, block),
                   Returned(Top))
  BY DEF EndCall, Returned
<1> DEFINE f == ClearReachable(Top.fact, Current.args)
           g == UniteReturns(f, Current, Top.called, block)
<1>2. GoOnWith(g, Returned(Top)) /\ UNCHANGED <<module, addr, entry, result>>
  BY <1>1 DEF EndCall
<1>3. /\ FrameInv(module, Top, DOMAIN result) /\ stack # << >> /\ Top.bb # NoBlock
      /\ Top.calling /\ Top.pending = {}
  BY TopIs DEF EndCall, AtInstruction, InBlock, IInv
<1>4. /\ Current = module.code[Top.bb][Top.pc] /\ Good(Top.fact, Defined)
      /\ Top.pc \in 1 .. Len(module.code[Top.bb]) /\ Len(module.code[Top.bb]) \in Nat
  BY AtInstructionIs, InBlockIs DEF EndCall, AtInstruction
<1>5. Current.op = "call" /\ Top.called \subseteq Defined
  BY <1>3, <1>4 DEF FrameInv, FrameShape, Defined
<1>6. KnownCall(Current, Defined) /\ Known(Current.value, Defined)
  BY <1>5, AtInstructionIs DEF EndCall
<1>7. Good(f, Defined)
  BY <1>4, <1>6, GoodClearReachable DEF KnownCall
<1> HIDE DEF f
<1>8. \A fn \in Top.called : block[fn] \in DOMAIN result \cup {NoBlock}
  OBVIOUS
<1>9. Good(g, Defined)
  BY <1>5, <1>6, <1>7, <1>8, GoodUniteReturns DEF IInv
<1> HIDE DEF g
<1>10. /\ FrameShape(module, Returned(Top))
       /\ BlocksIn(module, Returned(Top).fn) \subseteq DOMAIN result
  <2>1. FrameShape(module, Top) /\ BlocksIn(module, Top.fn) \subseteq DOMAIN result
    BY <1>3 DEF FrameInv
  <2> QED
    BY <1>3, <1>4, <2>1, ShapeReturned
<1>11. StackInv' /\ StatusInv'
  BY <1>2, <1>3, <1>9, <1>10, StackGoesOn DEF IInv
<1> QED
  BY <1>2, <1>11 DEF IInv, ModuleInv, ResultInv

LEMMA EmptyStack ==
    \A m : FramesInv(m, << >>, {})
<1>1. << >> \in Seq({}) /\ Len(<< >>) = 0 /\ StackLimit \in Nat
  BY StackLimitAssumption
<1>2. IsSequence(<< >>)
  BY <1>1, OfItsElements
<1>3. Len(<< >>) <= StackLimit /\ 1 .. Len(<< >>) = {}
  BY <1>1
<1> QED
  BY <1>2, <1>3 DEF FramesInv

LEMMA FinishEntryInv ==
    ASSUME IInv, FinishEntry
    PROVE  IInv'
<1>1. stack # << >>
  <2>1. Len(<< >>) = 0
    OBVIOUS
  <2> QED
    BY <2>1 DEF FinishEntry
<1>2. /\ \/ stack' = << >> /\ result' = << >> /\ entry' = entry + 1 /\ UNCHANGED status
         \/ status' = "aborted" /\ UNCHANGED <<entry, stack, result>>
      /\ UNCHANGED <<module, addr>>
  BY DEF FinishEntry
<1>3. IsModule(module) /\ Len(module.functions) \in Nat
  <2>1. IsModule(module)
    BY ModuleIs DEF IInv
  <2> QED
    BY <2>1, LenProperties DEF IsModule
<1>4. entry + 1 \in 1 .. Len(module.functions) + 1
  BY <1>1, <1>3 DEF IInv, StatusInv
<1>5. DOMAIN << >> = {}
  OBVIOUS
<1>6. CASE stack' = << >> /\ result' = << >> /\ entry' = entry + 1 /\ UNCHANGED status
  <2>1. StackInv' /\ ResultInv'
    BY <1>2, <1>5, <1>6, EmptyStack DEF StackInv, ResultInv, ResultsInv
  <2> QED
    BY <1>2, <1>4, <1>6, <2>1 DEF IInv, ModuleInv, StatusInv
<1>7. CASE status' = "aborted" /\ UNCHANGED <<entry, stack, result>>
  BY <1>2, <1>7 DEF IInv, ModuleInv, StackInv, ResultInv, StatusInv
<1> QED
  BY <1>2, <1>6, <1>7

LEMMA NextInv ==
    IInv /\ [Next]_vars => IInv'
<1> SUFFICES ASSUME IInv, [Next]_vars PROVE IInv'
  OBVIOUS
<1>1. CASE PrintCallSites
  BY <1>1 DEF PrintCallSites, IInv, ModuleInv, StackInv, ResultInv, StatusInv
<1>2. CASE UNCHANGED vars
  BY <1>2 DEF vars, IInv, ModuleInv, StackInv, ResultInv, StatusInv
<1> QED
  BY <1>1, <1>2, StartEntryInv, TakeBlockInv, UnchangedInv, PropagateInv, InstructionInv,
     BeginCallInv, AnalyzeCalleeInv, ReturnToCallerInv, EndCallInv, FinishEntryInv DEF Next, Ended

(* Every fact the analysis holds or records, for every module, placement   *)
(* and depth of the stack, is a closed graph without a pending fault; every*)
(* suspended activation is in a call; and the innermost one is at a block  *)
(* and an instruction of its function (analyzeForward, transferInstCall).  *)
THEOREM AnalysisTypeOK ==
    Spec => []TypeOK
<1>1. IInv => TypeOK
  <2> SUFFICES ASSUME IInv PROVE TypeOK
    OBVIOUS
  <2>1. IsSequence(stack) /\ DOMAIN stack = 1 .. Len(stack) /\ Len(stack) <= StackLimit
    BY ElementsOf DEF IInv, StackInv, FramesInv
  <2>2. ASSUME NEW i \in DOMAIN stack
        PROVE  /\ FactOK(stack[i].fact)
               /\ stack[i].workList \subseteq Blocks(stack[i].fn)
               /\ stack[i].bb # NoBlock =>
                      stack[i].bb \in Blocks(stack[i].fn) /\ stack[i].pc \in 1 .. Len(Code(stack[i])) + 1
               /\ i < Len(stack) => stack[i].calling
    <3>1. FrameInv(module, stack[i], DOMAIN result) /\ (i < Len(stack) => stack[i].calling)
      BY <2>1 DEF IInv, StackInv, FramesInv
    <3>2. FactOK(stack[i].fact)
      BY <3>1 DEF FrameInv, FactInv, Good, FactOK
    <3> QED
      BY <3>1, <3>2 DEF FrameInv, FrameShape, Blocks, Layout, Name, BlocksIn, Code
  <2>3. \A b \in DOMAIN result : FactOK(result[b].input) /\ FactOK(result[b].output)
    BY DEF IInv, ResultInv, ResultsInv, Recorded, FactInv, Good, FactOK
  <2> QED
    BY <2>1, <2>2, <2>3 DEF TypeOK, IInv, StatusInv
<1> QED
  BY <1>1, InitInv, NextInv, PTL DEF Spec

-----------------------------------------------------------------------------
(* No function is analysed in the middle of its own analysis.              *)
NoRecursion ==
    \A i, j \in DOMAIN stack : i # j => stack[i].fn # stack[j].fn

CallersKeptNow ==
    \A i \in DOMAIN stack :
       i < Len(stack') =>
          /\ \A b \in Blocks(stack[i].fn) : result'[b] = result[b]
          /\ stack'[i].fact = stack[i].fact

LEMMA StackIs ==
    ASSUME IInv
    PROVE  /\ IsSequence(stack) /\ Len(stack) \in Nat /\ DOMAIN stack = 1 .. Len(stack)
           /\ \A i \in DOMAIN stack : stack[i].fn \in Defined
           /\ stack # << >> => Top = stack[Len(stack)] /\ Len(stack) \in DOMAIN stack
<1>1. IsSequence(stack)
  BY DEF IInv, StackInv, FramesInv
<1>2. Len(stack) \in Nat /\ DOMAIN stack = 1 .. Len(stack)
  BY <1>1, ElementsOf
<1>3. \A i \in DOMAIN stack : stack[i].fn \in Defined
  BY <1>2 DEF IInv, StackInv, FramesInv, FrameInv, FrameShape, Defined
<1> QED
  BY <1>1, <1>2, <1>3, TopIs DEF IInv

(* The innermost activation is replaced, and records for its own blocks.   *)
LEMMA KeptBelowTop ==
    ASSUME IInv, NoRecursion, stack # << >>,
           \/ UNCHANGED stack
           \/ \E frame : stack' = Append(Front(stack), frame),
           \A b \in DOMAIN result \ Blocks(Top.fn) : result'[b] = result[b]
    PROVE  CallersKeptNow
<1>1. /\ Len(stack') = Len(stack)
      /\ \A i \in 1 .. Len(stack) : i < Len(stack) => stack'[i] = stack[i]
  <2>1. CASE UNCHANGED stack
    BY <2>1
  <2>2. ASSUME NEW frame, stack' = Append(Front(stack), frame)
        PROVE  /\ Len(stack') = Len(stack)
               /\ \A i \in 1 .. Len(stack) : i < Len(stack) => stack'[i] = stack[i]
    <3>1. Len(stack') = Len(stack)
      BY <2>2, StackIs, Replaced
    <3>2. \A i \in 1 .. Len(stack) : i < Len(stack) => stack'[i] = stack[i]
      <4> DEFINE s == stack
                 t == stack'
      <4>1. IsSequence(s) /\ s # << >> /\ t = Append(Front(s), frame)
        BY <2>2, StackIs
      <4> HIDE DEF s, t
      <4>2. \A i \in 1 .. Len(s) : i < Len(s) => t[i] = s[i]
        BY <4>1, Replaced
      <4> QED
        BY <4>2 DEF s, t
    <3> QED
      BY <3>1, <3>2
  <2> QED
    BY <2>1, <2>2
<1> SUFFICES ASSUME NEW i \in DOMAIN stack, i < Len(stack')
             PROVE  /\ \A b \in Blocks(stack[i].fn) : result'[b] = result[b]
                    /\ stack'[i].fact = stack[i].fact
  BY DEF CallersKeptNow
<1>2. i \in 1 .. Len(stack) /\ i < Len(stack) /\ i # Len(stack)
  BY <1>1, StackIs
<1>3. stack[i].fn \in Defined /\ Top.fn \in Defined /\ stack[i].fn # Top.fn
  BY <1>2, StackIs DEF NoRecursion
<1>4. Blocks(stack[i].fn) \subseteq DOMAIN result \ Blocks(Top.fn)
  <2>1. Blocks(stack[i].fn) \subseteq DOMAIN result
    BY <1>2 DEF IInv, StackInv, FramesInv, FrameInv, Blocks, Layout, Name, BlocksIn
  <2>2. Blocks(stack[i].fn) \cap Blocks(Top.fn) = {}
    BY <1>3, BlocksApart DEF IInv
  <2> QED
    BY <2>1, <2>2
<1> QED
  BY <1>1, <1>2, <1>4

LEMMA GoesOnAtTop ==
    ASSUME NEW g, NEW frame, GoOnWith(g, frame)
    PROVE  UNCHANGED stack \/ \E new : stack' = Append(Front(stack), new)
BY DEF GoOnWith

LEMMA TakeBlockKeeps ==
    ASSUME IInv, NoRecursion, TakeBlock
    PROVE  CallersKeptNow
<1> DEFINE bb == FirstBlock(Top.workList)
           input == MergedInput(bb)
           frame == [Top EXCEPT !.workList = @ \ {bb}, !.bb = bb, !.pc = 1]
           merged == [input EXCEPT !.fault = "none"]
<1>1. /\ stack # << >> /\ GoOnWith(input, frame)
      /\ result' = [result EXCEPT ![bb].input = merged]
  BY DEF TakeBlock
<1>2. bb \in Blocks(Top.fn)
  <2>1. FrameInv(module, Top, DOMAIN result) /\ Top.workList # {}
    BY TopIs DEF IInv, TakeBlock
  <2>2. Top.fn \in Defined /\ Top.workList \subseteq Blocks(Top.fn)
    BY <2>1 DEF FrameInv, FrameShape, Defined, Blocks, Layout, Name, BlocksIn
  <2>3. bb \in Top.workList
    BY <2>1, <2>2, FirstBlockIs DEF IInv
  <2> HIDE DEF bb
  <2> QED
    BY <2>2, <2>3
<1> HIDE DEF bb, input, frame, merged
<1>3. \A b \in DOMAIN result \ Blocks(Top.fn) : result'[b] = result[b]
  BY <1>1, <1>2
<1>4. UNCHANGED stack \/ \E new : stack' = Append(Front(stack), new)
  BY <1>1, GoesOnAtTop
<1> QED
  BY <1>1, <1>3, <1>4, KeptBelowTop

LEMMA PropagateKeeps ==
    ASSUME IInv, NoRecursion, Propagate
    PROVE  CallersKeptNow
<1>1. stack # << >> /\ Top.bb \in Blocks(Top.fn)
  BY InBlockIs DEF Propagate, InBlock
<1>2. \E new : stack' = Append(Front(stack), new)
  BY DEF Propagate
<1>3. \A b \in DOMAIN result \ Blocks(Top.fn) : result'[b] = result[b]
  <2>1. result' = [result EXCEPT ![Top.bb].output = Top.fact]
    BY DEF Propagate
  <2> QED
    BY <1>1, <2>1
<1> QED
  BY <1>1, <1>2, <1>3, KeptBelowTop

(* The other steps of the innermost activation leave the results alone.    *)
LEMMA InnermostKeeps ==
    ASSUME IInv, NoRecursion, Unchanged \/ Instruction \/ BeginCall \/ EndCall
    PROVE  CallersKeptNow
<1>1. stack # << >> /\ result' = result
  BY DEF Unchanged, Instruction, BeginCall, EndCall, AtInstruction, InBlock
<1>2. UNCHANGED stack \/ \E new : stack' = Append(Front(stack), new)
  <2>1. CASE Unchanged
    BY <2>1 DEF Unchanged
  <2>2. CASE Instruction
    BY <2>2, GoesOnAtTop DEF Instruction
  <2>3. CASE BeginCall
    BY <2>3, GoesOnAtTop DEF BeginCall
  <2>4. CASE EndCall
    BY <2>4, GoesOnAtTop DEF EndCall
  <2> QED
    BY <2>1, <2>2, <2>3, <2>4
<1> QED
  BY <1>1, <1>2, KeptBelowTop

(* The callee is not one of the functions being analysed, so what is reset *)
(* is none of theirs; the caller's fact waits for it.                      *)
LEMMA AnalyzeCalleeKeeps ==
    ASSUME IInv, NoRecursion', AnalyzeCallee
    PROVE  CallersKeptNow
<1> DEFINE fn == FirstFunction(Top.pending)
           rest == Append(Front(stack), Proceeding(Top, fn))
<1>1. /\ stack # << >> /\ IsSequence(stack) /\ Len(stack) \in Nat /\ DOMAIN stack = 1 .. Len(stack)
      /\ Top = stack[Len(stack)]
  BY StackIs DEF AnalyzeCallee, InBlock
<1>2. fn \in Defined
  <2>1. FrameInv(module, Top, DOMAIN result) /\ Top.pending # {}
    BY <1>1, TopIs DEF IInv, AnalyzeCallee
  <2>2. Top.pending \subseteq Defined
    BY <2>1 DEF FrameInv, FrameShape, Defined
  <2>3. fn \in Top.pending
    BY <2>1, <2>2, FirstFunctionIs DEF IInv
  <2> HIDE DEF fn
  <2> QED
    BY <2>2, <2>3
<1>3. \/ stack' = Append(rest, Activation(fn, FALSE)) /\ result' = Reset(fn, Top.fact)
      \/ UNCHANGED <<stack, result>>
  BY DEF AnalyzeCallee, Proceeding
<1>4. FrameShape(module, Top)
  BY <1>1, TopIs DEF IInv, FrameInv
<1> HIDE DEF fn
<1>5. CASE stack' = Append(rest, Activation(fn, FALSE)) /\ result' = Reset(fn, Top.fact)
  <2>1. Proceeding(Top, fn).fn = Top.fn /\ Proceeding(Top, fn).fact = Top.fact
    <3>1. Proceeding(Top, fn) = [Top EXCEPT !.pending = @ \ {fn}]
      BY DEF Proceeding
    <3> QED
      BY <3>1
  <2>2. IsSequence(rest) /\ Len(rest) = Len(stack)
    BY <1>1, Replaced
  <2>3. /\ \A i \in 1 .. Len(stack) : i < Len(stack) => rest[i] = stack[i]
        /\ rest[Len(stack)] = Proceeding(Top, fn)
    <3> DEFINE s == stack
               t == rest
               frame == Proceeding(Top, fn)
    <3>1. IsSequence(s) /\ s # << >> /\ t = Append(Front(s), frame)
      BY <1>1
    <3> HIDE DEF s, t, frame
    <3>2. \A i \in 1 .. Len(s) : i < Len(s) => t[i] = s[i]
      BY <3>1, Replaced
    <3>3. t[Len(s)] = frame
      BY <3>1, Replaced
    <3> QED
      BY <3>2, <3>3 DEF s, t, frame
  <2> HIDE DEF rest
  <2>5. \A i \in 1 .. Len(stack) : rest[i].fn = stack[i].fn /\ rest[i].fact = stack[i].fact
    <3> SUFFICES ASSUME NEW i \in 1 .. Len(stack)
                 PROVE  rest[i].fn = stack[i].fn /\ rest[i].fact = stack[i].fact
      OBVIOUS
    <3> DEFINE n == Len(stack)
    <3>1. n \in Nat /\ i \in 1 .. n
      BY <1>1
    <3> HIDE DEF n
    <3>2. i = n \/ i < n
      BY <3>1
    <3>3. i = Len(stack) \/ i < Len(stack)
      BY <3>2 DEF n
    <3> QED
      BY <1>1, <2>1, <2>3, <3>3
  <2>6. IsSequence(stack') /\ Len(stack') = Len(stack) + 1
    BY <1>5, <2>2, Pushed
  <2>7. \A i \in 1 .. Len(stack) : stack'[i] = rest[i]
    <3> DEFINE t == stack'
               callee == Activation(fn, FALSE)
    <3>1. t = Append(rest, callee)
      BY <1>5
    <3> HIDE DEF t, callee
    <3>2. \A i \in 1 .. Len(rest) : t[i] = rest[i]
      BY <2>2, <3>1, Pushed
    <3> QED
      BY <2>2, <3>2 DEF t
  <2>8. stack'[Len(stack) + 1].fn = fn
    <3> DEFINE t == stack'
               callee == Activation(fn, FALSE)
    <3>1. t = Append(rest, callee) /\ callee.fn = fn
      BY <1>5 DEF Activation
    <3> HIDE DEF t, callee
    <3>2. t[Len(t)] = callee
      BY <2>2, <3>1, Pushed
    <3> QED
      BY <2>6, <3>1, <3>2 DEF t
  <2>9. \A i \in 1 .. Len(stack) : stack[i].fn # fn
    <3> SUFFICES ASSUME NEW i \in 1 .. Len(stack) PROVE stack[i].fn # fn
      OBVIOUS
    <3>1. DOMAIN stack' = 1 .. Len(stack')
      BY <2>6, ElementsOf
    <3>2. i \in DOMAIN stack' /\ Len(stack) + 1 \in DOMAIN stack' /\ i # Len(stack) + 1
      BY <1>1, <2>6, <3>1
    <3>3. stack'[i].fn # stack'[Len(stack) + 1].fn
      BY <3>2 DEF NoRecursion
    <3> QED
      BY <2>5, <2>7, <2>8, <3>3
  <2>10. \A b \in DOMAIN result \ Blocks(fn) : result'[b] = result[b]
    <3>1. FactInv(module, Top.fact)
      BY <1>1, TopIs DEF IInv, FrameInv
    <3> QED
      BY <1>2, <1>5, <3>1, ResetIs DEF IInv
  <2>11. \A i \in 1 .. Len(stack) : \A b \in Blocks(stack[i].fn) : result'[b] = result[b]
    <3> SUFFICES ASSUME NEW i \in 1 .. Len(stack), NEW b \in Blocks(stack[i].fn)
                 PROVE  result'[b] = result[b]
      OBVIOUS
    <3>1. stack[i].fn \in Defined /\ Blocks(stack[i].fn) \subseteq DOMAIN result
      BY DEF IInv, StackInv, FramesInv, FrameInv, FrameShape, Defined, Blocks, Layout, Name, BlocksIn
    <3>2. Blocks(stack[i].fn) \cap Blocks(fn) = {}
      BY <1>2, <2>9, <3>1, BlocksApart DEF IInv
    <3> QED
      BY <2>10, <3>1, <3>2
  <2> QED
    BY <1>1, <2>5, <2>7, <2>11 DEF CallersKeptNow
<1>6. CASE UNCHANGED <<stack, result>>
  BY <1>6 DEF CallersKeptNow
<1> QED
  BY <1>3, <1>5, <1>6

(* Returning and ending only shorten the stack, and starting finds none.   *)
LEMMA OthersKeep ==
    ASSUME IInv, StartEntry \/ ReturnToCaller \/ FinishEntry \/ PrintCallSites \/ UNCHANGED vars
    PROVE  CallersKeptNow
<1>1. CASE StartEntry
  BY <1>1 DEF StartEntry, CallersKeptNow
<1>2. CASE ReturnToCaller
  <2>1. stack # << >>
    <3>1. Len(<< >>) = 0
      OBVIOUS
    <3> QED
      BY <1>2, <3>1 DEF ReturnToCaller
  <2>2. stack' = Front(stack) /\ result' = result
    BY <1>2 DEF ReturnToCaller
  <2>3. Len(stack') = Len(stack) - 1 /\ Len(stack) \in Nat /\ DOMAIN stack = 1 .. Len(stack)
    BY <2>1, <2>2, StackIs, Popped
  <2>4. \A i \in 1 .. Len(stack') : stack'[i] = stack[i]
    <3> DEFINE s == stack
               t == stack'
    <3>1. IsSequence(s) /\ s # << >> /\ t = Front(s)
      BY <2>1, <2>2, StackIs
    <3> HIDE DEF s, t
    <3>2. \A i \in 1 .. Len(t) : t[i] = s[i]
      BY <3>1, Popped
    <3> QED
      BY <3>2 DEF s, t
  <2>5. \A i \in DOMAIN stack : i < Len(stack') => i \in 1 .. Len(stack')
    BY <2>3
  <2> QED
    BY <2>2, <2>4, <2>5 DEF CallersKeptNow
<1>3. CASE FinishEntry
  <2>1. CASE stack' = << >>
    <3>1. Len(<< >>) = 0 /\ DOMAIN stack \subseteq Nat /\ \A i \in DOMAIN stack : i > 0
      BY StackIs
    <3>2. \A i \in DOMAIN stack : ~(i < Len(stack'))
      BY <2>1, <3>1
    <3> QED
      BY <3>2 DEF CallersKeptNow
  <2>2. CASE UNCHANGED <<stack, result>>
    BY <2>2 DEF CallersKeptNow
  <2> QED
    BY <1>3, <2>1, <2>2 DEF FinishEntry
<1>4. CASE PrintCallSites \/ UNCHANGED vars
  BY <1>4 DEF PrintCallSites, vars, CallersKeptNow
<1> QED
  BY <1>1, <1>2, <1>3, <1>4

(* All activations share one container of results and the callee's analysis*)
(* resets its blocks there.  As long as no function is analysed in the     *)
(* middle of its own analysis, no step changes what the suspended          *)
(* activations have recorded or the fact they go on with (analyzeForward,  *)
(* transferInstCall).                                                      *)
THEOREM CallersKeptWithoutRecursion ==
    Spec /\ []NoRecursion => CallersKept
<1>1. IInv /\ NoRecursion /\ NoRecursion' /\ [Next]_vars => [CallersKeptNow]_vars
  <2> SUFFICES ASSUME IInv, NoRecursion, NoRecursion', [Next]_vars PROVE CallersKeptNow
    OBVIOUS
  <2> QED
    BY TakeBlockKeeps, PropagateKeeps, InnermostKeeps, AnalyzeCalleeKeeps, OthersKeep
       DEF Next, Ended
<1> QED
  BY <1>1, InitInv, NextInv, PTL DEF Spec, CallersKept, CallersKeptNow

=============================================================================
