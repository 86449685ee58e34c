-------------------------- MODULE Dataflow_proofs --------------------------
(***************************************************************************)
(* Theorems about analyzeForward for every function, every visitor and     *)
(* every placement of the blocks in memory.                                *)
(***************************************************************************)
EXTENDS Dataflow, TLAPS

(* MergedInput is a fact: it adds sets of atoms to a set of atoms.         *)
LEMMA MergedInputType ==
    ASSUME TypeOK, NEW bb \in Block
    PROVE  MergedInput(bb) \in Fact
<1>1. result[bb].input \subseteq Elem
  BY DEF TypeOK, DataflowFactPair, Fact
<1>2. \A p \in Pred(bb) : result[p].output \cap Merged \subseteq Elem
  BY DEF TypeOK, DataflowFactPair, Fact, Pred
<1> QED
  BY <1>1, <1>2 DEF MergedInput, Fact

(* The merged input holds the old input and what each predecessor adds.    *)
LEMMA MergedInputCovers ==
    ASSUME NEW bb \in Block
    PROVE  /\ result[bb].input \subseteq MergedInput(bb)
           /\ \A p \in Pred(bb) : result[p].output \cap Merged \subseteq MergedInput(bb)
BY DEF MergedInput

(* Type correctness: the worklist only ever holds blocks of the function   *)
(* and every recorded fact consists of atoms.                              *)
THEOREM TypeCorrect == Spec => []TypeOK
<1>1. Init => TypeOK
  <2> SUFFICES ASSUME Init PROVE TypeOK
    OBVIOUS
  <2>1. fn.initVal \in Fact
    BY FunctionAssumption DEF Init, Fact
  <2> QED
    BY <2>1 DEF Init, TypeOK, DataflowFactPair
<1>2. TypeOK /\ [Next]_vars => TypeOK'
  <2> SUFFICES ASSUME TypeOK, [Next]_vars PROVE TypeOK'
    OBVIOUS
  <2>1. ASSUME NEW bb \in Block, Unchanged(bb) PROVE TypeOK'
    <3>1. MergedInput(bb) \in Fact
      BY MergedInputType
    <3>2. result' \in [Block -> DataflowFactPair]
      BY <2>1, <3>1 DEF Unchanged, TypeOK, DataflowFactPair
    <3> QED
      BY <2>1, <3>2 DEF Unchanged, TypeOK
  <2>2. ASSUME NEW bb \in Block, Propagate(bb) PROVE TypeOK'
    <3>1. MergedInput(bb) \in Fact
      BY MergedInputType
    <3>2. Transfer(fn, bb, MergedInput(bb)) \in Fact
      BY <3>1, TransferAssumption DEF TypeOK, Fact
    <3>3. result' \in [Block -> DataflowFactPair]
      BY <2>2, <3>1, <3>2 DEF Propagate, TypeOK, DataflowFactPair
    <3>4. workList' \subseteq Block
      BY <2>2 DEF Propagate, TypeOK, Succ
    <3> QED
      BY <2>2, <3>3, <3>4 DEF Propagate, TypeOK
  <2>3. CASE Return
    BY <2>3 DEF Return, vars, TypeOK
  <2>4. CASE UNCHANGED vars
    BY <2>4 DEF vars, TypeOK
  <2> QED
    BY <2>1, <2>2, <2>3, <2>4 DEF Next
<1> QED
  BY <1>1, <1>2, PTL DEF Spec

(* What an iteration does to the recorded facts, in both its forms: the    *)
(* input of bb is recorded, every other block is left alone, and the new   *)
(* output of bb is, to operator==, the transfer of that input.             *)
LEMMA IterationEffect ==
    ASSUME TypeOK, NEW bb \in Block, Unchanged(bb) \/ Propagate(bb)
    PROVE  /\ fn' = fn
           /\ result'[bb].input = MergedInput(bb)
           /\ SameFact(result'[bb].output, Transfer(fn, bb, MergedInput(bb)))
           /\ \A b \in Block \ {bb} : result'[b] = result[b]
           /\ bb \notin workList' \/ Propagate(bb)
           /\ \A b \in Block \ {bb} : b \notin workList' => b \notin workList
<1>1. CASE Unchanged(bb)
  <2>1. result'[bb].input = MergedInput(bb)
    BY <1>1 DEF Unchanged, TypeOK, DataflowFactPair
  <2>2. result'[bb].output = result[bb].output
    BY <1>1 DEF Unchanged, TypeOK, DataflowFactPair
  <2>3. \A b \in Block \ {bb} : result'[b] = result[b]
    BY <1>1 DEF Unchanged, TypeOK
  <2>4. SameFact(result'[bb].output, Transfer(fn, bb, MergedInput(bb)))
    BY <1>1, <2>2 DEF Unchanged, SameFact
  <2> QED
    BY <1>1, <2>1, <2>3, <2>4 DEF Unchanged
<1>2. CASE Propagate(bb)
  <2>1. result'[bb] = [input  |-> MergedInput(bb),
                       output |-> Transfer(fn, bb, MergedInput(bb))]
    BY <1>2 DEF Propagate, TypeOK
  <2>2. \A b \in Block \ {bb} : result'[b] = result[b]
    BY <1>2 DEF Propagate, TypeOK
  <2>3. SameFact(result'[bb].output, Transfer(fn, bb, MergedInput(bb)))
    BY <2>1 DEF SameFact
  <2> QED
    BY <1>2, <2>1, <2>2, <2>3 DEF Propagate
<1> QED
  BY <1>1, <1>2

(* What an iteration does to the worklist and the outputs: either bb's     *)
(* output stays as it was, or every successor of bb is queued.             *)
LEMMA IterationQueues ==
    ASSUME TypeOK, NEW bb \in Block, Unchanged(bb) \/ Propagate(bb)
    PROVE  result'[bb].output = result[bb].output \/ Succ(bb) \subseteq workList'
<1>1. CASE Unchanged(bb)
  BY <1>1 DEF Unchanged, TypeOK, DataflowFactPair
<1>2. CASE Propagate(bb)
  BY <1>2 DEF Propagate
<1> QED
  BY <1>1, <1>2

(* An iteration keeps the worklist invariant.  The block processed becomes *)
(* up to date; another block that is not queued had an input that already  *)
(* covered its predecessors, and if the processed block is one of them its *)
(* output has not changed, for otherwise the block would be queued now.    *)
LEMMA IterationUpToDate ==
    ASSUME TypeOK, UpToDate, NEW bb \in Block, Unchanged(bb) \/ Propagate(bb)
    PROVE  UpToDate'
<1>1. SUFFICES ASSUME NEW b \in Block
               PROVE  /\ fn.initVal \subseteq result'[b].input
                      /\ b \notin workList' =>
                            /\ SameFact(result'[b].output,
                                        Transfer(fn, b, result'[b].input))
                            /\ \A p \in Pred(b) :
                                 result'[p].output \cap Merged
                                    \subseteq result'[b].input
  BY IterationEffect DEF UpToDate, SameFact, Pred
<1>2. fn.initVal \subseteq result'[b].input
  BY IterationEffect, MergedInputCovers DEF UpToDate
<1>3. b \notin workList' =>
        SameFact(result'[b].output, Transfer(fn, b, result'[b].input))
  BY IterationEffect DEF UpToDate
<1>4. ASSUME b \notin workList', NEW p \in Pred(b)
      PROVE  result'[p].output \cap Merged \subseteq result'[b].input
  <2>1. p \in Block /\ b \in Succ(p)
    BY DEF Pred, Succ
  <2>2. CASE p = bb
    <3>1. result'[p].output = result[p].output
      BY <1>4, <2>1, <2>2, IterationQueues
    <3>2. CASE b = bb
      BY <3>1, <3>2, IterationEffect, MergedInputCovers
    <3>3. CASE b # bb
      BY <1>4, <3>1, <3>3, IterationEffect DEF UpToDate
    <3> QED
      BY <3>2, <3>3
  <2>3. CASE p # bb
    <3>1. result'[p] = result[p]
      BY <2>1, <2>3, IterationEffect
    <3>2. CASE b = bb
      BY <3>1, <3>2, IterationEffect, MergedInputCovers
    <3>3. CASE b # bb
      BY <1>4, <3>1, <3>3, IterationEffect DEF UpToDate
    <3> QED
      BY <3>2, <3>3
  <2> QED
    BY <2>2, <2>3
<1> QED
  BY <1>2, <1>3, <1>4

(* Whatever the visitor does, monotone or not, and in whatever order the   *)
(* blocks lie in memory, a block that is not queued is up to date.         *)
THEOREM UpToDateAlways == Spec => []UpToDate
<1>1. Init => UpToDate
  <2> SUFFICES ASSUME Init, NEW b \in Block
               PROVE  fn.initVal \subseteq result[b].input /\ b \in workList
    BY DEF UpToDate
  <2> QED
    BY DEF Init
<1>2. TypeOK /\ UpToDate /\ [Next]_vars => UpToDate'
  <2> SUFFICES ASSUME TypeOK, UpToDate, [Next]_vars PROVE UpToDate'
    OBVIOUS
  <2>1. ASSUME NEW bb \in Block, Unchanged(bb) \/ Propagate(bb) PROVE UpToDate'
    BY <2>1, IterationUpToDate
  <2>2. CASE Return
    BY <2>2 DEF Return, vars, UpToDate, Pred
  <2>3. CASE UNCHANGED vars
    BY <2>3 DEF vars, UpToDate, Pred
  <2> QED
    BY <2>1, <2>2, <2>3 DEF Next
<1> QED
  BY <1>1, <1>2, TypeCorrect, PTL DEF Spec

-----------------------------------------------------------------------------
(* A solution bounds what one iteration can compute: if all facts recorded *)
(* so far lie below S, so do the input and the output computed for bb.     *)
LEMMA IterationBelow ==
    ASSUME TypeOK, NEW bb \in Block, Monotone(fn), NEW S, Solution(fn, S),
           \A b \in Block :
               /\ result[b].input \cap Observed \subseteq S[b]
               /\ result[b].output \cap Observed
                    \subseteq fn.initVal \cup Transfer(fn, b, S[b])
    PROVE  /\ MergedInput(bb) \cap Observed \subseteq S[bb]
           /\ Transfer(fn, bb, MergedInput(bb)) \cap Observed
                \subseteq Transfer(fn, bb, S[bb])
<1>1. ASSUME NEW p \in Pred(bb)
      PROVE  result[p].output \cap Merged \cap Observed \subseteq S[bb]
  <2>1. p \in Block /\ <<p, bb>> \in fn.edges
    BY DEF Pred
  <2>2. fn.initVal \cap Observed \subseteq S[bb]
    BY DEF Solution
  <2>3. Transfer(fn, p, S[p]) \cap Merged \cap Observed \subseteq S[bb]
    BY <2>1 DEF Solution
  <2> QED
    BY <2>1, <2>2, <2>3
<1>2. MergedInput(bb) \cap Observed \subseteq S[bb]
  BY <1>1 DEF MergedInput
<1>3. S[bb] \in Fact /\ MergedInput(bb) \in Fact
  BY AtomAssumption, MergedInputType DEF Solution, Fact
<1>4. MergedInput(bb) \cap Observed \subseteq S[bb] \cap Observed
  BY <1>2
<1>5. Transfer(fn, bb, MergedInput(bb)) \cap Observed
        \subseteq Transfer(fn, bb, S[bb]) \cap Observed
  BY <1>3, <1>4 DEF Monotone
<1> QED
  BY <1>2, <1>5

(* A monotone analysis never reports an atom that some solution of the     *)
(* dataflow equations does without, whatever order the blocks come in.     *)
THEOREM BelowAlways == Spec => []BelowEverySolution
<1>1. Init => BelowEverySolution
  <2> SUFFICES ASSUME Init, NEW S \in [Block -> SUBSET Observed],
                      Solution(fn, S), NEW b \in Block
               PROVE  /\ result[b].input \cap Observed \subseteq S[b]
                      /\ result[b].output \cap Observed
                           \subseteq fn.initVal \cup Transfer(fn, b, S[b])
    BY DEF BelowEverySolution
  <2>1. result[b].input = fn.initVal /\ result[b].output = fn.initVal
    BY DEF Init
  <2> QED
    BY <2>1 DEF Solution
<1>2. TypeOK /\ BelowEverySolution /\ [Next]_vars => BelowEverySolution'
  <2> SUFFICES ASSUME TypeOK, BelowEverySolution, [Next]_vars
               PROVE  BelowEverySolution'
    OBVIOUS
  <2>1. ASSUME NEW bb \in Block, Unchanged(bb) \/ Propagate(bb)
        PROVE  BelowEverySolution'
    <3> SUFFICES ASSUME Monotone(fn), NEW S \in [Block -> SUBSET Observed],
                        Solution(fn, S), NEW b \in Block
                 PROVE  /\ result'[b].input \cap Observed \subseteq S[b]
                        /\ result'[b].output \cap Observed
                             \subseteq fn.initVal \cup Transfer(fn, b, S[b])
      BY <2>1, IterationEffect DEF BelowEverySolution, Solution, Monotone
    <3>1. \A d \in Block :
              /\ result[d].input \cap Observed \subseteq S[d]
              /\ result[d].output \cap Observed
                   \subseteq fn.initVal \cup Transfer(fn, d, S[d])
      BY DEF BelowEverySolution
    <3>2. CASE b = bb
      <4>1. /\ MergedInput(bb) \cap Observed \subseteq S[bb]
            /\ Transfer(fn, bb, MergedInput(bb)) \cap Observed
                 \subseteq Transfer(fn, bb, S[bb])
        BY <3>1, IterationBelow
      <4>2. /\ result'[bb].input = MergedInput(bb)
            /\ result'[bb].output \cap Observed
                 = Transfer(fn, bb, MergedInput(bb)) \cap Observed
        BY <2>1, IterationEffect DEF SameFact
      <4> QED
        BY <3>2, <4>1, <4>2
    <3>3. CASE b # bb
      <4>1. result'[b] = result[b]
        BY <2>1, <3>3, IterationEffect
      <4> QED
        BY <3>1, <4>1
    <3> QED
      BY <3>2, <3>3
  <2>2. CASE Return
    BY <2>2 DEF Return, vars, BelowEverySolution
  <2>3. CASE UNCHANGED vars
    BY <2>3 DEF vars, BelowEverySolution
  <2> QED
    BY <2>1, <2>2, <2>3 DEF Next
<1> QED
  BY <1>1, <1>2, TypeCorrect, PTL DEF Spec

(* When the worklist is empty, the inputs solve the dataflow equations.    *)
LEMMA InputsSolve ==
    ASSUME TypeOK, UpToDate, Monotone(fn), workList = {}
    PROVE  Solution(fn, [b \in Block |-> result[b].input \cap Observed])
<1> DEFINE S == [b \in Block |-> result[b].input \cap Observed]
<1>1. S \in [Block -> SUBSET Observed]
  OBVIOUS
<1>2. \A b \in Block : fn.initVal \cap Observed \subseteq S[b]
  BY DEF UpToDate
<1>3. ASSUME NEW e \in fn.edges
      PROVE  Transfer(fn, e[1], S[e[1]]) \cap Merged \cap Observed \subseteq S[e[2]]
  <2>1. PICK p \in Block, b \in Block : e = <<p, b>>
    BY FunctionAssumption DEF TypeOK
  <2>2. p \in Pred(b)
    BY <2>1 DEF Pred
  <2>3. S[p] \in Fact /\ result[p].input \in Fact
    BY AtomAssumption DEF TypeOK, DataflowFactPair, Fact
  <2>4. S[p] \cap Observed \subseteq result[p].input \cap Observed
    OBVIOUS
  <2>5. Transfer(fn, p, S[p]) \cap Observed
          \subseteq Transfer(fn, p, result[p].input) \cap Observed
    BY <2>3, <2>4 DEF Monotone
  <2>6. Transfer(fn, p, result[p].input) \cap Observed
          = result[p].output \cap Observed
    BY DEF UpToDate, SameFact
  <2>7. result[p].output \cap Merged \subseteq result[b].input
    BY <2>2 DEF UpToDate
  <2>8. Transfer(fn, p, S[p]) \cap Merged \cap Observed \subseteq S[b]
    BY <2>5, <2>6, <2>7
  <2> QED
    BY <2>1, <2>8
<1> QED
  BY <1>1, <1>2, <1>3 DEF Solution

(* The worklist algorithm implements its promise: the answer appears in    *)
(* one step, is the least solution when the function is monotone, and is   *)
(* never changed afterwards.                                               *)
THEOREM ImplementsPromise == Spec => Implements
<1>1. Init => Promise!Init
  BY BlockAssumption DEF Init, Promise!Init, Answer
<1>2. TypeOK /\ TypeOK' /\ UpToDate' /\ BelowEverySolution' /\ [Next]_vars
        => [Promise!Publish]_Promise!vars
  <2> SUFFICES ASSUME TypeOK, TypeOK', UpToDate', BelowEverySolution', [Next]_vars
               PROVE  [Promise!Publish]_Promise!vars
    OBVIOUS
  <2>1. fn' = fn
    BY DEF Next, Unchanged, Propagate, Return, vars
  <2>2. CASE workList = {}
    <3>1. UNCHANGED vars
      BY <2>2 DEF Next, Unchanged, Propagate, Return, Least, vars
    <3> QED
      BY <3>1 DEF vars, Answer, Promise!vars
  <2>3. CASE workList # {} /\ workList' # {}
    BY <2>1, <2>3 DEF Answer, Promise!vars
  <2>4. CASE workList # {} /\ workList' = {}
    <3>1. Answer = << >>
      BY <2>4 DEF Answer
    <3>2. Answer' = [b \in Block |-> result'[b].input \cap Observed]
      BY <2>4 DEF Answer
    <3>3. Answer' \in [Block -> SUBSET Observed]
      BY <3>2
    <3>4. ASSUME Monotone(fn) PROVE Promise!Least(Answer')
      <4>1. Solution(fn, Answer')
        <5>1. (TypeOK /\ UpToDate /\ Monotone(fn) /\ workList = {}
                 => Solution(fn, [b \in Block |-> result[b].input \cap Observed]))'
          BY InputsSolve, PTL
        <5>2. Monotone(fn)'
          BY <2>1, <3>4 DEF Monotone
        <5>3. Solution(fn, Answer)'
          BY <2>4, <3>2, <5>1, <5>2
        <5> QED
          BY <2>1, <5>3 DEF Solution
      <4>2. ASSUME NEW T \in [Block -> SUBSET Observed], Solution(fn, T),
                   NEW b \in Block
            PROVE  Answer'[b] \subseteq T[b]
        <5>1. Monotone(fn)' /\ Solution(fn, T)'
          BY <2>1, <3>4, <4>2 DEF Monotone, Solution
        <5>2. result'[b].input \cap Observed \subseteq T[b]
          BY <5>1 DEF BelowEverySolution
        <5> QED
          BY <3>2, <5>2
      <4> QED
        BY <4>1, <4>2 DEF Promise!Least
    <3> QED
      BY <2>1, <3>1, <3>3, <3>4 DEF Promise!Publish
  <2> QED
    BY <2>2, <2>3, <2>4
<1> QED
  BY <1>1, <1>2, TypeCorrect, UpToDateAlways, BelowAlways, PTL
     DEF Spec, Implements, Promise!Spec
=============================================================================
