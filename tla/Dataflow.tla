------------------------------ MODULE Dataflow ------------------------------
(***************************************************************************)
(* The forward dataflow framework of src/Assignment3/Dataflow.h: the       *)
(* worklist algorithm analyzeForward, for any visitor.                     *)
(*                                                                         *)
(* A dataflow fact is a set of atoms.  The two operations the framework    *)
(* takes from the fact type need not look at all of them: T::operator==    *)
(* compares the atoms in Observed, DataflowVisitor::merge adds the atoms   *)
(* in Merged.  In Assignment 3 an atom of the points-to graph is both      *)
(* and a call edge is neither (PointerAnalysisFact, lines 56-60, 178-218). *)
(***************************************************************************)
EXTENDS Naturals

CONSTANTS
    Block,              \* the basic blocks of the function analysed
    Elem,               \* the atoms a fact is a set of
    Observed,           \* the atoms T::operator== compares
    Merged,             \* the atoms DataflowVisitor::merge adds to dest
    Function,           \* the functions analysed: their edges, the fact
                        \* they start from, the addresses of their blocks
    Transfer(_, _, _)   \* transferBasicBlock: function, block, fact |-> fact

ASSUME BlockAssumption == Block # {}

ASSUME AtomAssumption == Observed \subseteq Elem /\ Merged \subseteq Elem

ASSUME FunctionAssumption ==
    \A f \in Function :
        /\ f.edges \subseteq Block \X Block
        /\ f.initVal \subseteq Elem
        /\ f.addr \in [Block -> Nat]

ASSUME TransferAssumption ==
    \A f \in Function, b \in Block, X \in SUBSET Elem :
        Transfer(f, b, X) \in SUBSET Elem

VARIABLES
    fn,         \* the function analysed, never changed
    result,     \* *resultContainer: the input and output fact of each block
    workList    \* the blocks still to be processed

vars == <<fn, result, workList>>

Fact == SUBSET Elem

DataflowFactPair == [input : Fact, output : Fact]

TypeOK ==
    /\ fn \in Function
    /\ result \in [Block -> DataflowFactPair]
    /\ workList \subseteq Block

-----------------------------------------------------------------------------
Pred(b) == {p \in Block : <<p, b>> \in fn.edges}

(* A loop that does not stop at succ_end queues what is no block.          *)
Succ_past_end(b) == {s \in Block : <<b, s>> \in fn.edges} \cup {"end"}   \* mutant

Succ_predecessors(b) == Pred(b)                                \* mutant

Succ(b) == {s \in Block : <<b, s>> \in fn.edges}

SameFact_nothing_lost(X, Y) == Y \cap Observed \subseteq X       \* mutant

SameFact_never(X, Y) == FALSE                                  \* mutant

SameFact(X, Y) == X \cap Observed = Y \cap Observed

(* The input fact of bb: what it already holds, and the outputs of all its *)
(* predecessors as far as merge carries them over.                         *)
MergedInput_of_successors(bb) ==                               \* mutant
    result[bb].input \cup UNION {result[s].output \cap Merged : s \in Succ(bb)}

MergedInput(bb) ==
    result[bb].input \cup UNION {result[p].output \cap Merged : p \in Pred(bb)}

(* *workList.begin(): the std::set is ordered by the address of the block. *)
Least(bb) == bb \in workList /\ \A b \in workList : fn.addr[bb] <= fn.addr[b]

Init ==
    /\ fn \in Function
    /\ result = [b \in Block |-> [input |-> fn.initVal, output |-> fn.initVal]]
    /\ workList = Block

(* An iteration that computes an output fact equal to the recorded one:    *)
(* only the input is recorded and no successor is queued.                  *)
Unchanged(bb) ==
    /\ Least(bb)
    /\ SameFact(Transfer(fn, bb, MergedInput(bb)), result[bb].output)
    /\ result' = [result EXCEPT ![bb].input = MergedInput(bb)]
    /\ workList' = workList \ {bb}
    /\ UNCHANGED fn

(* An iteration that changes the output fact: the successors are queued.   *)
Propagate(bb) ==
    /\ Least(bb)
    /\ ~SameFact(Transfer(fn, bb, MergedInput(bb)), result[bb].output)
    /\ result' = [result EXCEPT
                    ![bb] = [input  |-> MergedInput(bb),
                             output |-> Transfer(fn, bb, MergedInput(bb))]]
    /\ workList' = (workList \ {bb}) \cup Succ(bb)
    /\ UNCHANGED fn

(* The loop is left and the function returns.                              *)
Return == workList = {} /\ UNCHANGED vars

Next == (\E bb \in Block : Unchanged(bb) \/ Propagate(bb)) \/ Return

Spec == Init /\ [][Next]_vars

(* The thread that runs analyzeForward is never suspended for ever.        *)
FairSpec == Spec /\ WF_vars(Next)

-----------------------------------------------------------------------------
(* The worklist invariant.  A block that is not queued is up to date: its  *)
(* recorded output is, as far as operator== can tell, the transfer of its  *)
(* recorded input, and that input already holds every initial atom and all *)
(* that its predecessors' outputs would add to it.  It fails if a changed  *)
(* block forgets a successor or an unchanged one was compared too early.   *)
UpToDate ==
    \A b \in Block :
        /\ fn.initVal \subseteq result[b].input
        /\ b \notin workList =>
              /\ SameFact(result[b].output, Transfer(fn, b, result[b].input))
              /\ \A p \in Pred(b) :
                    result[p].output \cap Merged \subseteq result[b].input

(* The analysis of fn is monotone, and what operator== sees of an output   *)
(* depends only on what it sees of the input: the caller's obligation of   *)
(* the comment at lines 115-116.                                           *)
Monotone(f) ==
    \A b \in Block : \A X, Y \in Fact :
        X \cap Observed \subseteq Y \cap Observed =>
            Transfer(f, b, X) \cap Observed \subseteq Transfer(f, b, Y) \cap Observed

(* A solution of the dataflow equations of f: one set of observed atoms    *)
(* per block that holds the initial ones and is closed under flow.         *)
Solution(f, S) ==
    /\ S \in [Block -> SUBSET Observed]
    /\ \A b \in Block : f.initVal \cap Observed \subseteq S[b]
    /\ \A e \in f.edges :
          Transfer(f, e[1], S[e[1]]) \cap Merged \cap Observed \subseteq S[e[2]]

(* No element is reported that is not in every solution: at every moment   *)
(* the facts of a monotone analysis stay below all solutions, so that the  *)
(* order in which the allocator placed the blocks cannot add anything.     *)
BelowEverySolution ==
    Monotone(fn) =>
        \A S \in [Block -> SUBSET Observed] :
            Solution(fn, S) =>
                \A b \in Block :
                    /\ result[b].input \cap Observed \subseteq S[b]
                    /\ result[b].output \cap Observed
                         \subseteq fn.initVal \cup Transfer(fn, b, S[b])

(* The analysis of a monotone function ends.                               *)
Terminates == Monotone(fn) ~> workList = {}

(* What analyzeForward promises, as a system of its own: one step that     *)
(* publishes the least solution, and nothing after it.                     *)
Answer ==
    IF workList = {}
    THEN [b \in Block |-> result[b].input \cap Observed]
    ELSE << >>

Promise == INSTANCE LeastSolution WITH
              answer <- Answer, fn <- fn, Solution <- Solution,
              Monotone <- Monotone

Implements == Promise!Spec
=============================================================================
