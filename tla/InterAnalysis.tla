---------------------------- MODULE InterAnalysis ----------------------------
(***************************************************************************)
(* The inter-procedural analysis of Assignment 3 as the machine that runs  *)
(* it: InterAnalysis::runOnModule analyses every function of the module as *)
(* an entry point, analyzeForward (Dataflow.h) walks its blocks, and the   *)
(* transfer of a call (PointerAnalysis.h, lines 1011-1153) starts          *)
(* analyzeForward again on each callee, in the middle of the caller's      *)
(* block and into the caller's result container.                           *)
(*                                                                         *)
(* One step is one instruction, one worklist iteration's begin or end, or  *)
(* one entry to or return from analyzeForward.                             *)
(***************************************************************************)
EXTENDS PointerAnalysis

CONSTANTS
    Program,        \* the modules analysed
    Placement(_),   \* for a module, the addresses its blocks and functions
                    \* may have been allocated at
    StackLimit,     \* nested activations of analyzeForward the stack holds
    NoBlock

ASSUME StackLimitAssumption == StackLimit \in Nat \ {0}

IsSequence(s) == s \in Seq(ToSet(s))

FunctionsOf(m) == {<<"function", name>> : name \in DOMAIN m.blocks}

KnownSequence(s, F) == IsSequence(s) /\ \A v \in ToSet(s) : Known(v, F)

KnownCall(call, F) ==
    /\ Known(call.callee, F)
    /\ KnownSequence(call.args, F)
    /\ "loadedFrom" \in DOMAIN call => Known(call.loadedFrom, F)

IsBlock(code, F) ==
    /\ IsSequence(code)
    /\ \A i \in ToSet(code) :
          IsInstruction(i) /\ KnownOperands(i, F) /\ (i.op = "call" => KnownCall(i, F))

(* A module as LLVM has it: every block is a block of one function and     *)
(* branches within it, and the functions it names are the module's.        *)
IsModule(m) ==
    /\ m.functions \in Seq(FunctionsOf(m))
    /\ IsFiniteSet(DOMAIN m.blocks) /\ IsFiniteSet(DOMAIN m.code) /\ NoBlock \notin DOMAIN m.code
    /\ DOMAIN m.succ = DOMAIN m.code
    /\ DOMAIN m.code \subseteq UNION {ToSet(m.blocks[name]) : name \in DOMAIN m.blocks}
    /\ \A b \in DOMAIN m.code : IsBlock(m.code[b], FunctionsOf(m))
    /\ \A name \in DOMAIN m.blocks :
          /\ m.blocks[name] \in Seq(DOMAIN m.code)
          /\ KnownSequence(m.params[name], FunctionsOf(m))
          /\ \A b \in ToSet(m.blocks[name]) : m.succ[b] \subseteq ToSet(m.blocks[name])
          /\ \A other \in DOMAIN m.blocks \ {name} :
                ToSet(m.blocks[name]) \cap ToSet(m.blocks[other]) = {}

(* Addresses, different for any two that are compared.                     *)
IsPlacement(a, m) ==
    \A name \in DOMAIN m.blocks :
       /\ a[name] \in Nat
       /\ \A other \in DOMAIN m.blocks \ {name} : a[other] # a[name]
       /\ \A b \in ToSet(m.blocks[name]) :
             /\ a[b] \in Nat
             /\ \A other \in ToSet(m.blocks[name]) \ {b} : a[other] # a[b]

ASSUME ProgramAssumption ==
    \A m \in Program : IsModule(m) /\ \A a \in Placement(m) : IsPlacement(a, m)

VARIABLES
    module,     \* the module M, never changed
    addr,       \* the addresses of its blocks and functions, never changed
    entry,      \* index of the function analysed as entry point
    stack,      \* the activations of analyzeForward, innermost last
    result,     \* dataflowResultContainer[entry point]
    created,    \* how many instructions made mock objects so far
    callSite,   \* callSiteContainer: pairs of a line and a function name
    resolved,   \* every such pair the analysis added a call edge for
    status      \* "running", "printed", or how the process ended

vars == <<module, addr, entry, stack, result, created, callSite, resolved, status>>

Name(fn) == fn[2]

Line(call) == call[3]

Layout(fn) == module.blocks[Name(fn)]

Blocks(fn) == ToSet(Layout(fn))

Params(fn) == module.params[Name(fn)]

Pred(b) == {p \in DOMAIN module.succ : b \in module.succ[p]}

Top == Last(stack)

Code(frame) == module.code[frame.bb]

Current == Code(Top)[Top.pc]

InBlock == stack # << >> /\ Top.bb # NoBlock

AtInstruction == InBlock /\ Top.pc <= Len(Code(Top))

(* std::set<BasicBlock *> and std::set<Function *> are ordered by address. *)
Before(b, c) == addr[b] < addr[c]

FunctionBefore(f, g) == addr[f[2]] < addr[g[2]]

FirstBlock(S) == CHOOSE b \in S : \A c \in S \ {b} : Before(b, c)

FirstFunction(S) == CHOOSE f \in S : \A g \in S \ {f} : FunctionBefore(f, g)

LastFunction(S) == CHOOSE f \in S : \A g \in S \ {f} : FunctionBefore(g, f)

(* A loop over a std::set<Function *>: Op is done for the last one last.   *)
ForEachFunction(Op(_, _), f, S) ==
    MapThenFoldSet(Op, f, LAMBDA fn : fn, LastFunction, S)

(* The innermost activation goes on with fact g and the fields of frame,   *)
(* unless an assertion ended the process.  After undefined behaviour it    *)
(* ends, or goes on with what g says.                                      *)
GoOnWith(g, frame) ==
    \/ /\ g.fault # "assert"
       /\ stack' = Append(Front(stack), [frame EXCEPT !.fact = [g EXCEPT !.fault = "none"]])
       /\ UNCHANGED status
    \/ /\ g.fault # "none"
       /\ status' = IF g.fault = "assert" THEN "aborted" ELSE "undefined"
       /\ UNCHANGED stack

-----------------------------------------------------------------------------
(* Entering analyzeForward: every block's facts are reset to initVal and   *)
(* every block is queued.                                                  *)
Activation(fn, isEntrypoint) ==
    [fn |-> fn, isEntrypoint |-> isEntrypoint, workList |-> Blocks(fn),
     bb |-> NoBlock, pc |-> 0, fact |-> EmptyFact,
     calling |-> FALSE, called |-> {}, pending |-> {}]

Reset_every_block(fn, initVal) ==                                      \* mutant
    [b \in Blocks(fn) \cup DOMAIN result |-> [input |-> initVal, output |-> initVal]]

Reset(fn, initVal) ==
    Override([b \in Blocks(fn) |-> [input |-> initVal, output |-> initVal]], result)

Init ==
    /\ module \in Program
    /\ addr \in Placement(module)
    /\ entry = 1
    /\ stack = << >>
    /\ result = << >>
    /\ created = 0
    /\ callSite = {}
    /\ resolved = {}
    /\ status = "running"

(* runInterProcedureAnalysis, for the next function of the module.         *)
StartEntry ==
    /\ status = "running"
    /\ stack = << >>
    /\ entry <= Len(module.functions)
    /\ stack' = <<Activation(module.functions[entry], TRUE)>>
    /\ result' = Reset(module.functions[entry], EmptyFact)
    /\ UNCHANGED <<module, addr, entry, created, callSite, resolved, status>>

(* An iteration takes the least queued block and merges the outputs of its *)
(* predecessors into its input.                                            *)
MergedInput(bb) == FoldSet(LAMBDA p, f : UnionFact(f, result[p].output),
                           result[bb].input, Pred(bb))

TakeBlock ==
    /\ status = "running"
    /\ stack # << >>
    /\ Top.bb = NoBlock
    /\ Top.workList # {}
    /\ LET bb == FirstBlock(Top.workList)
           input == MergedInput(bb)
       IN  /\ GoOnWith(input, [Top EXCEPT !.workList = @ \ {bb}, !.bb = bb, !.pc = 1])
           /\ result' = [result EXCEPT ![bb].input = [input EXCEPT !.fault = "none"]]
    /\ UNCHANGED <<module, addr, entry, created, callSite, resolved>>

(* The end of a block: if the output compares equal the iteration is over, *)
(* else it is recorded and the successors are queued.                      *)
Unchanged ==
    /\ status = "running"
    /\ InBlock /\ ~AtInstruction
    /\ SameFact(Top.fact, result[Top.bb].output)
    /\ stack' = Append(Front(stack), [Top EXCEPT !.bb = NoBlock, !.fact = EmptyFact])
    /\ UNCHANGED <<module, addr, entry, result, created, callSite, resolved, status>>

Propagate ==
    /\ status = "running"
    /\ InBlock /\ ~AtInstruction
    /\ ~SameFact(Top.fact, result[Top.bb].output)
    /\ result' = [result EXCEPT ![Top.bb].output = Top.fact]
    /\ stack' = Append(Front(stack),
                       [Top EXCEPT !.workList = @ \cup module.succ[Top.bb],
                                   !.bb = NoBlock, !.fact = EmptyFact])
    /\ UNCHANGED <<module, addr, entry, created, callSite, resolved, status>>

(* Any instruction but a call of a function.                               *)
Instruction ==
    /\ status = "running"
    /\ AtInstruction
    /\ Current.op # "call"
    /\ \E seen \in Visits(Top.fact, Current) :
          GoOnWith(TransferInst(Top.fact, Current, Top.isEntrypoint, created, seen),
                   [Top EXCEPT !.pc = @ + 1])
    /\ created' = IF "type" \in DOMAIN Current THEN created + 1 ELSE created
    /\ UNCHANGED <<module, addr, entry, result, callSite, resolved>>

-----------------------------------------------------------------------------
(* The edges of a call.  A direct call leads to its function.  An indirect *)
(* one leads to the place the pointer was loaded from, if there is just    *)
(* one, and that place to the functions found in the loaded pointer; the   *)
(* called operand is asserted to be a load.                                *)
Functions(S) == {v \in S : v[1] = "function"}

Storage(f, call) ==
    LET S == PointToSet(f, call.loadedFrom)
    IN  IF Cardinality(S) = 1 THEN CHOOSE v \in S : TRUE ELSE call.callee

CalledFunctions(f, call) ==
    IF call.callee[1] = "function" THEN {call.callee}
    ELSE Functions(PointToSet(f, call.callee))

AddCallEdges(f, call) ==
    IF call.callee[1] = "function"
    THEN AddCallEdge(f, call.value, call.callee)
    ELSE IF "loadedFrom" \notin DOMAIN call THEN Fault(f, "assert")
    ELSE LET g == AddPointer(f, call.loadedFrom)
             storage == Storage(g, call)
             called == CalledFunctions(g, call)
         IN  [AddPointer(AddCallEdge(g, call.value, storage), call.callee)
                EXCEPT !.edges = @ \cup {<<storage, fn>> : fn \in called}]

(* Each argument flows to the parameter of each callee, by address order.  *)
(* getArg asserts that the callee has a parameter for each argument.       *)
PassArgument(fn, f, args, i) ==
    IF i <= Len(Params(fn)) THEN NonClearAssign(f, Params(fn)[i], args[i])
    ELSE Fault(f, "assert")

PassTo(fn, f, args) ==
    FoldLeft(LAMBDA g, i : PassArgument(fn, g, args, i), f, [i \in DOMAIN args |-> i])

PassArguments(f, call, called) ==
    ForEachFunction(LAMBDA fn, g : PassTo(fn, g, call.args), f, called)

(* A call begins: edges, then arguments.  malloc is not analysed.          *)
BeginCall ==
    /\ status = "running"
    /\ AtInstruction
    /\ Current.op = "call"
    /\ ~Top.calling
    /\ LET called == CalledFunctions(Top.fact, Current)
           f == AddCallEdges(Top.fact, Current)
       IN  /\ resolved' = resolved \cup {<<Line(Current.value), fn>> : fn \in called}
           /\ IF Current.value[1] = "malloc"
              THEN GoOnWith(f, [Top EXCEPT !.pc = @ + 1])
              ELSE GoOnWith(PassArguments(f, Current, called),
                            [Top EXCEPT !.calling = TRUE, !.called = called,
                                        !.pending = called])
    /\ UNCHANGED <<module, addr, entry, result, created, callSite>>

(* analyzeForward is entered for the next callee, with the caller's fact.  *)
AnalyzeCallee ==
    /\ status = "running"
    /\ InBlock
    /\ Top.pending # {}
    /\ LET fn == FirstFunction(Top.pending)
       IN  IF Len(stack) < StackLimit
           THEN /\ stack' = Append(Append(Front(stack), [Top EXCEPT !.pending = @ \ {fn}]),
                                  Activation(fn, FALSE))
                /\ result' = Reset(fn, Top.fact)
                /\ UNCHANGED status
           ELSE /\ status' = "overflow"
                /\ UNCHANGED <<stack, result>>
    /\ UNCHANGED <<module, addr, entry, created, callSite, resolved>>

ReturnToCaller ==
    /\ status = "running"
    /\ Len(stack) > 1
    /\ Top.bb = NoBlock
    /\ Top.workList = {}
    /\ stack' = Front(stack)
    /\ UNCHANGED <<module, addr, entry, result, created, callSite, resolved, status>>

(* clearPointToGraphSubNodePointee: the points-to sets of everything that  *)
(* can be reached from what the arguments point to are emptied.            *)
ReachableFrom(f, S) ==
    LET reach[n \in 0 .. Cardinality(DOMAIN f.pts)] ==
            IF n = 0 THEN S
            ELSE LET R == reach[n - 1] IN R \cup PointToSetOfAll(f, R)
    IN  reach[Cardinality(DOMAIN f.pts)]

ClearReachable(f, args) ==
    LET g == AddAll(Check(f, \A v \in ToSet(args) : IsPointer(v)), ToSet(args))
        cleared == ReachableFrom(g, UNION {PointToSet(g, args[i]) : i \in DOMAIN args})
    IN  [g EXCEPT !.pts = [v \in DOMAIN @ |-> IF v \in cleared THEN {} ELSE @[v]]]

(* The first block of fn with a return.  A function that has none leaves   *)
(* calledFuncRetBasicBlock as it was: any value.                           *)
Returns(b) == {i \in DOMAIN module.code[b] : module.code[b][i].op = "ret"}

ReturnBlocks(fn) == {i \in DOMAIN Layout(fn) : Returns(Layout(fn)[i]) # {}}

ReturnBlock(fn) == Layout(fn)[Min(ReturnBlocks(fn))]

ReturnBlockOrGarbage(fn) ==
    IF ReturnBlocks(fn) # {} THEN {ReturnBlock(fn)} ELSE DOMAIN result \cup {NoBlock}

ReturnInst(fn) == module.code[ReturnBlock(fn)][Min(Returns(ReturnBlock(fn)))]

ReturnsValue(fn) == ReturnBlocks(fn) # {} /\ "operand" \in DOMAIN ReturnInst(fn)

(* The output of each callee's returning block is united with the fact,    *)
(* and its return value flows to the call.                                 *)
UniteReturn(fn, f, call, block) ==
    LET g == IF block[fn] = NoBlock THEN f ELSE UnionFact(f, result[block[fn]].output)
    IN  IF ReturnsValue(fn) THEN NonClearAssign(g, call.value, ReturnInst(fn).operand) ELSE g

UniteReturns(f, call, called, block) ==
    ForEachFunction(LAMBDA fn, g : UniteReturn(fn, g, call, block), f, called)

EndCall ==
    /\ status = "running"
    /\ AtInstruction
    /\ Top.calling
    /\ Top.pending = {}
    /\ \E block \in [Top.called -> DOMAIN result \cup {NoBlock}] :
          /\ \A fn \in Top.called : block[fn] \in ReturnBlockOrGarbage(fn)
          /\ GoOnWith(UniteReturns(ClearReachable(Top.fact, Current.args), Current,
                                   Top.called, block),
                      [Top EXCEPT !.calling = FALSE, !.called = {}, !.pc = @ + 1])
    /\ UNCHANGED <<module, addr, entry, result, created, callSite, resolved>>

-----------------------------------------------------------------------------
(* doCallSiteCollection, for one block's call graph: a call's line gets    *)
(* the functions its edges lead to, at once or over a storage place.       *)
CallSites_direct(edges) ==                                             \* mutant
    {<<Line(e[1]), e[2]>> :
        e \in {d \in edges : d[1][1] \in {"call", "malloc"} /\ d[2][1] = "function"}}

CallSites(edges) ==
    LET called == {e \in edges : e[1][1] \in {"call", "malloc"}}
    IN  {<<Line(e[1]), e[2]>> : e \in {d \in called : d[2][1] = "function"}}
        \cup UNION {{<<Line(e[1]), g[2]>> : g \in {d \in edges : d[1] = e[2]}}
                       : e \in {d \in called : d[2][1] # "function"}}

(* What a call's storage place leads to is cast to a function, which       *)
(* asserts that it is one.                                                 *)
CastsHold(edges) ==
    \A e, d \in edges :
       e[1][1] \in {"call", "malloc"} /\ e[2][1] # "function" /\ d[1] = e[2]
           => d[2][1] = "function"

(* The entry point's analysis is over: collectInterCallSiteResult.         *)
FinishEntry ==
    /\ status = "running"
    /\ Len(stack) = 1
    /\ Top.bb = NoBlock
    /\ Top.workList = {}
    /\ IF \A b \in DOMAIN result : CastsHold(result[b].output.edges)
       THEN /\ callSite' = callSite \cup
                   UNION {CallSites(result[b].output.edges) : b \in DOMAIN result}
            /\ stack' = << >>
            /\ result' = << >>
            /\ entry' = entry + 1
            /\ UNCHANGED status
       ELSE /\ status' = "aborted"
            /\ UNCHANGED <<entry, stack, result, callSite>>
    /\ UNCHANGED <<module, addr, created, resolved>>

(* printCallSiteResult, after the last function.                           *)
PrintCallSites ==
    /\ status = "running"
    /\ stack = << >>
    /\ entry > Len(module.functions)
    /\ status' = "printed"
    /\ UNCHANGED <<module, addr, entry, stack, result, created, callSite, resolved>>

Ended == status # "running" /\ UNCHANGED vars

Next ==
    \/ StartEntry
    \/ TakeBlock
    \/ Unchanged
    \/ Propagate
    \/ Instruction
    \/ BeginCall
    \/ AnalyzeCallee
    \/ ReturnToCaller
    \/ EndCall
    \/ FinishEntry
    \/ PrintCallSites
    \/ Ended

Spec == Init /\ [][Next]_vars

(* The only thread is never suspended for ever.  This is WF_vars(Next),    *)
(* with its ENABLED <<Next>>_vars spelled out: every state in which the    *)
(* process still runs has a step (the runs check that none is a deadlock). *)
Progress == <>[](status # "running") \/ []<><<Next>>_vars

FairSpec == Spec /\ Progress

-----------------------------------------------------------------------------
FactOK(f) == Closed(f) /\ MapsAreNodes(f) /\ f.fault = "none"

(* Every fact the analysis holds or has recorded is a closed graph, and    *)
(* the activations on the stack are at a block and an instruction of theirs*)
(* (analyzeForward, and the containers of PointerAnalysisFact).            *)
TypeOK ==
    /\ entry \in 1 .. Len(module.functions) + 1
    /\ Len(stack) <= StackLimit
    /\ \A i \in DOMAIN stack :
          /\ FactOK(stack[i].fact)
          /\ stack[i].workList \subseteq Blocks(stack[i].fn)
          /\ stack[i].bb # NoBlock =>
                 stack[i].bb \in Blocks(stack[i].fn) /\ stack[i].pc \in 1 .. Len(Code(stack[i])) + 1
          /\ i < Len(stack) => stack[i].calling
    /\ \A b \in DOMAIN result : FactOK(result[b].input) /\ FactOK(result[b].output)
    /\ status \in {"running", "printed", "aborted", "undefined", "overflow"}

(* What is printed is exactly what README.txt and the testcases expect,    *)
(* for each of the placements a run gives its modules' blocks and          *)
(* functions (printCallSiteResult).                                        *)
PrintsExpected == status # "running" => status = "printed" /\ callSite = module.expected

(* A callee found at a call is printed: no later activation, comparison or *)
(* merge of facts loses it (transferInstCall, collectInterCallSiteResult). *)
EveryCallPrinted == status = "printed" => resolved \subseteq callSite

(* All activations share one result container.  An activation leaves what  *)
(* the suspended ones below it have recorded for their blocks alone, the   *)
(* fact each will go on with included (analyzeForward, transferInstCall).  *)
CallersKept ==
    [][\A i \in DOMAIN stack :
          i < Len(stack') =>
             /\ \A b \in Blocks(stack[i].fn) : result'[b] = result[b]
             /\ stack'[i].fact = stack[i].fact]_vars

(* The analysis ends, for the calls, branches and loops of these modules,  *)
(* although its transfer functions are not monotone (Dataflow.h, 112-116). *)
Prints == <>(status = "printed")
=============================================================================
