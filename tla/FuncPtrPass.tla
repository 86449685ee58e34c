----------------------------- MODULE FuncPtrPass -----------------------------
(***************************************************************************)
(* The function pointer pass of Assignment 2 (struct FuncPtrPass of        *)
(* LLVMAssignment.cpp).  Each function of the module is in turn an entry   *)
(* point of buildCallGraph, which works in rounds: analyse every function  *)
(* reached so far, close the bindings between function pointers, add the   *)
(* callees they lead to; until a round's analysis changes nothing.         *)
(*                                                                         *)
(* One step analyses one instruction, joins one pair of bindings, or ends  *)
(* a phase.  Instructions and operands that hold no function pointer, and  *)
(* the llvm.dbg functions, are not in the modules analysed; Other stands   *)
(* for what a function returns that returns no function pointer.           *)
(***************************************************************************)
EXTENDS FuncPtrFlow, SequencesExt

CONSTANTS
    Program,    \* the modules analysed
    Other,      \* a value that is no function pointer
    NoValue,    \* what funcRetValue has no entry for
    Solution(_) \* for each module some flow its copies respect

VARIABLES
    module,             \* the module m, never changed
    entry,              \* index of the entry point
    reachedFunc,        \* of this entry point, in the order of the vector
    roundEnd,           \* end() of reachedFunc, read when the round began
    at, pc,             \* the function analysed, and its instruction
    callGraphChanged,
    callGraphEdge,
    funcPtr, funcCall,
    funcPtrBind,        \* value |-> the values it may be a copy of
    funcPtrValue,       \* value |-> the functions it may be
    funcRetValue,       \* function |-> the value it returns, once visited
    phase,              \* "main", "analyse", "bind", "printed"
    status              \* "running", "aborted" or "undefined"

persistent == <<callGraphEdge, funcPtr, funcCall, funcPtrBind, funcPtrValue, funcRetValue>>

vars == <<module, entry, reachedFunc, roundEnd, at, pc, callGraphChanged,
          persistent, phase, status>>

Function == module.function

(* All values of function pointer type.  The others than functions and     *)
(* null are parameters, results of calls, and phi nodes.                   *)
Value == FuncPtrValue(module)

Arg == Value \cup {Other}

Instruction(m) ==
    LET value == FuncPtrValue(m)
    IN  [op : {"call"}, call : m.pointer, args : Seq(value)]
        \cup [op : {"phi"}, phi : m.pointer, operands : SUBSET value]
        \cup [op : {"ret"}, value : value \cup {Other}]

IsModule(m) ==
    /\ IsFiniteSet(m.function) /\ IsFiniteSet(m.pointer)
    /\ Null \notin m.function \cup m.pointer
    /\ m.function \cap m.pointer = {}
    /\ m.order \in Seq(m.function)
    /\ m.params \in [m.function -> Seq(m.pointer)]
    /\ m.operand \in [m.pointer -> FuncPtrValue(m)]
    /\ m.returnsFuncPtr \subseteq m.function
    /\ \A f \in m.function :
          /\ m.code[f] \in Seq(Instruction(m))
          /\ f \in m.returnsFuncPtr =>
                \A i \in DOMAIN m.code[f] :
                    m.code[f][i].op = "ret" => m.code[f][i].value # Other

ASSUME SpecialAssumption ==
    /\ Null # Other
    /\ \A m \in Program : {Other, NoValue} \cap FuncPtrValue(m) = {}
    /\ Other # NoValue

ASSUME ProgramAssumption == \A m \in Program : IsModule(m)

ASSUME SolutionAssumption == \A m \in Program : IsSolution(m, m.function, Solution(m))

TypeOK ==
    /\ module \in Program
    /\ entry \in Nat \ {0}
    /\ reachedFunc \in Seq(Function)
    /\ roundEnd \in 0 .. Len(reachedFunc)
    /\ at \in Nat \ {0} /\ pc \in Nat \ {0}
    /\ callGraphChanged \in BOOLEAN
    /\ callGraphEdge \in [module.pointer -> SUBSET Function]
    /\ funcPtr \subseteq Value
    /\ funcCall \subseteq module.pointer
    /\ funcPtrBind \in [Value -> SUBSET Value]
    /\ funcPtrValue \in [Value -> SUBSET Function]
    /\ funcRetValue \in [Function -> Arg \cup {NoValue}]
    /\ phase \in {"main", "analyse", "bind", "printed"}
    /\ phase \in {"analyse", "bind"} => at \in 1 .. roundEnd
    /\ status \in {"running", "aborted", "undefined"}

Init ==
    /\ module \in Program
    /\ entry = 1
    /\ reachedFunc = << >>
    /\ roundEnd = 0
    /\ at = 1 /\ pc = 1
    /\ callGraphChanged = FALSE
    /\ callGraphEdge = [c \in module.pointer |-> {}]
    /\ funcPtr = {}
    /\ funcCall = {}
    /\ funcPtrBind = [v \in Value |-> {}]
    /\ funcPtrValue = [v \in Value |-> {}]
    /\ funcRetValue = [f \in Function |-> NoValue]
    /\ phase = "main"
    /\ status = "running"

AddIfNotExist(sequence, value) ==
    IF value \in ToSet(sequence) THEN sequence ELSE Append(sequence, value)

-----------------------------------------------------------------------------
(* buildCallGraph for the next entry point, up to its first round.         *)
BeginRound_of_old_vector ==                                           \* mutant
    /\ roundEnd' = Len(reachedFunc)
    /\ at' = 1 /\ pc' = 1
    /\ callGraphChanged' = FALSE
    /\ phase' = "analyse"

BeginRound ==
    /\ roundEnd' = Len(reachedFunc')
    /\ at' = 1 /\ pc' = 1
    /\ callGraphChanged' = FALSE
    /\ phase' = "analyse"

StartEntry ==
    /\ phase = "main"
    /\ entry <= Len(module.order)
    /\ reachedFunc' = <<module.order[entry]>>
    /\ BeginRound
    /\ UNCHANGED <<module, entry, persistent, status>>

-----------------------------------------------------------------------------
(* analyseFunction, one instruction at a time.                             *)
Code(f) == module.code[f]

Current == Code(reachedFunc[at])

AtInstruction(op) ==
    /\ phase = "analyse"
    /\ pc <= Len(Current)
    /\ Current[pc].op = op

(* The functions a pointer may be, through one level of bindings.          *)
Resolved_unbound(v) == funcPtrValue[v]                                \* mutant

Resolved(v) == funcPtrValue[v] \cup UNION {funcPtrValue[b] : b \in funcPtrBind[v]}

IsDirect(call) == module.operand[call] \in Function

CalledFuncs(call) ==
    IF IsDirect(call) THEN {module.operand[call]} ELSE Resolved(module.operand[call])

(* getArg asserts that the callee has a parameter for the argument.        *)
TooManyArgs_one_more(inst) ==                                         \* mutant
    \E f \in CalledFuncs(inst.call) :
        (1 .. Len(inst.args) + 1) \ DOMAIN module.params[f] # {}

TooManyArgs(inst) ==
    \E f \in CalledFuncs(inst.call) : DOMAIN inst.args \ DOMAIN module.params[f] # {}

(* What the call copies: each pair is a value and one it may be a copy of. *)
ArgumentPairs(inst) ==
    {<<module.params[f][i], inst.args[i]>> :
        f \in CalledFuncs(inst.call), i \in DOMAIN inst.args}

ReturningCallees(call) == CalledFuncs(call) \cap module.returnsFuncPtr

ReturnPairs(call) ==
    {<<call, funcRetValue[f]>> :
        f \in {g \in ReturningCallees(call) : funcRetValue[g] # NoValue}}

Defers_any(call) ==                                                   \* mutant
    \E f \in CalledFuncs(call) : funcRetValue[f] = NoValue

Defers(call) == \E f \in ReturningCallees(call) : funcRetValue[f] = NoValue

Bind(pairs) ==
    funcPtrBind' = [v \in Value |-> funcPtrBind[v] \cup {u \in Value : <<v, u>> \in pairs}]

Assign(pairs) ==
    funcPtrValue' = [v \in Value |-> funcPtrValue[v] \cup {f \in Function : <<v, f>> \in pairs}]

BothOf(pairs) == {p[1] : p \in pairs} \cup {p[2] : p \in pairs}

EntityPairs(pairs) == {p \in pairs : p[2] \in Function}

(* An argument that is a function is assigned to the parameter, any other  *)
(* is bound; a returned value is bound whatever it is.                     *)
CallEffect(inst) ==
    LET call == inst.call
        args == ArgumentPairs(inst)
        bound == (args \ EntityPairs(args)) \cup ReturnPairs(call)
    IN  /\ Bind(bound)
        /\ Assign(EntityPairs(args))
        /\ funcPtr' = funcPtr \cup {p[1] : p \in args}
                              \cup {p[2] : p \in bound}
                              \cup (IF IsDirect(call) THEN {} ELSE {module.operand[call]})

Recorded(call) ==
    IF IsDirect(call)
    THEN /\ callGraphEdge' = [callGraphEdge EXCEPT ![call] = @ \cup {module.operand[call]}]
         /\ reachedFunc' = AddIfNotExist(reachedFunc, module.operand[call])
         /\ UNCHANGED funcCall
    ELSE /\ funcCall' = funcCall \cup {call}
         /\ UNCHANGED <<callGraphEdge, reachedFunc>>

Progressed ==
    <<callGraphEdge, reachedFunc, funcCall, funcPtr, funcPtrBind, funcPtrValue>>'
    # <<callGraphEdge, reachedFunc, funcCall, funcPtr, funcPtrBind, funcPtrValue>>

NextInstruction ==
    /\ pc' = pc + 1
    /\ UNCHANGED <<module, entry, roundEnd, at, phase, status>>

AnalyseCall ==
    /\ AtInstruction("call")
    /\ LET inst == Current[pc] IN
       /\ ~TooManyArgs(inst)
       /\ Recorded(inst.call)
       /\ CallEffect(inst)
       /\ callGraphChanged' = (callGraphChanged \/ Progressed \/ Defers(inst.call))
    /\ UNCHANGED funcRetValue
    /\ NextInstruction

CallAborts ==
    /\ AtInstruction("call")
    /\ TooManyArgs(Current[pc])
    /\ status' = "aborted"
    /\ UNCHANGED <<module, entry, reachedFunc, roundEnd, at, pc, callGraphChanged,
                   persistent, phase>>

PhiPairs(inst) == {<<inst.phi, u>> : u \in inst.operands \ {Null}}

AnalysePhi ==
    /\ AtInstruction("phi")
    /\ LET pairs == PhiPairs(Current[pc])
           bound == pairs \ EntityPairs(pairs)
       IN  /\ Assign(EntityPairs(pairs))
           /\ Bind(bound)
           /\ funcPtr' = funcPtr \cup BothOf(bound)
    /\ UNCHANGED <<callGraphEdge, reachedFunc, funcCall, funcRetValue>>
    /\ callGraphChanged' = (callGraphChanged \/ Progressed)
    /\ NextInstruction

(* Only the first return visited is kept, and it changes no flag: a call   *)
(* that waits for it has set it.                                           *)
AnalyseRet ==
    /\ AtInstruction("ret")
    /\ LET f == reachedFunc[at] IN
       funcRetValue' = IF funcRetValue[f] = NoValue
                       THEN [funcRetValue EXCEPT ![f] = Current[pc].value]
                       ELSE funcRetValue
    /\ UNCHANGED <<reachedFunc, callGraphChanged,
                   callGraphEdge, funcPtr, funcCall, funcPtrBind, funcPtrValue>>
    /\ NextInstruction

-----------------------------------------------------------------------------
(* The capacity of a vector filled by push_back: it doubles.               *)
SameCapacity(m, n) == \A k \in 0 .. n : ~(m <= 2 ^ k /\ 2 ^ k < n)

(* The loop over reachedFunc goes on with the iterators it has: to a freed *)
(* array if the vector has grown since the round began.                    *)
NextFunction ==
    /\ phase = "analyse"
    /\ pc > Len(Current)
    /\ at < roundEnd
    /\ \/ at' = at + 1 /\ pc' = 1 /\ UNCHANGED status
       \/ /\ ~SameCapacity(roundEnd, Len(reachedFunc))
          /\ status' = "undefined"
          /\ UNCHANGED <<at, pc>>
    /\ UNCHANGED <<module, entry, reachedFunc, roundEnd, callGraphChanged, persistent, phase>>

EndAnalysis ==
    /\ phase = "analyse"
    /\ pc > Len(Current)
    /\ at = roundEnd
    /\ phase' = "bind"
    /\ UNCHANGED <<module, entry, reachedFunc, roundEnd, at, pc, callGraphChanged,
                   persistent, status>>

(* The loops over pairs of function pointers, in any order: p takes over   *)
(* the bindings of what it is bound to, until all have.                    *)
Lacks(p, q) == p # q /\ q \in funcPtrBind[p] /\ ~(funcPtrBind[q] \subseteq funcPtrBind[p])

Propagate_back(p, q) ==                                               \* mutant
    /\ phase = "bind"
    /\ Lacks(p, q)
    /\ funcPtrBind' = [funcPtrBind EXCEPT ![p] = @ \cup funcPtrBind[q], ![q] = @ \cup {p}]
    /\ UNCHANGED <<module, entry, reachedFunc, roundEnd, at, pc, callGraphChanged,
                   callGraphEdge, funcPtr, funcCall, funcPtrValue, funcRetValue,
                   phase, status>>

Propagate(p, q) ==
    /\ phase = "bind"
    /\ Lacks(p, q)
    /\ funcPtrBind' = [funcPtrBind EXCEPT ![p] = @ \cup funcPtrBind[q]]
    /\ UNCHANGED <<module, entry, reachedFunc, roundEnd, at, pc, callGraphChanged,
                   callGraphEdge, funcPtr, funcCall, funcPtrValue, funcRetValue,
                   phase, status>>

BindingsClosed == \A p, q \in funcPtr : ~Lacks(p, q)

(* The callees of all indirect calls known, those of earlier entry points  *)
(* among them, join the graph and the functions reached.  The code does so *)
(* after every pass over the pairs; as bindings only grow, what an earlier *)
(* pass adds the last one adds too, and the order is any.  Then another    *)
(* round, or the next entry point.                                         *)
ModifyCallGraph ==
    /\ phase = "bind"
    /\ BindingsClosed
    /\ callGraphEdge' = [c \in module.pointer |->
                            IF c \in funcCall
                            THEN callGraphEdge[c] \cup Resolved(module.operand[c])
                            ELSE callGraphEdge[c]]
    /\ \E new \in SetToSeqs((UNION {Resolved(module.operand[c]) : c \in funcCall})
                            \ ToSet(reachedFunc)) :
          reachedFunc' = reachedFunc \o new
    /\ IF callGraphChanged
       THEN BeginRound /\ UNCHANGED entry
       ELSE /\ phase' = "main"
            /\ entry' = entry + 1
            /\ UNCHANGED <<roundEnd, at, pc, callGraphChanged>>
    /\ UNCHANGED <<module, funcPtr, funcCall, funcPtrBind, funcPtrValue, funcRetValue, status>>

PrintResult ==
    /\ phase = "main"
    /\ entry > Len(module.order)
    /\ phase' = "printed"
    /\ UNCHANGED <<module, entry, reachedFunc, roundEnd, at, pc, callGraphChanged,
                   persistent, status>>

Step ==
    \/ StartEntry
    \/ AnalyseCall
    \/ CallAborts
    \/ AnalysePhi
    \/ AnalyseRet
    \/ NextFunction
    \/ EndAnalysis
    \/ \E p, q \in funcPtr : Propagate(p, q)
    \/ ModifyCallGraph
    \/ PrintResult

Running == status = "running" /\ phase # "printed"

Next ==
    \/ Running /\ Step
    \/ ~Running /\ UNCHANGED vars

Spec == Init /\ [][Next]_vars

(* The only thread is never suspended for ever.                            *)
FairSpec == Spec /\ WF_vars(Next)

-----------------------------------------------------------------------------
(* Nothing is printed that a flow-insensitive analysis of the module may   *)
(* not print: callees, and what the bindings lead to, stay within every    *)
(* solution, whatever calls are deferred, joined or seen again             *)
(* (analyseFunction, buildCallGraph).                                      *)
BelowSolution ==
    /\ \A c \in module.pointer : callGraphEdge[c] \subseteq Solution(module)[module.operand[c]]
    /\ \A v \in Value : Resolved(v) \subseteq Solution(module)[v]

(* What the pass can follow: all returns of a function return one value,   *)
(* as funcRetValue holds one (219), and no function by name, as what is    *)
(* bound is looked up in funcPtrValue, where a function has nothing (173). *)
ReturnsAreFollowed(m) ==
    \A f \in m.returnsFuncPtr : \E v \in m.pointer \cup {Null} :
        \A i \in DOMAIN m.code[f] : m.code[f][i].op = "ret" => m.code[f][i].value = v

(* When buildCallGraph is done with an entry point, every call that can    *)
(* happen in a program started there has all its callees, although one     *)
(* level of bindings is looked up (105), the rounds end on a flag the last *)
(* phase does not set (289-317), and only the functions this entry point   *)
(* reached are analysed again.                                             *)
CalleesFound ==
    phase = "main" /\ entry > 1 /\ ReturnsAreFollowed(module) =>
        LET from == LeastFrom(module, {module.order[entry - 1]})
        IN  \A inst \in Instructions(module, from.reach, "call") :
                Callees(module, from.flow, inst) \subseteq callGraphEdge[inst.call]

(* The pass ends (the loops at 242 and 252), though calls are deferred by  *)
(* claiming a change (169).                                                *)
Ends == <>(~Running)

(* A deferred call is processed later (the comment at 165).                *)
DeferredIsProcessed ==
    \A f \in UNION {m.returnsFuncPtr : m \in Program} :
        (/\ AtInstruction("call")
         /\ f \in ReturningCallees(Current[pc].call)) ~> (~Running \/ funcRetValue[f] # NoValue)
=============================================================================
