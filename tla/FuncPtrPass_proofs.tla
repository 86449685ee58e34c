------------------------- MODULE FuncPtrPass_proofs -------------------------
(***************************************************************************)
(* Theorems about the function pointer pass for every module, every order  *)
(* of its functions and every order of addresses.                          *)
(***************************************************************************)
EXTENDS FuncPtrPass, SequenceTheorems, FiniteSetTheorems, TLAPS

(* What funcRetValue holds was returned by an instruction of the function. *)
RetVisited ==
    \A f \in Function : funcRetValue[f] # NoValue =>
        \E i \in DOMAIN Code(f) : Code(f)[i].op = "ret" /\ Code(f)[i].value = funcRetValue[f]

Inv == TypeOK /\ RetVisited

-----------------------------------------------------------------------------
(* The shape of the module analysed, and of the instruction being visited. *)
LEMMA ModuleShape ==
    ASSUME TypeOK
    PROVE  /\ IsModule(module)
           /\ NoValue \notin Value /\ Other \notin Value /\ NoValue # Other
BY ProgramAssumption, SpecialAssumption DEF TypeOK, Value

LEMMA Visited ==
    ASSUME TypeOK, NEW op, AtInstruction(op)
    PROVE  /\ reachedFunc[at] \in Function
           /\ Current = Code(reachedFunc[at])
           /\ pc \in DOMAIN Current
           /\ Current[pc].op = op
           /\ Current[pc] \in Instruction(module)
<1>1. reachedFunc[at] \in Function
  <2>1. at \in 1 .. Len(reachedFunc)
    BY DEF TypeOK, AtInstruction
  <2> QED
    BY <2>1, ElementOfSeq DEF TypeOK
<1>2. Current \in Seq(Instruction(module))
  BY <1>1, ModuleShape DEF Current, Code, IsModule, Function
<1>3. pc \in 1 .. Len(Current)
  BY DEF TypeOK, AtInstruction
<1> QED
  BY <1>1, <1>2, <1>3, ElementOfSeq DEF Current, AtInstruction

LEMMA CallShape ==
    ASSUME TypeOK, AtInstruction("call")
    PROVE  /\ Current[pc].call \in module.pointer
           /\ Current[pc].args \in Seq(Value)
           /\ module.operand[Current[pc].call] \in Value
<1>1. Current[pc] \in Instruction(module) /\ Current[pc].op = "call"
  BY Visited
<1>2. Current[pc].call \in module.pointer /\ Current[pc].args \in Seq(Value)
  BY <1>1 DEF Instruction, Value
<1> QED
  BY <1>2, ModuleShape DEF IsModule, Value

LEMMA PhiShape ==
    ASSUME TypeOK, AtInstruction("phi")
    PROVE  Current[pc].phi \in module.pointer /\ Current[pc].operands \subseteq Value
<1>1. Current[pc] \in Instruction(module) /\ Current[pc].op = "phi"
  BY Visited
<1> QED
  BY <1>1 DEF Instruction, Value

LEMMA RetShape ==
    ASSUME TypeOK, AtInstruction("ret")
    PROVE  Current[pc].value \in Arg
<1>1. Current[pc] \in Instruction(module) /\ Current[pc].op = "ret"
  BY Visited
<1> QED
  BY <1>1 DEF Instruction, Arg, Value

(* The functions a pointer resolves to, and those called, are functions.   *)
LEMMA ResolvedType ==
    ASSUME TypeOK, NEW v \in Value
    PROVE  Resolved(v) \subseteq Function
BY DEF TypeOK, Resolved

LEMMA CalledType ==
    ASSUME TypeOK, NEW c \in module.pointer
    PROVE  CalledFuncs(c) \subseteq Function
<1>1. module.operand[c] \in Value
  BY ModuleShape DEF IsModule, Value
<1> QED
  BY <1>1, ResolvedType DEF CalledFuncs, IsDirect

(* What a call copies, it copies from one value to another.                *)
LEMMA ArgumentPairsType ==
    ASSUME TypeOK, AtInstruction("call"), ~TooManyArgs(Current[pc])
    PROVE  ArgumentPairs(Current[pc]) \subseteq Value \X Value
<1> DEFINE inst == Current[pc]
<1> SUFFICES ASSUME NEW f \in CalledFuncs(inst.call), NEW i \in DOMAIN inst.args
             PROVE  /\ module.params[f][i] \in Value
                    /\ inst.args[i] \in Value
  BY DEF ArgumentPairs
<1>1. inst.args[i] \in Value
  BY CallShape, ElementOfSeq, LenProperties
<1>2. i \in DOMAIN module.params[f]
  BY DEF TooManyArgs
<1>3. module.params[f] \in Seq(module.pointer)
  BY CallShape, CalledType, ModuleShape DEF IsModule, Function
<1>4. module.params[f][i] \in module.pointer
  BY <1>2, <1>3, ElementOfSeq, LenProperties
<1> QED
  BY <1>1, <1>4 DEF Value, FuncPtrValue

LEMMA ReturnPairsType ==
    ASSUME Inv, AtInstruction("call")
    PROVE  ReturnPairs(Current[pc].call) \subseteq Value \X Value
<1> DEFINE call == Current[pc].call
<1> USE DEF Inv
<1> SUFFICES ASSUME NEW f \in ReturningCallees(call), funcRetValue[f] # NoValue
             PROVE  call \in Value /\ funcRetValue[f] \in Value
  BY DEF ReturnPairs
<1>1. call \in Value
  BY CallShape DEF Value, FuncPtrValue
<1>2. f \in Function /\ f \in module.returnsFuncPtr
  BY CallShape, CalledType DEF ReturningCallees
<1>3. PICK i \in DOMAIN Code(f) : Code(f)[i].op = "ret" /\ Code(f)[i].value = funcRetValue[f]
  BY <1>2 DEF RetVisited
<1>4. funcRetValue[f] # Other
  BY <1>2, <1>3, ModuleShape DEF IsModule, Code, Function
<1> QED
  BY <1>1, <1>2, <1>4 DEF TypeOK, Arg
-----------------------------------------------------------------------------
(* One step at a time.                                                     *)
LEMMA BindType ==
    ASSUME TypeOK, NEW pairs, Bind(pairs)
    PROVE  funcPtrBind' \in [Value -> SUBSET Value]
BY DEF TypeOK, Bind

LEMMA AssignType ==
    ASSUME TypeOK, NEW pairs, Assign(pairs)
    PROVE  funcPtrValue' \in [Value -> SUBSET Function]
BY DEF TypeOK, Assign

LEMMA AddedType ==
    ASSUME TypeOK, NEW f \in Function
    PROVE  /\ AddIfNotExist(reachedFunc, f) \in Seq(Function)
           /\ Len(AddIfNotExist(reachedFunc, f)) >= Len(reachedFunc)
BY AppendProperties, LenProperties DEF TypeOK, AddIfNotExist

LEMMA CallTyped ==
    ASSUME Inv, AnalyseCall
    PROVE  TypeOK'
<1> USE DEF Inv
<1> DEFINE inst == Current[pc]
           args == ArgumentPairs(inst)
           bound == (args \ EntityPairs(args)) \cup ReturnPairs(inst.call)
<1>1. AtInstruction("call") /\ ~TooManyArgs(inst)
  BY DEF AnalyseCall
<1>2. inst.call \in module.pointer /\ module.operand[inst.call] \in Value
  BY <1>1, CallShape
<1>3. args \subseteq Value \X Value /\ bound \subseteq Value \X Value
  BY <1>1, ArgumentPairsType, ReturnPairsType
<1>4. CallEffect(inst) /\ Recorded(inst.call)
  BY DEF AnalyseCall
<1>5. funcPtr' \subseteq Value
  BY <1>2, <1>3, <1>4 DEF CallEffect, TypeOK
<1>6. funcPtrBind' \in [Value -> SUBSET Value]
  BY <1>4, BindType DEF CallEffect
<1>7. funcPtrValue' \in [Value -> SUBSET Function]
  BY <1>4, AssignType DEF CallEffect
<1>8. /\ callGraphEdge' \in [module.pointer -> SUBSET Function]
      /\ reachedFunc' \in Seq(Function)
      /\ Len(reachedFunc') >= Len(reachedFunc)
      /\ funcCall' \subseteq module.pointer
  <2>1. CASE IsDirect(inst.call)
    <3>1. module.operand[inst.call] \in Function
      BY <2>1 DEF IsDirect
    <3>2. /\ reachedFunc' = AddIfNotExist(reachedFunc, module.operand[inst.call])
          /\ callGraphEdge' = [callGraphEdge EXCEPT
                                 ![inst.call] = @ \cup {module.operand[inst.call]}]
          /\ UNCHANGED funcCall
      BY <1>4, <2>1 DEF Recorded
    <3>3. reachedFunc' \in Seq(Function) /\ Len(reachedFunc') >= Len(reachedFunc)
      BY <3>1, <3>2, AddedType
    <3>4. callGraphEdge' \in [module.pointer -> SUBSET Function]
      BY <1>2, <3>1, <3>2 DEF TypeOK
    <3> QED
      BY <3>2, <3>3, <3>4 DEF TypeOK
  <2>2. CASE ~IsDirect(inst.call)
    BY <1>2, <1>4, <2>2, LenProperties DEF Recorded, TypeOK
  <2> QED
    BY <2>1, <2>2
<1>9. callGraphChanged' \in BOOLEAN
  BY DEF AnalyseCall, TypeOK
<1>10. roundEnd \in 0 .. Len(reachedFunc')
  BY <1>8, LenProperties DEF TypeOK
<1>11. /\ UNCHANGED <<module, entry, roundEnd, at, phase, status, funcRetValue>>
       /\ pc' = pc + 1
  BY DEF AnalyseCall, NextInstruction
<1> QED
  BY <1>5, <1>6, <1>7, <1>8, <1>9, <1>10, <1>11
  DEF TypeOK, Function, Value, Arg, FuncPtrValue

LEMMA PhiTyped ==
    ASSUME Inv, AnalysePhi
    PROVE  TypeOK'
<1> USE DEF Inv
<1> DEFINE inst == Current[pc]
           pairs == PhiPairs(inst)
           bound == pairs \ EntityPairs(pairs)
<1>1. inst.phi \in Value /\ inst.operands \subseteq Value
  BY PhiShape DEF AnalysePhi, Value, FuncPtrValue
<1>2. Assign(EntityPairs(pairs)) /\ Bind(bound) /\ funcPtr' = funcPtr \cup BothOf(bound)
  BY DEF AnalysePhi
<1>3. funcPtr' \subseteq Value
  <2>1. pairs \subseteq Value \X Value
    BY <1>1 DEF PhiPairs
  <2>2. BothOf(bound) \subseteq Value
    BY <2>1 DEF BothOf
  <2> QED
    BY <1>2, <2>2 DEF TypeOK
<1>4. /\ funcPtrBind' \in [Value -> SUBSET Value]
      /\ funcPtrValue' \in [Value -> SUBSET Function]
  BY <1>2, BindType, AssignType
<1>5. callGraphChanged' \in BOOLEAN
  BY DEF AnalysePhi, TypeOK
<1>6. /\ UNCHANGED <<module, entry, roundEnd, at, phase, status, callGraphEdge,
                     reachedFunc, funcCall, funcRetValue>>
      /\ pc' = pc + 1
  BY DEF AnalysePhi, NextInstruction
<1> QED
  BY <1>3, <1>4, <1>5, <1>6 DEF TypeOK, Function, Value, Arg, FuncPtrValue

LEMMA RetTyped ==
    ASSUME Inv, AnalyseRet
    PROVE  TypeOK'
<1> USE DEF Inv
<1>1. reachedFunc[at] \in Function /\ Current[pc].value \in Arg
  BY Visited, RetShape DEF AnalyseRet
<1>2. funcRetValue' \in [Function -> Arg \cup {NoValue}]
  BY <1>1 DEF AnalyseRet, TypeOK
<1>3. /\ UNCHANGED <<module, entry, roundEnd, at, phase, status, callGraphEdge,
                     reachedFunc, funcCall, funcPtr, funcPtrBind, funcPtrValue,
                     callGraphChanged>>
      /\ pc' = pc + 1
  BY DEF AnalyseRet, NextInstruction
<1> QED
  BY <1>2, <1>3 DEF TypeOK, Function, Value, Arg, FuncPtrValue

(* The functions found in a round are finitely many, in some order.        *)
LEMMA ModifyTyped ==
    ASSUME Inv, ModifyCallGraph
    PROVE  TypeOK'
<1> USE DEF Inv
<1> DEFINE found == (UNION {Resolved(module.operand[c]) : c \in funcCall}) \ ToSet(reachedFunc)
<1>1. \A c \in module.pointer : Resolved(module.operand[c]) \subseteq Function
  BY ResolvedType, ModuleShape DEF IsModule, Value
<1>2. found \subseteq Function
  BY <1>1 DEF TypeOK
<1>3. IsFiniteSet(found)
  BY <1>2, FS_Subset, ModuleShape DEF IsModule, Function
<1>4. Cardinality(found) \in Nat
  BY <1>3, FS_CardinalityType
<1>5. PICK new \in SetToSeqs(found) : reachedFunc' = reachedFunc \o new
  BY DEF ModifyCallGraph
<1>6. new \in [1 .. Cardinality(found) -> found]
  BY <1>5 DEF SetToSeqs
<1>7. new \in Seq(Function)
  <2>1. new \in [1 .. Cardinality(found) -> Function]
    BY <1>2, <1>6
  <2>2. \E n \in Nat : new \in [1 .. n -> Function]
    BY <1>4, <2>1
  <2> QED
    BY <2>2, SeqDef
<1>8. /\ reachedFunc' \in Seq(Function)
      /\ Len(reachedFunc') >= Len(reachedFunc)
      /\ Len(reachedFunc') \in Nat
  BY <1>5, <1>7, ConcatProperties, LenProperties DEF TypeOK
<1>9. callGraphEdge' \in [module.pointer -> SUBSET Function]
  BY <1>1 DEF ModifyCallGraph, TypeOK
<1>10. /\ UNCHANGED <<module, funcPtr, funcCall, funcPtrBind, funcPtrValue, funcRetValue, status>>
       /\ phase = "bind"
  BY DEF ModifyCallGraph
<1>11. at \in 1 .. roundEnd /\ roundEnd \in 0 .. Len(reachedFunc)
  BY <1>10 DEF TypeOK
<1>12. CASE BeginRound /\ UNCHANGED entry
  <2>1. /\ roundEnd' \in 0 .. Len(reachedFunc') /\ at' = 1 /\ pc' = 1
        /\ roundEnd' >= 1
        /\ callGraphChanged' = FALSE /\ phase' = "analyse"
    BY <1>8, <1>11, <1>12, LenProperties DEF BeginRound, TypeOK
  <2>2. at' \in 1 .. roundEnd' /\ at' \in Nat \ {0} /\ pc' \in Nat \ {0}
    BY <2>1
  <2> QED
    BY <1>8, <1>9, <1>10, <1>12, <2>1, <2>2 DEF TypeOK, Function, Value, Arg, FuncPtrValue
<1>13. CASE phase' = "main" /\ entry' = entry + 1
            /\ UNCHANGED <<roundEnd, at, pc, callGraphChanged>>
  <2>1. roundEnd' \in 0 .. Len(reachedFunc')
    BY <1>8, <1>11, <1>13, LenProperties DEF TypeOK
  <2> QED
    BY <1>8, <1>9, <1>10, <1>13, <2>1 DEF TypeOK, Function, Value, Arg, FuncPtrValue
<1> QED
  BY <1>12, <1>13 DEF ModifyCallGraph

LEMMA OthersTyped ==
    ASSUME Inv,
           \/ StartEntry \/ CallAborts \/ NextFunction \/ EndAnalysis \/ PrintResult
           \/ \E p, q \in funcPtr : Propagate(p, q)
           \/ UNCHANGED vars
    PROVE  TypeOK'
<1> USE DEF Inv
<1>1. CASE StartEntry
  <2>1. module.order[entry] \in Function
    <3>1. module.order \in Seq(Function) /\ entry \in 1 .. Len(module.order)
      BY <1>1, ModuleShape DEF StartEntry, TypeOK, IsModule, Function
    <3> QED
      BY <3>1, ElementOfSeq
  <2>2. reachedFunc' \in Seq(Function) /\ Len(reachedFunc') = 1
    BY <1>1, <2>1 DEF StartEntry
  <2>3. /\ roundEnd' \in 0 .. Len(reachedFunc') /\ at' \in 1 .. roundEnd'
        /\ at' \in Nat \ {0} /\ pc' \in Nat \ {0}
        /\ callGraphChanged' = FALSE /\ phase' = "analyse"
    BY <1>1, <2>2 DEF StartEntry, BeginRound
  <2>4. UNCHANGED <<module, entry, persistent, status>>
    BY <1>1 DEF StartEntry
  <2> QED
    BY <2>2, <2>3, <2>4 DEF TypeOK, persistent, Function, Value, Arg, FuncPtrValue
<1>2. CASE CallAborts
  BY <1>2 DEF CallAborts, TypeOK, persistent, Function, Value, Arg, FuncPtrValue
<1>3. CASE NextFunction
  BY <1>3 DEF NextFunction, TypeOK, persistent, Function, Value, Arg, FuncPtrValue
<1>4. CASE EndAnalysis
  BY <1>4 DEF EndAnalysis, TypeOK, persistent, Function, Value, Arg, FuncPtrValue
<1>5. CASE PrintResult
  BY <1>5 DEF PrintResult, TypeOK, persistent, Function, Value, Arg, FuncPtrValue
<1>6. CASE \E p, q \in funcPtr : Propagate(p, q)
  <2>1. PICK p \in Value, q \in Value : Propagate(p, q)
    BY <1>6 DEF TypeOK
  <2>2. funcPtrBind' \in [Value -> SUBSET Value]
    BY <2>1 DEF Propagate, TypeOK
  <2> QED
    BY <2>1, <2>2 DEF Propagate, TypeOK, Function, Value, Arg, FuncPtrValue
<1>7. CASE UNCHANGED vars
  BY <1>7 DEF vars, TypeOK, persistent, Function, Value, Arg, FuncPtrValue
<1> QED
  BY <1>1, <1>2, <1>3, <1>4, <1>5, <1>6, <1>7

(* A return visited is in the code, which no step changes.                 *)
LEMMA RetVisitedKept ==
    ASSUME Inv, Step \/ UNCHANGED vars
    PROVE  RetVisited'
<1> USE DEF Inv
<1>1. UNCHANGED module
  BY DEF Step, vars, StartEntry, AnalyseCall, CallAborts, AnalysePhi, AnalyseRet, NextFunction,
         EndAnalysis, Propagate, ModifyCallGraph, PrintResult, NextInstruction
<1>2. CASE AnalyseRet
  <2>1. /\ reachedFunc[at] \in Function
        /\ Current = Code(reachedFunc[at])
        /\ pc \in DOMAIN Current /\ Current[pc].op = "ret"
    BY <1>2, Visited DEF AnalyseRet
  <2> SUFFICES ASSUME NEW f \in Function, funcRetValue'[f] # NoValue
               PROVE  \E i \in DOMAIN Code(f) :
                         Code(f)[i].op = "ret" /\ Code(f)[i].value = funcRetValue'[f]
    BY <1>1 DEF RetVisited, Code, Function
  <2>2. CASE f = reachedFunc[at] /\ funcRetValue[f] = NoValue
    <3>1. funcRetValue'[f] = Current[pc].value
      BY <1>2, <2>2 DEF AnalyseRet, TypeOK
    <3> QED
      BY <2>1, <2>2, <3>1
  <2>3. CASE ~(f = reachedFunc[at] /\ funcRetValue[f] = NoValue)
    <3>1. funcRetValue'[f] = funcRetValue[f]
      BY <1>2, <2>3 DEF AnalyseRet, TypeOK
    <3> QED
      BY <3>1 DEF RetVisited
  <2> QED
    BY <2>2, <2>3
<1>3. CASE ~AnalyseRet
  <2>1. UNCHANGED funcRetValue
    BY <1>3 DEF Step, vars, persistent, StartEntry, AnalyseCall, CallAborts, AnalysePhi, NextFunction,
                EndAnalysis, Propagate, ModifyCallGraph, PrintResult
  <2> QED
    BY <1>1, <2>1 DEF RetVisited, Code, Function
<1> QED
  BY <1>2, <1>3

LEMMA InitTyped ==
    ASSUME Init
    PROVE  Inv
<1>1. /\ module \in Program /\ entry = 1 /\ reachedFunc = << >> /\ roundEnd = 0
      /\ at = 1 /\ pc = 1 /\ phase = "main" /\ status = "running"
      /\ callGraphChanged = FALSE
  BY DEF Init
<1>2. /\ callGraphEdge \in [module.pointer -> SUBSET Function]
      /\ funcPtr \subseteq Value
      /\ funcCall \subseteq module.pointer
      /\ funcPtrBind \in [Value -> SUBSET Value]
      /\ funcPtrValue \in [Value -> SUBSET Function]
      /\ funcRetValue \in [Function -> Arg \cup {NoValue}]
  BY DEF Init
<1>3. reachedFunc \in Seq(Function) /\ Len(reachedFunc) = 0
  BY <1>1, EmptySeq
<1>4. RetVisited
  BY DEF Init, RetVisited
<1>5. /\ roundEnd \in 0 .. Len(reachedFunc)
      /\ entry \in Nat \ {0} /\ at \in Nat \ {0} /\ pc \in Nat \ {0}
  BY <1>1, <1>3
<1>6. /\ module \in Program /\ reachedFunc \in Seq(Function) /\ callGraphChanged \in BOOLEAN
      /\ phase = "main" /\ status = "running"
  BY <1>1, <1>3
<1> QED
  BY <1>2, <1>4, <1>5, <1>6 DEF Inv, TypeOK

LEMMA StepTyped ==
    ASSUME Inv, [Next]_vars
    PROVE  Inv'
<1>1. Step \/ UNCHANGED vars
  BY DEF Next
<1>2. RetVisited'
  BY <1>1, RetVisitedKept
<1>3. TypeOK'
  BY <1>1, CallTyped, PhiTyped, RetTyped, ModifyTyped, OthersTyped DEF Step
<1> QED
  BY <1>2, <1>3 DEF Inv

(* The vectors and maps of the pass only ever hold the functions and the   *)
(* function pointers of the module, and a round's loop stays in the vector *)
(* it began with (AddIfNotExist, ModifyCallGraph, 247).                    *)
THEOREM TypeCorrect == Spec => []TypeOK
<1>1. Init => Inv
  BY InitTyped
<1>2. Inv /\ [Next]_vars => Inv'
  BY StepTyped
<1>3. Inv => TypeOK
  BY DEF Inv
<1> QED
  BY <1>1, <1>2, <1>3, PTL DEF Spec
-----------------------------------------------------------------------------
(* The pass stays below every solution because each value, binding and     *)
(* edge does.                                                              *)
S == Solution(module)

ValuesBelow == \A v \in Value : funcPtrValue[v] \subseteq S[v]

BindingsBelow == \A v \in Value : \A b \in funcPtrBind[v] : S[b] \subseteq S[v]

EdgesBelow == \A c \in module.pointer : callGraphEdge[c] \subseteq S[module.operand[c]]

Below == ValuesBelow /\ BindingsBelow /\ EdgesBelow

BelowInv == Inv /\ Below

LEMMA SolutionShape ==
    ASSUME TypeOK
    PROVE  /\ S \in [Value -> SUBSET Function]
           /\ \A f \in Function : f \in S[f]
           /\ \A copy \in Copies(module, Function, S) : S[copy[2]] \subseteq S[copy[1]]
BY SolutionAssumption DEF TypeOK, IsSolution, S, Flow, Value, Function

LEMMA ResolvedBelow ==
    ASSUME BelowInv, NEW v \in Value
    PROVE  Resolved(v) \subseteq S[v]
<1>1. \A b \in funcPtrBind[v] : b \in Value /\ funcPtrValue[b] \subseteq S[v]
  BY DEF BelowInv, Inv, TypeOK, Below, ValuesBelow, BindingsBelow
<1> QED
  BY <1>1 DEF BelowInv, Below, ValuesBelow, Resolved

LEMMA CalledBelow ==
    ASSUME BelowInv, NEW c \in module.pointer
    PROVE  CalledFuncs(c) \subseteq S[module.operand[c]]
<1>1. module.operand[c] \in Value /\ TypeOK
  BY ModuleShape DEF IsModule, Value, BelowInv, Inv
<1> QED
  BY <1>1, ResolvedBelow, SolutionShape DEF CalledFuncs, IsDirect

(* Pairs added to the bindings or the values lie below the solution when   *)
(* the solution respects them.                                             *)
Respected(pairs) == \A p \in pairs : S[p[2]] \subseteq S[p[1]]

LEMMA BindBelow ==
    ASSUME BelowInv, NEW pairs, Bind(pairs), Respected(pairs), UNCHANGED module
    PROVE  BindingsBelow'
<1> SUFFICES ASSUME NEW v \in Value, NEW b \in funcPtrBind'[v] PROVE S[b] \subseteq S[v]
  BY DEF BindingsBelow, S, Value
<1>1. b \in funcPtrBind[v] \/ <<v, b>> \in pairs
  BY DEF Bind
<1>2. CASE b \in funcPtrBind[v]
  BY <1>2 DEF BelowInv, Below, BindingsBelow
<1>3. CASE <<v, b>> \in pairs
  BY <1>3 DEF Respected
<1> QED
  BY <1>1, <1>2, <1>3

LEMMA AssignBelow ==
    ASSUME BelowInv, NEW pairs, Assign(pairs), Respected(pairs), UNCHANGED module
    PROVE  ValuesBelow'
<1> SUFFICES ASSUME NEW v \in Value, NEW f \in funcPtrValue'[v] PROVE f \in S[v]
  BY DEF ValuesBelow, S, Value
<1>1. f \in funcPtrValue[v] \/ (f \in Function /\ <<v, f>> \in pairs)
  BY DEF Assign
<1>2. CASE f \in funcPtrValue[v]
  BY <1>2 DEF BelowInv, Below, ValuesBelow
<1>3. CASE f \in Function /\ <<v, f>> \in pairs
  BY <1>3, SolutionShape DEF Respected, BelowInv, Inv
<1> QED
  BY <1>1, <1>2, <1>3

(* Every solution respects what a call or a phi copies.                    *)
LEMMA InReach ==
    ASSUME TypeOK, NEW op, AtInstruction(op)
    PROVE  Current[pc] \in Instructions(module, Function, op)
<1>1. /\ reachedFunc[at] \in Function /\ Current = module.code[reachedFunc[at]]
      /\ pc \in DOMAIN Current /\ Current[pc].op = op
  BY Visited DEF Code
<1> QED
  BY <1>1 DEF Instructions

LEMMA ArgumentsRespected ==
    ASSUME BelowInv, AtInstruction("call"), ~TooManyArgs(Current[pc])
    PROVE  Respected(ArgumentPairs(Current[pc]))
<1> DEFINE inst == Current[pc]
<1> USE DEF BelowInv, Inv
<1> SUFFICES ASSUME NEW f \in CalledFuncs(inst.call), NEW i \in DOMAIN inst.args
             PROVE  S[inst.args[i]] \subseteq S[module.params[f][i]]
  BY DEF Respected, ArgumentPairs
<1>1. f \in Callees(module, S, inst)
  BY CallShape, CalledBelow DEF Callees
<1>2. i \in DOMAIN inst.args \cap DOMAIN module.params[f]
  BY DEF TooManyArgs
<1>3. inst \in Instructions(module, Function, "call")
  BY InReach
<1>4. <<module.params[f][i], inst.args[i]>> \in ArgumentCopies(module, Function, S)
  BY <1>1, <1>2, <1>3 DEF ArgumentCopies
<1>5. <<module.params[f][i], inst.args[i]>> \in Copies(module, Function, S)
  BY <1>4 DEF Copies
<1> QED
  BY <1>5, SolutionShape

LEMMA ReturnsRespected ==
    ASSUME BelowInv, AtInstruction("call")
    PROVE  Respected(ReturnPairs(Current[pc].call))
<1> DEFINE inst == Current[pc]
<1> USE DEF BelowInv, Inv
<1> SUFFICES ASSUME NEW f \in ReturningCallees(inst.call), funcRetValue[f] # NoValue
             PROVE  S[funcRetValue[f]] \subseteq S[inst.call]
  BY DEF Respected, ReturnPairs
<1>1. f \in Callees(module, S, inst) \cap module.returnsFuncPtr
  BY CallShape, CalledBelow DEF Callees, ReturningCallees
<1>2. f \in Function
  BY CallShape, CalledType DEF ReturningCallees
<1>3. PICK i \in DOMAIN Code(f) : Code(f)[i].op = "ret" /\ Code(f)[i].value = funcRetValue[f]
  BY <1>2 DEF RetVisited
<1>4. \E ret \in Instructions(module, {f}, "ret") : ret.value = funcRetValue[f]
  BY <1>3 DEF Instructions, Code
<1>5. inst \in Instructions(module, Function, "call")
  BY InReach
<1>6. <<inst.call, funcRetValue[f]>> \in ReturnCopies(module, Function, S)
  <2>1. PICK ret \in Instructions(module, {f}, "ret") : ret.value = funcRetValue[f]
    BY <1>4
  <2> DEFINE Returned(c, g) == {<<c.call, r.value>> : r \in Instructions(module, {g}, "ret")}
             Results(c) == UNION {Returned(c, g) :
                                    g \in Callees(module, S, c) \cap module.returnsFuncPtr}
  <2>2. <<inst.call, funcRetValue[f]>> \in Returned(inst, f)
    BY <2>1
  <2>3. <<inst.call, funcRetValue[f]>> \in Results(inst)
    <3> HIDE DEF Returned
    <3> QED
      BY <1>1, <2>2
  <2>4. ReturnCopies(module, Function, S)
            = UNION {Results(c) : c \in Instructions(module, Function, "call")}
    BY DEF ReturnCopies
  <2> HIDE DEF Results
  <2> QED
    BY <1>5, <2>3, <2>4
<1>7. <<inst.call, funcRetValue[f]>> \in Copies(module, Function, S)
  BY <1>6 DEF Copies
<1> QED
  BY <1>7, SolutionShape

LEMMA PhiRespected ==
    ASSUME BelowInv, AtInstruction("phi")
    PROVE  Respected(PhiPairs(Current[pc]))
<1> DEFINE inst == Current[pc]
<1> USE DEF BelowInv, Inv
<1> SUFFICES ASSUME NEW p \in PhiPairs(inst) PROVE S[p[2]] \subseteq S[p[1]]
  BY DEF Respected
<1> PICK u \in inst.operands : p = <<inst.phi, u>>
  BY DEF PhiPairs
<1>1. inst \in Instructions(module, Function, "phi")
  BY InReach
<1>2. <<inst.phi, u>> \in PhiCopies(module, Function)
  BY <1>1 DEF PhiCopies
<1>3. <<inst.phi, u>> \in Copies(module, Function, S)
  BY <1>2 DEF Copies
<1> QED
  BY <1>3, SolutionShape

(* One step at a time.                                                     *)
LEMMA CallBelow ==
    ASSUME BelowInv, AnalyseCall
    PROVE  Below'
<1> USE DEF BelowInv, Inv
<1> DEFINE inst == Current[pc]
           args == ArgumentPairs(inst)
           bound == (args \ EntityPairs(args)) \cup ReturnPairs(inst.call)
<1>1. AtInstruction("call") /\ ~TooManyArgs(inst) /\ UNCHANGED module
  BY DEF AnalyseCall, NextInstruction
<1>2. CallEffect(inst) /\ Recorded(inst.call)
  BY DEF AnalyseCall
<1>3. Respected(args) /\ Respected(ReturnPairs(inst.call))
  BY <1>1, ArgumentsRespected, ReturnsRespected
<1>4. Respected(bound) /\ Respected(EntityPairs(args))
  BY <1>3 DEF Respected, EntityPairs
<1>5. BindingsBelow' /\ ValuesBelow'
  BY <1>1, <1>2, <1>4, BindBelow, AssignBelow DEF CallEffect
<1>6. EdgesBelow'
  <2>1. inst.call \in module.pointer
    BY <1>1, CallShape
  <2>2. CASE IsDirect(inst.call)
    <3>1. module.operand[inst.call] \in S[module.operand[inst.call]]
      BY <2>2, SolutionShape DEF IsDirect
    <3> QED
      BY <1>1, <1>2, <2>1, <2>2, <3>1 DEF Recorded, EdgesBelow, Below, S, TypeOK
  <2>3. CASE ~IsDirect(inst.call)
    BY <1>1, <1>2, <2>3 DEF Recorded, EdgesBelow, Below, S
  <2> QED
    BY <2>2, <2>3
<1> QED
  BY <1>5, <1>6 DEF Below

LEMMA PhiBelow ==
    ASSUME BelowInv, AnalysePhi
    PROVE  Below'
<1> USE DEF BelowInv, Inv
<1> DEFINE pairs == PhiPairs(Current[pc])
<1>1. AtInstruction("phi") /\ UNCHANGED <<module, callGraphEdge>>
  BY DEF AnalysePhi, NextInstruction
<1>2. Assign(EntityPairs(pairs)) /\ Bind(pairs \ EntityPairs(pairs))
  BY DEF AnalysePhi
<1>3. Respected(pairs)
  BY <1>1, PhiRespected
<1>4. Respected(EntityPairs(pairs)) /\ Respected(pairs \ EntityPairs(pairs))
  BY <1>3 DEF Respected, EntityPairs
<1>5. BindingsBelow' /\ ValuesBelow'
  BY <1>1, <1>2, <1>4, BindBelow, AssignBelow
<1>6. EdgesBelow'
  BY <1>1 DEF EdgesBelow, Below, S
<1> QED
  BY <1>5, <1>6 DEF Below

LEMMA PropagateBelow ==
    ASSUME BelowInv, NEW p \in funcPtr, NEW q \in funcPtr, Propagate(p, q)
    PROVE  Below'
<1> USE DEF BelowInv, Inv
<1>1. p \in Value /\ q \in Value /\ q \in funcPtrBind[p]
  BY DEF Propagate, Lacks, TypeOK
<1>2. UNCHANGED <<module, funcPtrValue, callGraphEdge>>
  BY DEF Propagate
<1>3. BindingsBelow'
  <2> SUFFICES ASSUME NEW v \in Value, NEW b \in funcPtrBind'[v] PROVE S[b] \subseteq S[v]
    BY <1>2 DEF BindingsBelow, S, Value
  <2>1. b \in funcPtrBind[v] \/ (v = p /\ b \in funcPtrBind[q])
    BY <1>1 DEF Propagate, TypeOK
  <2> QED
    BY <1>1, <2>1 DEF Below, BindingsBelow
<1> QED
  BY <1>2, <1>3 DEF Below, ValuesBelow, EdgesBelow, S, Value

LEMMA ModifyBelow ==
    ASSUME BelowInv, ModifyCallGraph
    PROVE  Below'
<1> USE DEF BelowInv, Inv
<1>1. UNCHANGED <<module, funcPtrValue, funcPtrBind>>
  BY DEF ModifyCallGraph
<1>2. EdgesBelow'
  <2> SUFFICES ASSUME NEW c \in module.pointer
               PROVE  callGraphEdge'[c] \subseteq S[module.operand[c]]
    BY <1>1 DEF EdgesBelow, S
  <2>1. callGraphEdge'[c] \subseteq callGraphEdge[c] \cup Resolved(module.operand[c])
    BY DEF ModifyCallGraph
  <2>2. module.operand[c] \in Value
    BY ModuleShape DEF IsModule, Value
  <2> QED
    BY <2>1, <2>2, ResolvedBelow DEF Below, EdgesBelow
<1> QED
  BY <1>1, <1>2 DEF Below, ValuesBelow, BindingsBelow, S, Value

LEMMA StepBelow ==
    ASSUME BelowInv, [Next]_vars
    PROVE  Below'
<1>1. Step \/ UNCHANGED vars
  BY DEF Next
<1>2. CASE StartEntry \/ CallAborts \/ AnalyseRet \/ NextFunction \/ EndAnalysis
              \/ PrintResult \/ UNCHANGED vars
  <2>1. UNCHANGED <<module, funcPtrValue, funcPtrBind, callGraphEdge>>
    BY <1>2 DEF StartEntry, CallAborts, AnalyseRet, NextFunction, EndAnalysis, PrintResult,
                NextInstruction, vars, persistent
  <2> QED
    BY <2>1 DEF BelowInv, Below, ValuesBelow, BindingsBelow, EdgesBelow, S, Value
<1> QED
  BY <1>1, <1>2, CallBelow, PhiBelow, PropagateBelow, ModifyBelow DEF Step

(* No callee is reported that some flow-insensitive solution excludes:     *)
(* for every module and every solution of its copies, whatever calls are   *)
(* deferred or seen again in analyseFunction and buildCallGraph.           *)
THEOREM BelowSolutionAlways == Spec => []BelowSolution
<1>1. Init => BelowInv
  <2> SUFFICES ASSUME Init PROVE BelowInv
    OBVIOUS
  <2>1. Below
    BY DEF Init, Below, ValuesBelow, BindingsBelow, EdgesBelow
  <2> QED
    BY <2>1, InitTyped DEF BelowInv
<1>2. BelowInv /\ [Next]_vars => BelowInv'
  BY StepTyped, StepBelow DEF BelowInv
<1>3. BelowInv => BelowSolution
  BY ResolvedBelow DEF BelowInv, Below, EdgesBelow, BelowSolution, S
<1> QED
  BY <1>1, <1>2, <1>3, PTL DEF Spec

-----------------------------------------------------------------------------
(* The least flow of FuncPtrFlow.  LeastFrom extends what the entry points *)
(* give until nothing is added; whatever is closed under Extend and holds  *)
(* the entry points holds all it finds.                                    *)
Reached(m) == [reach : SUBSET m.function, flow : Flow(m)]

AtMost(m, s, t) ==
    /\ s.reach \subseteq t.reach
    /\ \A v \in FuncPtrValue(m) : s.flow[v] \subseteq t.flow[v]

IsClosed(m, c) == AtMost(m, Extend(m, c), c)

(* Other is no value of a module that is analysed.                         *)
Shaped(m) == IsModule(m) /\ Other \notin FuncPtrValue(m)

LEMMA InstructionShape ==
    ASSUME NEW m, Shaped(m), NEW reach \in SUBSET m.function, NEW op,
           NEW inst \in Instructions(m, reach, op)
    PROVE  /\ inst.op = op /\ inst \in Instruction(m)
           /\ \E f \in reach : \E i \in DOMAIN m.code[f] : inst = m.code[f][i]
<1>1. PICK f \in reach : inst \in {m.code[f][i] : i \in {j \in DOMAIN m.code[f] : m.code[f][j].op = op}}
  BY DEF Instructions
<1>2. PICK i \in DOMAIN m.code[f] : inst = m.code[f][i] /\ m.code[f][i].op = op
  BY <1>1
<1>3. m.code[f] \in Seq(Instruction(m))
  BY DEF Shaped, IsModule
<1>4. m.code[f][i] \in Instruction(m)
  BY <1>2, <1>3, ElementOfSeq, LenProperties
<1> QED
  BY <1>2, <1>4

LEMMA CalleesShape ==
    ASSUME NEW m, Shaped(m), NEW s \in Reached(m), NEW inst \in Instructions(m, s.reach, "call")
    PROVE  /\ inst.call \in m.pointer /\ inst.args \in Seq(FuncPtrValue(m))
           /\ Callees(m, s.flow, inst) \subseteq m.function
<1>1. s.reach \in SUBSET m.function /\ s.flow \in Flow(m)
  BY DEF Reached
<1>2. inst.op = "call" /\ inst \in Instruction(m)
  BY <1>1, InstructionShape
<1>3. inst.call \in m.pointer /\ inst.args \in Seq(FuncPtrValue(m))
  BY <1>2 DEF Instruction
<1>4. m.operand[inst.call] \in FuncPtrValue(m)
  BY <1>3 DEF Shaped, IsModule
<1> QED
  BY <1>1, <1>3, <1>4 DEF Callees, Flow

(* The returns of a function, as the provers take them best.               *)
Returns(m, f) == Instructions(m, {f}, "ret")

(* The copies of the module, one kind at a time.                           *)
LEMMA PhiCopy ==
    ASSUME NEW m, NEW reach, NEW copy
    PROVE  copy \in PhiCopies(m, reach) <=>
             \E phi \in Instructions(m, reach, "phi") : \E u \in phi.operands : copy = <<phi.phi, u>>
BY DEF PhiCopies

LEMMA ArgumentCopy ==
    ASSUME NEW m, NEW reach, NEW flow, NEW copy
    PROVE  copy \in ArgumentCopies(m, reach, flow) <=>
             \E inst \in Instructions(m, reach, "call") : \E f \in Callees(m, flow, inst) :
                \E i \in DOMAIN inst.args \cap DOMAIN m.params[f] :
                    copy = <<m.params[f][i], inst.args[i]>>
<1> DEFINE Of(inst, f) == {<<m.params[f][i], inst.args[i]>> :
                              i \in DOMAIN inst.args \cap DOMAIN m.params[f]}
           At(inst) == UNION {Of(inst, f) : f \in Callees(m, flow, inst)}
<1>1. ArgumentCopies(m, reach, flow) = UNION {At(inst) : inst \in Instructions(m, reach, "call")}
  BY DEF ArgumentCopies
<1>2. \A inst, f : copy \in Of(inst, f) <=>
          \E i \in DOMAIN inst.args \cap DOMAIN m.params[f] :
              copy = <<m.params[f][i], inst.args[i]>>
  OBVIOUS
<1>3. \A inst : copy \in At(inst) <=> \E f \in Callees(m, flow, inst) : copy \in Of(inst, f)
  <2> HIDE DEF Of
  <2> QED
    OBVIOUS
<1> HIDE DEF Of, At
<1> QED
  BY <1>1, <1>2, <1>3, Zenon

LEMMA ReturnCopy ==
    ASSUME NEW m, NEW reach, NEW flow, NEW copy
    PROVE  copy \in ReturnCopies(m, reach, flow) <=>
             \E inst \in Instructions(m, reach, "call") :
                \E f \in Callees(m, flow, inst) \cap m.returnsFuncPtr :
                   \E ret \in Returns(m, f) : copy = <<inst.call, ret.value>>
<1> DEFINE Of(inst, f) == {<<inst.call, ret.value>> : ret \in Returns(m, f)}
           At(inst) == UNION {Of(inst, f) : f \in Callees(m, flow, inst) \cap m.returnsFuncPtr}
<1>1. ReturnCopies(m, reach, flow) = UNION {At(inst) : inst \in Instructions(m, reach, "call")}
  BY DEF ReturnCopies, Returns
<1>2. \A inst, f : copy \in Of(inst, f) <=>
          \E ret \in Returns(m, f) : copy = <<inst.call, ret.value>>
  OBVIOUS
<1>3. \A inst : copy \in At(inst) <=>
          \E f \in Callees(m, flow, inst) \cap m.returnsFuncPtr : copy \in Of(inst, f)
  <2> HIDE DEF Of
  <2> QED
    OBVIOUS
<1> HIDE DEF Of, At
<1> QED
  BY <1>1, <1>2, <1>3, Zenon

LEMMA CopiesType ==
    ASSUME NEW m, Shaped(m), NEW s \in Reached(m), NEW copy \in Copies(m, s.reach, s.flow)
    PROVE  copy \in FuncPtrValue(m) \X FuncPtrValue(m)
<1>0. s.reach \in SUBSET m.function /\ s.flow \in Flow(m)
  BY DEF Reached
<1>1. CASE copy \in PhiCopies(m, s.reach)
  <2>1. PICK phi \in Instructions(m, s.reach, "phi") : \E u \in phi.operands : copy = <<phi.phi, u>>
    BY <1>1, PhiCopy
  <2>2. phi.op = "phi" /\ phi \in Instruction(m)
    BY <1>0, InstructionShape
  <2>3. phi.phi \in m.pointer /\ phi.operands \subseteq FuncPtrValue(m)
    BY <2>2 DEF Instruction
  <2> QED
    BY <2>1, <2>3 DEF FuncPtrValue
<1>2. CASE copy \in ArgumentCopies(m, s.reach, s.flow)
  <2>0. PICK inst \in Instructions(m, s.reach, "call") : \E f \in Callees(m, s.flow, inst) :
            \E i \in DOMAIN inst.args \cap DOMAIN m.params[f] :
                copy = <<m.params[f][i], inst.args[i]>>
    BY <1>2, ArgumentCopy
  <2> PICK f \in Callees(m, s.flow, inst) : \E i \in DOMAIN inst.args \cap DOMAIN m.params[f] :
                copy = <<m.params[f][i], inst.args[i]>>
    BY <2>0
  <2>1. PICK i \in DOMAIN inst.args \cap DOMAIN m.params[f] :
                copy = <<m.params[f][i], inst.args[i]>>
    OBVIOUS
  <2>2. inst.args \in Seq(FuncPtrValue(m)) /\ f \in m.function
    BY CalleesShape
  <2>3. m.params[f] \in Seq(m.pointer)
    BY <2>2 DEF Shaped, IsModule
  <2>4. m.params[f][i] \in m.pointer /\ inst.args[i] \in FuncPtrValue(m)
    BY <2>1, <2>2, <2>3, ElementOfSeq, LenProperties
  <2> QED
    BY <2>1, <2>4 DEF FuncPtrValue
<1>3. CASE copy \in ReturnCopies(m, s.reach, s.flow)
  <2>0. PICK inst \in Instructions(m, s.reach, "call") :
            \E f \in Callees(m, s.flow, inst) \cap m.returnsFuncPtr :
                \E ret \in Returns(m, f) : copy = <<inst.call, ret.value>>
    BY <1>3, ReturnCopy
  <2> PICK f \in Callees(m, s.flow, inst) \cap m.returnsFuncPtr :
                \E ret \in Returns(m, f) : copy = <<inst.call, ret.value>>
    BY <2>0
  <2>1. PICK ret \in Returns(m, f) : copy = <<inst.call, ret.value>>
    OBVIOUS
  <2>2. inst.call \in m.pointer /\ f \in m.function
    BY CalleesShape
  <2>3. /\ ret.op = "ret" /\ ret \in Instruction(m)
        /\ \E i \in DOMAIN m.code[f] : ret = m.code[f][i]
    <3>1. {f} \in SUBSET m.function
      BY <2>2
    <3> QED
      BY <3>1, InstructionShape DEF Returns
  <2>4. ret.value # Other
    BY <2>2, <2>3 DEF Shaped, IsModule
  <2>5. ret.value \in FuncPtrValue(m)
    BY <2>3, <2>4 DEF Instruction
  <2> QED
    BY <2>1, <2>2, <2>5 DEF FuncPtrValue
<1> QED
  BY <1>1, <1>2, <1>3 DEF Copies

LEMMA ExtendType ==
    ASSUME NEW m, Shaped(m), NEW s \in Reached(m)
    PROVE  Extend(m, s) \in Reached(m) /\ AtMost(m, s, Extend(m, s))
<1> DEFINE e == Extend(m, s)
<1>1. s.reach \in SUBSET m.function /\ s.flow \in Flow(m)
  BY DEF Reached
<1>2. e.reach \in SUBSET m.function /\ s.reach \subseteq e.reach
  BY <1>1, CalleesShape DEF Extend
<1>3. e.flow = [v \in FuncPtrValue(m) |->
                  s.flow[v] \cup UNION {s.flow[copy[2]] :
                      copy \in {c \in Copies(m, s.reach, s.flow) : c[1] = v}}]
  BY DEF Extend
<1>4. \A copy \in Copies(m, s.reach, s.flow) : s.flow[copy[2]] \subseteq m.function
  BY <1>1, CopiesType DEF Flow
<1>5. \A v \in FuncPtrValue(m) : e.flow[v] \subseteq m.function /\ s.flow[v] \subseteq e.flow[v]
  BY <1>1, <1>3, <1>4 DEF Flow
<1>6. e.flow \in Flow(m)
  BY <1>3, <1>5 DEF Flow
<1>7. e = [reach |-> e.reach, flow |-> e.flow]
  BY DEF Extend
<1>8. e \in Reached(m)
  <2> HIDE DEF e
  <2> QED
    BY <1>2, <1>6, <1>7 DEF Reached
<1> QED
  BY <1>2, <1>5, <1>8 DEF AtMost

(* More functions reached and a larger flow only add copies.               *)
LEMMA CopiesGrow ==
    ASSUME NEW m, Shaped(m), NEW s \in Reached(m), NEW t \in Reached(m), AtMost(m, s, t)
    PROVE  /\ \A op : Instructions(m, s.reach, op) \subseteq Instructions(m, t.reach, op)
           /\ \A inst \in Instructions(m, s.reach, "call") :
                 Callees(m, s.flow, inst) \subseteq Callees(m, t.flow, inst)
           /\ Copies(m, s.reach, s.flow) \subseteq Copies(m, t.reach, t.flow)
<1>1. \A op : Instructions(m, s.reach, op) \subseteq Instructions(m, t.reach, op)
  BY DEF Instructions, AtMost
<1>2. ASSUME NEW inst \in Instructions(m, s.reach, "call")
      PROVE  Callees(m, s.flow, inst) \subseteq Callees(m, t.flow, inst)
  <2>1. m.operand[inst.call] \in FuncPtrValue(m)
    BY CalleesShape DEF Shaped, IsModule
  <2> QED
    BY <2>1 DEF Callees, AtMost
<1>3. ASSUME NEW copy \in Copies(m, s.reach, s.flow)
      PROVE  copy \in Copies(m, t.reach, t.flow)
  <2>1. CASE copy \in PhiCopies(m, s.reach)
    <3>1. copy \in PhiCopies(m, t.reach)
      BY <1>1, <2>1, PhiCopy
    <3> QED
      BY <3>1 DEF Copies
  <2>2. CASE copy \in ArgumentCopies(m, s.reach, s.flow)
    <3>1. copy \in ArgumentCopies(m, t.reach, t.flow)
      BY <1>1, <1>2, <2>2, ArgumentCopy
    <3> QED
      BY <3>1 DEF Copies
  <2>3. CASE copy \in ReturnCopies(m, s.reach, s.flow)
    <3>1. PICK inst \in Instructions(m, s.reach, "call") :
              \E f \in Callees(m, s.flow, inst) \cap m.returnsFuncPtr :
                  \E ret \in Returns(m, f) : copy = <<inst.call, ret.value>>
      BY <2>3, ReturnCopy
    <3>2. /\ inst \in Instructions(m, t.reach, "call")
          /\ Callees(m, s.flow, inst) \cap m.returnsFuncPtr
                \subseteq Callees(m, t.flow, inst) \cap m.returnsFuncPtr
      BY <1>1, <1>2
    <3>3. copy \in ReturnCopies(m, t.reach, t.flow)
      BY <3>1, <3>2, ReturnCopy
    <3> QED
      BY <3>3 DEF Copies
  <2> QED
    BY <2>1, <2>2, <2>3 DEF Copies
<1> QED
  BY <1>1, <1>2, <1>3

LEMMA ExtendMonotone ==
    ASSUME NEW m, Shaped(m), NEW s \in Reached(m), NEW t \in Reached(m), AtMost(m, s, t)
    PROVE  AtMost(m, Extend(m, s), Extend(m, t))
<1> DEFINE Calls(r) == UNION {Callees(m, r.flow, inst) : inst \in Instructions(m, r.reach, "call")}
           Into(r, v) == UNION {r.flow[copy[2]] : copy \in {c \in Copies(m, r.reach, r.flow) : c[1] = v}}
<1>1. Calls(s) \subseteq Calls(t)
  BY CopiesGrow
<1>2. ASSUME NEW v \in FuncPtrValue(m)
      PROVE  Into(s, v) \subseteq Into(t, v)
  <2> SUFFICES ASSUME NEW copy \in Copies(m, s.reach, s.flow), copy[1] = v
               PROVE  s.flow[copy[2]] \subseteq Into(t, v)
    OBVIOUS
  <2>1. copy \in Copies(m, t.reach, t.flow) /\ copy[2] \in FuncPtrValue(m)
    BY CopiesGrow, CopiesType
  <2>2. s.flow[copy[2]] \subseteq t.flow[copy[2]]
    BY <2>1 DEF AtMost
  <2>3. t.flow[copy[2]] \subseteq Into(t, v)
    BY <2>1
  <2> QED
    BY <2>2, <2>3
<1>3. \A r : /\ Extend(m, r).reach = r.reach \cup Calls(r)
             /\ \A v \in FuncPtrValue(m) : Extend(m, r).flow[v] = r.flow[v] \cup Into(r, v)
  BY DEF Extend
<1> HIDE DEF Calls, Into
<1> QED
  BY <1>1, <1>2, <1>3 DEF AtMost
-----------------------------------------------------------------------------
(* The recursion of LeastFrom has a solution: what every closed pair above *)
(* has.                                                                    *)
Extended(m, s, g) == IF Extend(m, s) = s THEN s ELSE g[Extend(m, s)]

IsLeast(m, g) == g = [s \in Reached(m) |-> Extended(m, s, g)]

ClosedAbove(m, s) == {c \in Reached(m) : IsClosed(m, c) /\ AtMost(m, s, c)}

Meet(m, s) ==
    [reach |-> {f \in m.function : \A c \in ClosedAbove(m, s) : f \in c.reach},
     flow  |-> [v \in FuncPtrValue(m) |->
                   {f \in m.function : \A c \in ClosedAbove(m, s) : f \in c.flow[v]}]]

LEMMA AtMostOrder ==
    ASSUME NEW m, NEW s \in Reached(m), NEW t \in Reached(m)
    PROVE  /\ AtMost(m, s, s)
           /\ AtMost(m, s, t) /\ AtMost(m, t, s) => s = t
           /\ \A u \in Reached(m) : AtMost(m, s, t) /\ AtMost(m, t, u) => AtMost(m, s, u)
<1>1. ASSUME AtMost(m, s, t), AtMost(m, t, s) PROVE s = t
  <2>1. s.reach = t.reach
    BY <1>1 DEF AtMost
  <2>2. s.flow = t.flow
    BY <1>1 DEF AtMost, Reached, Flow
  <2> QED
    BY <2>1, <2>2 DEF Reached
<1>2. AtMost(m, s, s)
  BY DEF AtMost
<1>3. \A u \in Reached(m) : AtMost(m, s, t) /\ AtMost(m, t, u) => AtMost(m, s, u)
  BY DEF AtMost
<1> QED
  BY <1>1, <1>2, <1>3

LEMMA MeetExtends ==
    ASSUME NEW m, Shaped(m), NEW s \in Reached(m)
    PROVE  /\ Extend(m, s) = s => Meet(m, s) = s
           /\ Meet(m, s) = Meet(m, Extend(m, s))
<1>1. ASSUME Extend(m, s) = s PROVE Meet(m, s) = s
  <2>1. s \in ClosedAbove(m, s)
    BY <1>1, AtMostOrder DEF ClosedAbove, IsClosed
  <2>2. \A c \in ClosedAbove(m, s) :
            s.reach \subseteq c.reach /\ \A v \in FuncPtrValue(m) : s.flow[v] \subseteq c.flow[v]
    BY DEF ClosedAbove, AtMost
  <2>3. s.reach \subseteq m.function /\ s.flow \in [FuncPtrValue(m) -> SUBSET m.function]
    BY DEF Reached, Flow
  <2>4. Meet(m, s).reach = s.reach
    BY <2>1, <2>2, <2>3 DEF Meet
  <2>5. \A v \in FuncPtrValue(m) : Meet(m, s).flow[v] = s.flow[v]
    BY <2>1, <2>2, <2>3 DEF Meet
  <2>6. Meet(m, s).flow = s.flow
    BY <2>3, <2>5 DEF Meet
  <2>7. s = [reach |-> s.reach, flow |-> s.flow]
    BY DEF Reached
  <2>8. Meet(m, s) = [reach |-> Meet(m, s).reach, flow |-> Meet(m, s).flow]
    BY DEF Meet
  <2> QED
    BY <2>4, <2>6, <2>7, <2>8
<1>2. ClosedAbove(m, s) = ClosedAbove(m, Extend(m, s))
  <2>1. ASSUME NEW c \in Reached(m), IsClosed(m, c)
        PROVE  AtMost(m, s, c) <=> AtMost(m, Extend(m, s), c)
    <3>1. Extend(m, s) \in Reached(m) /\ Extend(m, c) \in Reached(m) /\ AtMost(m, s, Extend(m, s))
      BY ExtendType
    <3>2. AtMost(m, s, c) => AtMost(m, Extend(m, s), Extend(m, c))
      BY ExtendMonotone
    <3> QED
      BY <2>1, <3>1, <3>2, AtMostOrder DEF IsClosed
  <2> QED
    BY <2>1 DEF ClosedAbove
<1>3. Meet(m, s) = Meet(m, Extend(m, s))
  BY <1>2 DEF Meet
<1> QED
  BY <1>1, <1>3

LEMMA LeastExists ==
    ASSUME NEW m, Shaped(m)
    PROVE  \E g : IsLeast(m, g)
<1> DEFINE g == [s \in Reached(m) |-> Meet(m, s)]
<1>1. ASSUME NEW s \in Reached(m) PROVE Extended(m, s, g) = Meet(m, s)
  <2>1. g[Extend(m, s)] = Meet(m, Extend(m, s))
    BY ExtendType
  <2> HIDE DEF g
  <2> QED
    BY <2>1, MeetExtends DEF Extended
<1>2. g = [s \in Reached(m) |-> Extended(m, s, g)]
  <2>1. g = [s \in Reached(m) |-> Meet(m, s)]
    OBVIOUS
  <2> HIDE DEF g
  <2> QED
    BY <1>1, <2>1
<1>3. IsLeast(m, g)
  <2> HIDE DEF g
  <2> QED
    BY <1>2 DEF IsLeast
<1> HIDE DEF g
<1> QED
  BY <1>3

(* What is still missing from a pair gets less with every extension.       *)
Missing(m, s) ==
    {t \in {1, 2} \X (FuncPtrValue(m) \X m.function) :
        \/ t[1] = 1 /\ t[2][2] \notin s.reach
        \/ t[1] = 2 /\ t[2][2] \notin s.flow[t[2][1]]}

LEMMA MissingLess ==
    ASSUME NEW m, NEW s \in Reached(m), NEW t \in Reached(m), AtMost(m, s, t)
    PROVE  /\ Missing(m, t) \subseteq Missing(m, s)
           /\ Missing(m, t) = Missing(m, s) => s = t
<1>1. Missing(m, t) \subseteq Missing(m, s)
  BY DEF Missing, AtMost
<1>2. ASSUME Missing(m, t) = Missing(m, s) PROVE AtMost(m, t, s)
  <2>1. ASSUME NEW f \in t.reach PROVE f \in s.reach
    <3>1. f \in m.function
      BY DEF Reached
    <3>2. <<1, <<f, f>>>> \in {1, 2} \X (FuncPtrValue(m) \X m.function)
      BY <3>1 DEF FuncPtrValue
    <3>3. <<1, <<f, f>>>> \notin Missing(m, t)
      BY DEF Missing
    <3> QED
      BY <1>2, <3>2, <3>3 DEF Missing
  <2>2. ASSUME NEW v \in FuncPtrValue(m), NEW f \in t.flow[v] PROVE f \in s.flow[v]
    <3>1. f \in m.function
      BY DEF Reached, Flow
    <3>2. <<2, <<v, f>>>> \in {1, 2} \X (FuncPtrValue(m) \X m.function)
      BY <3>1
    <3>3. <<2, <<v, f>>>> \notin Missing(m, t)
      BY DEF Missing
    <3> QED
      BY <1>2, <3>2, <3>3 DEF Missing
  <2> QED
    BY <2>1, <2>2 DEF AtMost
<1> QED
  BY <1>1, <1>2, AtMostOrder

LEMMA MissingFinite ==
    ASSUME NEW m, Shaped(m)
    PROVE  \A s \in Reached(m) : IsFiniteSet(Missing(m, s))
<1> DEFINE all == {1, 2} \X (FuncPtrValue(m) \X m.function)
<1>1. IsFiniteSet(m.function) /\ IsFiniteSet(m.pointer)
  BY DEF Shaped, IsModule
<1>2. IsFiniteSet(FuncPtrValue(m))
  BY <1>1, FS_Union, FS_Singleton DEF FuncPtrValue
<1>3. IsFiniteSet({1, 2})
  <2>1. IsFiniteSet({1}) /\ IsFiniteSet({2})
    BY FS_Singleton, Zenon
  <2>2. IsFiniteSet({1} \cup {2})
    BY <2>1, FS_Union
  <2>3. {1, 2} = {1} \cup {2}
    OBVIOUS
  <2> QED
    BY <2>2, <2>3
<1>4. IsFiniteSet(all)
  BY <1>1, <1>2, <1>3, FS_Product
<1>5. \A s : Missing(m, s) \subseteq all
  BY DEF Missing
<1> HIDE DEF all
<1> QED
  BY <1>4, <1>5, FS_Subset

(* What LeastFrom computes, the flow CalleesFound compares with, lies below *)
(* everything that holds the entry points and is closed under the copies    *)
(* and calls analyseFunction follows.                                      *)
THEOREM LeastFromBelow ==
    ASSUME NEW m, Shaped(m), NEW entries \in SUBSET m.function,
           NEW c \in Reached(m), IsClosed(m, c),
           entries \subseteq c.reach, \A f \in m.function : f \in c.flow[f]
    PROVE  LeastFrom(m, entries) \in Reached(m) /\ AtMost(m, LeastFrom(m, entries), c)
<1> DEFINE g == CHOOSE h : IsLeast(m, h)
           start == [reach |-> entries, flow |-> [v \in FuncPtrValue(m) |-> {v} \cap m.function]]
<1>1. IsLeast(m, g)
  BY LeastExists, Zenon
<1>2. LeastFrom(m, entries) = g[start]
  BY Zenon DEF LeastFrom, IsLeast, Extended, Reached
<1>3. start \in Reached(m) /\ AtMost(m, start, c)
  BY DEF Reached, Flow, AtMost
<1> HIDE DEF g, start
<1> DEFINE Good(s) == g[s] \in Reached(m) /\ AtMost(m, g[s], c)
           Bad == {s \in Reached(m) : AtMost(m, s, c) /\ ~Good(s)}
           Left == {Missing(m, s) : s \in Bad}
           all == {1, 2} \X (FuncPtrValue(m) \X m.function)
<1>4. ASSUME NEW s \in Bad
      PROVE  Extend(m, s) \in Bad /\ Extend(m, s) # s /\ AtMost(m, s, Extend(m, s))
  <2>1. s \in Reached(m) /\ AtMost(m, s, c) /\ ~Good(s)
    OBVIOUS
  <2>2. g[s] = Extended(m, s, g)
    BY <1>1, <2>1 DEF IsLeast
  <2>3. Extend(m, s) # s
    BY <2>1, <2>2 DEF Extended
  <2>4. g[s] = g[Extend(m, s)]
    BY <2>2, <2>3 DEF Extended
  <2>5. Extend(m, s) \in Reached(m) /\ AtMost(m, s, Extend(m, s))
    BY <2>1, ExtendType
  <2>6. AtMost(m, Extend(m, s), c)
    <3>1. AtMost(m, Extend(m, s), Extend(m, c)) /\ Extend(m, c) \in Reached(m)
      BY <2>1, ExtendMonotone, ExtendType
    <3> QED
      BY <2>5, <3>1, AtMostOrder DEF IsClosed
  <2> QED
    BY <2>1, <2>3, <2>4, <2>5, <2>6
<1>5. Bad \subseteq Reached(m)
  OBVIOUS
<1> HIDE DEF Bad
<1>6. Left \subseteq FiniteSubsetsOf(all)
  BY <1>5, MissingFinite DEF FiniteSubsetsOf, Missing
<1>7. Bad = {}
  <2> SUFFICES ASSUME Bad # {} PROVE FALSE
    OBVIOUS
  <2>1. Left # {}
    OBVIOUS
  <2>2. IsWellFoundedOn(StrictSubsetOrdering(all), FiniteSubsetsOf(all))
    BY FS_StrictSubsetOrderingWellFounded
  <2>3. PICK x \in Left : \A y \in Left : ~(<<y, x>> \in StrictSubsetOrdering(all))
    <3> HIDE DEF Left, all
    <3> QED
      BY <1>6, <2>1, <2>2, WFMin
  <2>4. PICK s \in Bad : x = Missing(m, s)
    OBVIOUS
  <2> DEFINE y == Missing(m, Extend(m, s))
  <2>5. y \in Left
    BY <1>4
  <2>6. y \subseteq x /\ y # x
    BY <1>4, <1>5, <2>4, MissingLess
  <2>7. x \in SUBSET all /\ y \in SUBSET all
    BY <2>4 DEF Missing
  <2> HIDE DEF y, all, Left
  <2>8. <<y, x>> \in StrictSubsetOrdering(all)
    BY <2>6, <2>7 DEF StrictSubsetOrdering
  <2> QED
    BY <2>3, <2>5, <2>8
<1>8. Good(start)
  BY <1>3, <1>7 DEF Bad
<1> QED
  BY <1>2, <1>8

-----------------------------------------------------------------------------
(* Why no callee is missed: in a round that has changed nothing so far,    *)
(* what each instruction visited would record is there already.            *)
Copied(p) == p[2] \in (IF p[2] \in Function THEN funcPtrValue[p[1]] ELSE funcPtrBind[p[1]])

CallDone(inst) ==
    /\ IF IsDirect(inst.call)
       THEN module.operand[inst.call] \in callGraphEdge[inst.call]
       ELSE inst.call \in funcCall /\ module.operand[inst.call] \in funcPtr
    /\ \A p \in ArgumentPairs(inst) : Copied(p)
    /\ ~Defers(inst.call)
    /\ \A p \in ReturnPairs(inst.call) : p[2] \in funcPtrBind[p[1]]

PhiDone(inst) == \A p \in PhiPairs(inst) : Copied(p)

(* The callee of a direct call is in R, the functions reached.             *)
InstDone(inst, R) ==
    /\ inst.op = "call" => /\ CallDone(inst)
                           /\ IsDirect(inst.call) => module.operand[inst.call] \in R
    /\ inst.op = "phi" => PhiDone(inst)

FuncDone(f, R) == \A i \in DOMAIN Code(f) : InstDone(Code(f)[i], R)

(* The functions in R are done, and call none outside R but these more.    *)
Covers(R, more) ==
    /\ \A f \in R : FuncDone(f, R \cup more)
    /\ \A c \in funcCall : Resolved(module.operand[c]) \subseteq R \cup more

Settled ==
    /\ BindingsClosed
    /\ \A c \in funcCall : Resolved(module.operand[c]) \subseteq callGraphEdge[c]

(* Bindings lead to known function pointers, and only a pointer has any.   *)
Bound ==
    \A v \in Value :
        /\ funcPtrBind[v] \subseteq funcPtr
        /\ v \notin module.pointer => funcPtrBind[v] = {} /\ funcPtrValue[v] = {}

Known == ToSet(reachedFunc)

(* R was done by an earlier entry point.                                   *)
SomeCovered == \E R \in SUBSET Function : Covers(R, Known)

SoFarDone ==
    /\ \A i \in 1 .. at - 1 : FuncDone(reachedFunc[i], Known)
    /\ phase = "analyse" => \A j \in DOMAIN Current : j < pc => InstDone(Current[j], Known)
    /\ phase = "bind" => at = roundEnd /\ FuncDone(reachedFunc[at], Known)

Unchanged == Settled /\ roundEnd = Len(reachedFunc) /\ SomeCovered /\ SoFarDone

InRound ==
    phase \in {"analyse", "bind"} =>
        /\ reachedFunc[1] = module.order[entry]
        /\ ~callGraphChanged => Unchanged

Between ==
    phase = "main" =>
        /\ Settled
        /\ \E R \in SUBSET Function :
              /\ Covers(R, {})
              /\ entry > 1 => module.order[entry - 1] \in R

FoundInv == Inv /\ Bound /\ InRound /\ Between

-----------------------------------------------------------------------------
(* Only pointers are bound or assigned to.                                 *)
FromPointer(pairs) == \A p \in pairs : p[1] \in module.pointer

LEMMA ArgumentFrom ==
    ASSUME TypeOK, AtInstruction("call"), ~TooManyArgs(Current[pc])
    PROVE  FromPointer(ArgumentPairs(Current[pc]))
<1> DEFINE inst == Current[pc]
<1> SUFFICES ASSUME NEW f \in CalledFuncs(inst.call), NEW i \in DOMAIN inst.args
             PROVE  module.params[f][i] \in module.pointer
  BY DEF ArgumentPairs, FromPointer
<1>1. i \in DOMAIN module.params[f]
  BY DEF TooManyArgs
<1>2. module.params[f] \in Seq(module.pointer)
  BY CallShape, CalledType, ModuleShape DEF IsModule, Function
<1> QED
  BY <1>1, <1>2, ElementOfSeq, LenProperties

LEMMA BoundAfter ==
    ASSUME TypeOK, Bound, NEW bound, NEW assigned, Bind(bound), Assign(assigned),
           FromPointer(bound), FromPointer(assigned), UNCHANGED module,
           funcPtr \subseteq funcPtr', \A p \in bound : p[2] \in funcPtr'
    PROVE  Bound'
<1> SUFFICES ASSUME NEW v \in Value
             PROVE  /\ funcPtrBind'[v] \subseteq funcPtr'
                    /\ v \notin module.pointer => funcPtrBind'[v] = {} /\ funcPtrValue'[v] = {}
  BY DEF Bound, Value
<1>1. funcPtrBind'[v] = funcPtrBind[v] \cup {u \in Value : <<v, u>> \in bound}
  BY DEF Bind
<1>2. funcPtrValue'[v] = funcPtrValue[v] \cup {f \in Function : <<v, f>> \in assigned}
  BY DEF Assign
<1>3. v \notin module.pointer => \A u : <<v, u>> \notin bound /\ <<v, u>> \notin assigned
  BY DEF FromPointer
<1>4. \A u : <<v, u>> \in bound => u \in funcPtr'
  OBVIOUS
<1> QED
  BY <1>1, <1>2, <1>3, <1>4 DEF Bound

LEMMA StepBound ==
    ASSUME Inv, Bound, [Next]_vars
    PROVE  Bound'
<1> USE DEF Inv
<1>1. Step \/ UNCHANGED vars
  BY DEF Next
<1>2. CASE AnalyseCall
  <2> DEFINE inst == Current[pc]
             args == ArgumentPairs(inst)
             bound == (args \ EntityPairs(args)) \cup ReturnPairs(inst.call)
  <2>1. AtInstruction("call") /\ ~TooManyArgs(inst) /\ CallEffect(inst) /\ UNCHANGED module
    BY <1>2 DEF AnalyseCall, NextInstruction
  <2>2. FromPointer(args)
    BY <2>1, ArgumentFrom
  <2>3. FromPointer(bound) /\ FromPointer(EntityPairs(args))
    BY <2>1, <2>2, CallShape DEF FromPointer, EntityPairs, ReturnPairs
  <2>4. Bind(bound) /\ Assign(EntityPairs(args))
    BY <2>1 DEF CallEffect
  <2>5. funcPtr \subseteq funcPtr' /\ \A p \in bound : p[2] \in funcPtr'
    BY <2>1 DEF CallEffect
  <2> HIDE DEF bound, args, inst
  <2> QED
    BY <2>1, <2>3, <2>4, <2>5, BoundAfter
<1>3. CASE AnalysePhi
  <2> DEFINE pairs == PhiPairs(Current[pc])
             bound == pairs \ EntityPairs(pairs)
  <2>1. /\ AtInstruction("phi") /\ Bind(bound) /\ Assign(EntityPairs(pairs))
        /\ funcPtr' = funcPtr \cup BothOf(bound) /\ UNCHANGED module
    BY <1>3 DEF AnalysePhi, NextInstruction
  <2>2. FromPointer(pairs)
    BY <2>1, PhiShape DEF FromPointer, PhiPairs
  <2>3. FromPointer(bound) /\ FromPointer(EntityPairs(pairs))
    BY <2>2 DEF FromPointer, EntityPairs
  <2>4. funcPtr \subseteq funcPtr' /\ \A p \in bound : p[2] \in funcPtr'
    BY <2>1 DEF BothOf
  <2> HIDE DEF bound, pairs
  <2> QED
    BY <2>1, <2>3, <2>4, BoundAfter
<1>4. CASE \E p, q \in funcPtr : Propagate(p, q)
  <2>1. PICK p \in Value, q \in Value : Propagate(p, q)
    BY <1>4 DEF TypeOK
  <2>2. q \in funcPtrBind[p] /\ UNCHANGED <<module, funcPtr, funcPtrValue>>
    BY <2>1 DEF Propagate, Lacks
  <2>3. p \in module.pointer
    BY <2>2 DEF Bound
  <2>4. \A v \in Value : funcPtrBind'[v] = IF v = p THEN funcPtrBind[p] \cup funcPtrBind[q]
                                                    ELSE funcPtrBind[v]
    BY <2>1 DEF Propagate, TypeOK
  <2> QED
    BY <2>2, <2>3, <2>4 DEF Bound, Value
<1>5. CASE StartEntry \/ CallAborts \/ AnalyseRet \/ NextFunction \/ EndAnalysis
              \/ ModifyCallGraph \/ PrintResult \/ UNCHANGED vars
  <2>1. UNCHANGED <<module, funcPtr, funcPtrValue, funcPtrBind>>
    BY <1>5 DEF StartEntry, CallAborts, AnalyseRet, NextFunction, EndAnalysis, PrintResult,
                ModifyCallGraph, NextInstruction, vars, persistent
  <2> QED
    BY <2>1 DEF Bound, Value
<1> QED
  BY <1>1, <1>2, <1>3, <1>4, <1>5 DEF Step

-----------------------------------------------------------------------------
(* What is done stays done: nothing is taken back, and a return visited    *)
(* later is no return that a call done had to wait for.                    *)
Kept ==
    /\ UNCHANGED <<module, funcCall, funcPtr, funcPtrBind, funcPtrValue>>
    /\ \A c \in module.pointer : callGraphEdge[c] \subseteq callGraphEdge'[c]
    /\ \A f \in Function : funcRetValue[f] # NoValue => funcRetValue'[f] = funcRetValue[f]

LEMMA CallDoneKept ==
    ASSUME TypeOK, Kept, NEW inst, inst.call \in module.pointer, CallDone(inst)
    PROVE  CallDone(inst)'
<1>1. /\ CalledFuncs(inst.call)' = CalledFuncs(inst.call)
      /\ IsDirect(inst.call)' = IsDirect(inst.call)
  BY DEF Kept, CalledFuncs, IsDirect, Resolved, Function
<1>2. ArgumentPairs(inst)' = ArgumentPairs(inst)
  BY <1>1 DEF Kept, ArgumentPairs
<1>3. \A p : Copied(p)' = Copied(p)
  BY DEF Kept, Copied, Function
<1>4. ReturningCallees(inst.call)' = ReturningCallees(inst.call)
  BY <1>1 DEF Kept, ReturningCallees
<1>5. \A f \in ReturningCallees(inst.call) :
          f \in Function /\ funcRetValue[f] # NoValue /\ funcRetValue'[f] = funcRetValue[f]
  BY CalledType DEF CallDone, Defers, ReturningCallees, Kept
<1>6. ~Defers(inst.call)'
  BY <1>4, <1>5 DEF Defers
<1>7. ReturnPairs(inst.call)' = ReturnPairs(inst.call)
  <2>1. {g \in ReturningCallees(inst.call)' : funcRetValue'[g] # NoValue}
            = {g \in ReturningCallees(inst.call) : funcRetValue[g] # NoValue}
    BY <1>4, <1>5
  <2> QED
    BY <1>4, <1>5, <2>1 DEF ReturnPairs
<1>8. /\ funcPtrBind' = funcPtrBind /\ module' = module /\ funcCall' = funcCall
      /\ funcPtr' = funcPtr /\ callGraphEdge[inst.call] \subseteq callGraphEdge'[inst.call]
  BY DEF Kept
<1> QED
  BY <1>1, <1>2, <1>3, <1>6, <1>7, <1>8 DEF CallDone

LEMMA DoneKept ==
    ASSUME TypeOK, Kept, NEW inst \in Instruction(module), NEW R, NEW Q, R \subseteq Q,
           InstDone(inst, R)
    PROVE  InstDone(inst, Q)'
<1>1. CASE inst.op = "call"
  <2>1. inst.call \in module.pointer
    BY <1>1 DEF Instruction
  <2>2. CallDone(inst)'
    BY <1>1, <2>1, CallDoneKept DEF InstDone
  <2>3. IsDirect(inst.call)' = IsDirect(inst.call) /\ module' = module
    BY DEF Kept, IsDirect, Function
  <2> QED
    BY <1>1, <2>2, <2>3 DEF InstDone
<1>2. CASE inst.op = "phi"
  <2>1. \A p : Copied(p)' = Copied(p)
    BY DEF Kept, Copied, Function
  <2>2. PhiDone(inst)'
    BY <1>2, <2>1 DEF InstDone, PhiDone, PhiPairs
  <2> QED
    BY <1>2, <2>2 DEF InstDone
<1>3. CASE inst.op # "call" /\ inst.op # "phi"
  BY <1>3 DEF InstDone
<1> QED
  BY <1>1, <1>2, <1>3

LEMMA FuncDoneKept ==
    ASSUME TypeOK, Kept, NEW f \in Function, NEW R, NEW Q, R \subseteq Q, FuncDone(f, R)
    PROVE  FuncDone(f, Q)'
<1> SUFFICES ASSUME NEW i \in DOMAIN Code(f) PROVE InstDone(Code(f)[i], Q)'
  BY DEF FuncDone, Kept, Code
<1>1. PICK inst : inst = Code(f)[i]
  OBVIOUS
<1>2. inst \in Instruction(module)
  <2>1. Code(f) \in Seq(Instruction(module))
    BY ModuleShape DEF IsModule, Code, Function
  <2> QED
    BY <1>1, <2>1, ElementOfSeq, LenProperties
<1>3. Code(f)' = Code(f)
  BY DEF Kept, Code
<1>4. InstDone(inst, R)
  BY <1>1 DEF FuncDone
<1>5. InstDone(inst, Q)'
  BY <1>2, <1>4, DoneKept
<1> QED
  BY <1>1, <1>3, <1>5 DEF InstDone

LEMMA SettledKept ==
    ASSUME TypeOK, Kept, Settled
    PROVE  Settled'
<1>1. BindingsClosed'
  BY DEF Kept, Settled, BindingsClosed, Lacks
<1>2. \A c \in funcCall : c \in module.pointer
  BY DEF TypeOK
<1>3. \A v : Resolved(v)' = Resolved(v)
  BY DEF Kept, Resolved
<1> QED
  BY <1>1, <1>2, <1>3 DEF Settled, Kept

LEMMA CoversKept ==
    ASSUME TypeOK, Kept, NEW R \in SUBSET Function, NEW more, NEW others,
           more \subseteq others, Covers(R, more)
    PROVE  Covers(R, others)'
<1>1. \A v : Resolved(v)' = Resolved(v)
  BY DEF Kept, Resolved
<1>2. ASSUME NEW f \in R PROVE FuncDone(f, R \cup others)'
  <2>1. FuncDone(f, R \cup more) /\ f \in Function
    BY DEF Covers
  <2>2. R \cup more \subseteq R \cup others
    OBVIOUS
  <2> QED
    BY <2>1, <2>2, FuncDoneKept
<1> QED
  BY <1>1, <1>2 DEF Covers, Kept

-----------------------------------------------------------------------------
(* What is kept of a round.                                                *)
LEMMA FirstKept ==
    ASSUME TypeOK, phase \in {"analyse", "bind"}
    PROVE  /\ Len(reachedFunc) \in Nat /\ Len(reachedFunc) >= 1
           /\ \A f : AddIfNotExist(reachedFunc, f)[1] = reachedFunc[1]
           /\ \A new \in Seq(Function) : (reachedFunc \o new)[1] = reachedFunc[1]
<1>1. Len(reachedFunc) \in Nat /\ Len(reachedFunc) >= 1
  BY LenProperties DEF TypeOK
<1>2. ASSUME NEW f PROVE AddIfNotExist(reachedFunc, f)[1] = reachedFunc[1]
  <2>1. Append(reachedFunc, f)[1] = reachedFunc[1]
    BY <1>1, AppendProperties DEF TypeOK
  <2> QED
    BY <2>1 DEF AddIfNotExist
<1>3. \A new \in Seq(Function) : (reachedFunc \o new)[1] = reachedFunc[1]
  BY <1>1, ConcatProperties DEF TypeOK
<1> QED
  BY <1>1, <1>2, <1>3

LEMMA SomeCoveredKept ==
    ASSUME TypeOK, Kept, SomeCovered, Known \subseteq Known'
    PROVE  SomeCovered'
<1>1. PICK R \in SUBSET Function : Covers(R, Known)
  BY DEF SomeCovered
<1>2. PICK more : more = Known
  OBVIOUS
<1>3. PICK others : others = Known'
  OBVIOUS
<1>4. Covers(R, others)'
  BY <1>1, <1>2, <1>3, CoversKept
<1>5. Covers(R, Known)'
  BY <1>3, <1>4 DEF Covers
<1>6. R \in SUBSET Function'
  BY DEF Kept, Function
<1> QED
  BY <1>5, <1>6 DEF SomeCovered

LEMMA NthFuncKept ==
    ASSUME TypeOK, Kept, UNCHANGED reachedFunc, NEW i \in 1 .. Len(reachedFunc),
           FuncDone(reachedFunc[i], Known)
    PROVE  FuncDone(reachedFunc[i], Known)'
<1>1. PICK f, R : f = reachedFunc[i] /\ R = Known
  OBVIOUS
<1>2. f \in Function
  BY <1>1, ElementOfSeq DEF TypeOK
<1>3. FuncDone(f, R)'
  BY <1>1, <1>2, FuncDoneKept
<1>4. reachedFunc'[i] = f /\ Known' = R
  BY <1>1 DEF Known
<1> QED
  BY <1>3, <1>4

LEMMA NthInstKept ==
    ASSUME TypeOK, Kept, UNCHANGED <<reachedFunc, at>>, at \in 1 .. Len(reachedFunc),
           NEW j \in DOMAIN Current, InstDone(Current[j], Known)
    PROVE  InstDone(Current[j], Known)'
<1>1. PICK inst, R : inst = Current[j] /\ R = Known
  OBVIOUS
<1>2. inst \in Instruction(module)
  <2>1. reachedFunc[at] \in Function
    BY ElementOfSeq DEF TypeOK
  <2>2. Current \in Seq(Instruction(module))
    BY <2>1, ModuleShape DEF IsModule, Current, Code, Function
  <2> QED
    BY <1>1, <2>2, ElementOfSeq, LenProperties
<1>3. InstDone(inst, R)'
  BY <1>1, <1>2, DoneKept
<1>4. Current' = Current /\ Known' = R
  BY <1>1 DEF Kept, Current, Code, Known
<1> QED
  BY <1>1, <1>3, <1>4

(* A round goes on to the next instruction, with nothing changed.          *)
LEMMA NextDone ==
    ASSUME TypeOK, Kept, Unchanged, phase = "analyse",
           UNCHANGED <<reachedFunc, roundEnd, at, phase>>, pc' = pc + 1,
           InstDone(Current[pc], Known)
    PROVE  Unchanged'
<1>1. Settled' /\ SomeCovered' /\ roundEnd' = Len(reachedFunc')
  BY SettledKept, SomeCoveredKept DEF Unchanged, Known
<1>2. at \in 1 .. Len(reachedFunc) /\ Len(reachedFunc) \in Nat
  BY LenProperties DEF TypeOK
<1>3. ASSUME NEW i \in 1 .. at - 1 PROVE FuncDone(reachedFunc[i], Known)'
  BY <1>2, NthFuncKept DEF Unchanged, SoFarDone
<1>4. ASSUME NEW j \in DOMAIN Current, j < pc + 1 PROVE InstDone(Current[j], Known)'
  <2>1. j < pc \/ j = pc
    <3>1. reachedFunc[at] \in Function
      BY <1>2, ElementOfSeq DEF TypeOK
    <3>2. Current \in Seq(Instruction(module))
      BY <3>1, ModuleShape DEF IsModule, Current, Code, Function
    <3>3. j \in Nat /\ pc \in Nat
      BY <3>2, LenProperties DEF TypeOK
    <3> QED
      BY <1>4, <3>3
  <2>2. InstDone(Current[j], Known)
    BY <2>1 DEF Unchanged, SoFarDone
  <2> QED
    BY <1>2, <2>2, NthInstKept
<1>5. Current' = Current
  BY DEF Kept, Current, Code
<1>6. SoFarDone'
  BY <1>3, <1>4, <1>5 DEF SoFarDone
<1> QED
  BY <1>1, <1>6 DEF Unchanged

LEMMA SameKept ==
    ASSUME UNCHANGED <<module, callGraphEdge, funcCall, funcPtr, funcPtrBind, funcPtrValue,
                       funcRetValue>>
    PROVE  Kept
BY DEF Kept

-----------------------------------------------------------------------------
(* One step at a time.                                                     *)
LEMMA CallFound ==
    ASSUME Inv, InRound, AnalyseCall
    PROVE  InRound'
<1> USE DEF Inv
<1> DEFINE inst == Current[pc]
           args == ArgumentPairs(inst)
           bound == (args \ EntityPairs(args)) \cup ReturnPairs(inst.call)
<1>1. AtInstruction("call") /\ ~TooManyArgs(inst) /\ CallEffect(inst) /\ Recorded(inst.call)
  BY DEF AnalyseCall
<1>2. /\ phase = "analyse" /\ pc <= Len(Current) /\ pc' = pc + 1
      /\ UNCHANGED <<module, entry, roundEnd, at, phase, funcRetValue>>
  BY <1>1 DEF AnalyseCall, NextInstruction, AtInstruction
<1>3. reachedFunc'[1] = reachedFunc[1]
  <2>1. reachedFunc' = reachedFunc \/ reachedFunc' = AddIfNotExist(reachedFunc, module.operand[inst.call])
    BY <1>1 DEF Recorded
  <2> QED
    BY <1>2, <2>1, FirstKept
<1>4. ASSUME ~callGraphChanged' PROVE Unchanged'
  <2>1. /\ ~callGraphChanged /\ ~Defers(inst.call)
        /\ UNCHANGED <<callGraphEdge, reachedFunc, funcCall, funcPtr, funcPtrBind, funcPtrValue>>
    BY <1>4 DEF AnalyseCall, Progressed
  <2>2. inst.call \in module.pointer /\ module.operand[inst.call] \in Value
    BY <1>1, CallShape
  <2>3. args \subseteq Value \X Value /\ bound \subseteq Value \X Value
    BY <1>1, ArgumentPairsType, ReturnPairsType
  <2>4. \A p \in bound : p[2] \in funcPtrBind[p[1]]
    <3> SUFFICES ASSUME NEW p \in bound PROVE p[2] \in funcPtrBind[p[1]]
      OBVIOUS
    <3>1. p[1] \in Value /\ p[2] \in Value /\ <<p[1], p[2]>> \in bound
      BY <2>3
    <3>2. p[2] \in funcPtrBind'[p[1]]
      <4>1. Bind(bound)
        BY <1>1 DEF CallEffect
      <4> HIDE DEF bound
      <4> QED
        BY <3>1, <4>1 DEF Bind
    <3> QED
      BY <2>1, <3>2
  <2>5. \A p \in EntityPairs(args) : p[2] \in funcPtrValue[p[1]]
    <3> SUFFICES ASSUME NEW p \in EntityPairs(args) PROVE p[2] \in funcPtrValue[p[1]]
      OBVIOUS
    <3>1. p[1] \in Value /\ p[2] \in Function /\ <<p[1], p[2]>> \in EntityPairs(args)
      BY <2>3 DEF EntityPairs
    <3>2. p[2] \in funcPtrValue'[p[1]]
      <4>1. Assign(EntityPairs(args))
        BY <1>1 DEF CallEffect
      <4> HIDE DEF args
      <4> QED
        BY <3>1, <4>1 DEF Assign
    <3> QED
      BY <2>1, <3>2
  <2>6. \A p \in args : Copied(p)
    BY <2>4, <2>5 DEF Copied, EntityPairs
  <2>7. IF IsDirect(inst.call)
        THEN module.operand[inst.call] \in callGraphEdge[inst.call]
             /\ module.operand[inst.call] \in Known
        ELSE inst.call \in funcCall /\ module.operand[inst.call] \in funcPtr
    <3>1. CASE IsDirect(inst.call)
      <4>1. module.operand[inst.call] \in callGraphEdge[inst.call]
        BY <1>1, <2>1, <2>2, <3>1 DEF Recorded, TypeOK
      <4>2. reachedFunc = AddIfNotExist(reachedFunc, module.operand[inst.call])
        BY <1>1, <2>1, <3>1 DEF Recorded
      <4>3. module.operand[inst.call] \in ToSet(reachedFunc)
        <5>1. Len(Append(reachedFunc, module.operand[inst.call])) # Len(reachedFunc)
          BY LenProperties, AppendProperties, <2>2 DEF TypeOK
        <5> QED
          BY <4>2, <5>1 DEF AddIfNotExist
      <4> QED
        BY <3>1, <4>1, <4>3 DEF Known
    <3>2. CASE ~IsDirect(inst.call)
      <4>1. inst.call \in funcCall'
        BY <1>1, <3>2 DEF Recorded
      <4>2. module.operand[inst.call] \in funcPtr'
        BY <1>1, <3>2 DEF CallEffect
      <4> QED
        BY <2>1, <3>2, <4>1, <4>2
    <3> QED
      BY <3>1, <3>2
  <2>8. \A p \in ReturnPairs(inst.call) : p[2] \in funcPtrBind[p[1]]
    BY <2>4
  <2>9. CallDone(inst)
    BY <2>1, <2>6, <2>7, <2>8 DEF CallDone
  <2>10. InstDone(inst, Known)
    <3>1. inst.op = "call"
      BY <1>1 DEF AtInstruction
    <3> QED
      BY <2>7, <2>9, <3>1 DEF InstDone
  <2>11. Kept
    BY <1>2, <2>1, SameKept
  <2> QED
    BY <1>2, <1>4, <2>1, <2>10, <2>11, NextDone DEF InRound
<1> QED
  BY <1>2, <1>3, <1>4 DEF InRound

LEMMA PhiFound ==
    ASSUME Inv, InRound, AnalysePhi
    PROVE  InRound'
<1> USE DEF Inv
<1> DEFINE inst == Current[pc]
           pairs == PhiPairs(inst)
           bound == pairs \ EntityPairs(pairs)
<1>1. /\ AtInstruction("phi") /\ Assign(EntityPairs(pairs)) /\ Bind(bound)
      /\ callGraphChanged' = (callGraphChanged \/ Progressed)
      /\ UNCHANGED <<callGraphEdge, reachedFunc, funcCall, funcRetValue>>
  BY DEF AnalysePhi
<1>2. /\ phase = "analyse" /\ pc' = pc + 1 /\ inst.op = "phi"
      /\ UNCHANGED <<module, entry, roundEnd, at, phase>>
  BY <1>1 DEF AnalysePhi, NextInstruction, AtInstruction
<1>3. ASSUME ~callGraphChanged' PROVE Unchanged'
  <2>1. ~callGraphChanged /\ UNCHANGED <<funcPtr, funcPtrBind, funcPtrValue>>
    BY <1>1, <1>3 DEF Progressed
  <2>2. inst.phi \in Value /\ inst.operands \subseteq Value
    BY <1>1, PhiShape DEF Value, FuncPtrValue
  <2>3. pairs \subseteq Value \X Value
    BY <2>2 DEF PhiPairs
  <2>4. ASSUME NEW p \in bound PROVE p[2] \in funcPtrBind[p[1]]
    <3>1. p[1] \in Value /\ p[2] \in Value /\ <<p[1], p[2]>> \in bound
      BY <2>3
    <3> HIDE DEF bound
    <3> QED
      BY <1>1, <2>1, <3>1 DEF Bind
  <2>5. ASSUME NEW p \in EntityPairs(pairs) PROVE p[2] \in funcPtrValue[p[1]]
    <3>1. p[1] \in Value /\ p[2] \in Function /\ <<p[1], p[2]>> \in EntityPairs(pairs)
      BY <2>3 DEF EntityPairs
    <3> HIDE DEF pairs
    <3> QED
      BY <1>1, <2>1, <3>1 DEF Assign
  <2>6. \A p \in pairs : Copied(p)
    BY <2>4, <2>5 DEF Copied, EntityPairs
  <2>7. InstDone(inst, Known)
    BY <1>2, <2>6 DEF InstDone, PhiDone
  <2>8. Kept
    BY <1>1, <1>2, <2>1, SameKept
  <2> QED
    BY <1>1, <1>2, <2>1, <2>7, <2>8, NextDone DEF InRound
<1> QED
  BY <1>1, <1>2, <1>3 DEF InRound

LEMMA RetFound ==
    ASSUME Inv, InRound, AnalyseRet
    PROVE  InRound'
<1> USE DEF Inv
<1>1. /\ AtInstruction("ret") /\ phase = "analyse" /\ pc' = pc + 1 /\ Current[pc].op = "ret"
      /\ UNCHANGED <<module, entry, reachedFunc, roundEnd, at, phase, callGraphChanged,
                     callGraphEdge, funcPtr, funcCall, funcPtrBind, funcPtrValue>>
  BY DEF AnalyseRet, NextInstruction, AtInstruction
<1>2. Kept
  <2>1. \A f \in Function : funcRetValue[f] # NoValue => funcRetValue'[f] = funcRetValue[f]
    BY DEF AnalyseRet, TypeOK
  <2> QED
    BY <1>1, <2>1 DEF Kept
<1>3. InstDone(Current[pc], Known)
  BY <1>1 DEF InstDone
<1>4. ~callGraphChanged' => Unchanged'
  BY <1>1, <1>2, <1>3, NextDone DEF InRound
<1> QED
  BY <1>1, <1>4 DEF InRound

LEMMA StartFound ==
    ASSUME Inv, Between, StartEntry
    PROVE  InRound'
<1> USE DEF Inv
<1>1. /\ phase = "main" /\ reachedFunc' = <<module.order[entry]>> /\ BeginRound
      /\ UNCHANGED <<module, entry, persistent, status>>
  BY DEF StartEntry
<1>2. Kept
  BY <1>1, SameKept DEF persistent
<1>3. PICK R \in SUBSET Function : Covers(R, {})
  BY <1>1 DEF Between
<1>4. SomeCovered'
  <2>1. PICK others : others = Known'
    OBVIOUS
  <2>2. Covers(R, others)'
    BY <1>2, <1>3, CoversKept
  <2>3. Covers(R, Known)'
    BY <2>1, <2>2 DEF Covers
  <2>4. R \in SUBSET Function'
    BY <1>2 DEF Kept, Function
  <2> QED
    BY <2>3, <2>4 DEF SomeCovered
<1>5. Settled'
  BY <1>1, <1>2, SettledKept DEF Between
<1>6. /\ roundEnd' = Len(reachedFunc') /\ at' = 1 /\ pc' = 1 /\ phase' = "analyse"
  BY <1>1 DEF BeginRound
<1>7. SoFarDone'
  <2>1. reachedFunc' \in Seq(Function) /\ at' \in 1 .. Len(reachedFunc') /\ UNCHANGED module
    <3>1. TypeOK'
      BY OthersTyped
    <3> QED
      BY <1>1, <1>6, <3>1 DEF TypeOK, Function
  <2>2. Current' \in Seq(Instruction(module))
    <3>1. reachedFunc'[at'] \in Function
      BY <2>1, ElementOfSeq
    <3> QED
      BY <2>1, <3>1, ModuleShape DEF IsModule, Current, Code, Function
  <2>3. \A j \in DOMAIN Current' : ~(j < 1)
    BY <2>2, LenProperties
  <2> QED
    BY <1>6, <2>3 DEF SoFarDone
<1>8. reachedFunc'[1] = module'.order[entry']
  BY <1>1
<1> QED
  BY <1>4, <1>5, <1>6, <1>7, <1>8 DEF InRound, Unchanged

LEMMA FunctionEndFound ==
    ASSUME Inv, InRound, NextFunction \/ EndAnalysis
    PROVE  InRound'
<1> USE DEF Inv
<1>1. /\ phase = "analyse" /\ pc > Len(Current)
      /\ UNCHANGED <<module, entry, reachedFunc, roundEnd, callGraphChanged, persistent>>
  BY DEF NextFunction, EndAnalysis
<1>2. Kept
  BY <1>1, SameKept DEF persistent
<1>3. reachedFunc'[1] = module'.order[entry']
  BY <1>1 DEF InRound
<1>4. ASSUME ~callGraphChanged PROVE Unchanged'
  <2>1. Unchanged
    BY <1>1, <1>4 DEF InRound
  <2>2. Settled' /\ SomeCovered' /\ roundEnd' = Len(reachedFunc')
    BY <1>1, <1>2, <2>1, SettledKept, SomeCoveredKept DEF Unchanged, Known
  <2>3. /\ at \in 1 .. Len(reachedFunc) /\ Len(reachedFunc) \in Nat
        /\ reachedFunc[at] \in Function /\ Current \in Seq(Instruction(module))
    <3>1. at \in 1 .. Len(reachedFunc) /\ Len(reachedFunc) \in Nat
      BY <1>1, LenProperties DEF TypeOK
    <3>2. reachedFunc[at] \in Function
      BY <3>1, ElementOfSeq DEF TypeOK
    <3> QED
      BY <3>1, <3>2, ModuleShape DEF IsModule, Current, Code, Function
  <2>4. FuncDone(reachedFunc[at], Known)
    <3>1. \A j \in DOMAIN Current : j < pc
      BY <1>1, <2>3, LenProperties DEF TypeOK
    <3> QED
      BY <1>1, <2>1, <3>1 DEF Unchanged, SoFarDone, FuncDone, Current
  <2>5. \A i \in 1 .. at : FuncDone(reachedFunc[i], Known)
    <3>1. \A i \in 1 .. at : i \in 1 .. at - 1 \/ i = at
      BY <2>3
    <3> QED
      BY <2>1, <2>4, <3>1 DEF Unchanged, SoFarDone
  <2>6. ASSUME NEW i \in 1 .. at PROVE FuncDone(reachedFunc[i], Known)'
    <3>1. i \in 1 .. Len(reachedFunc) /\ FuncDone(reachedFunc[i], Known)
      BY <2>3, <2>5
    <3> QED
      BY <1>1, <1>2, <3>1, NthFuncKept
  <2>7. SoFarDone'
    <3>1. CASE EndAnalysis
      <4>1. phase' = "bind" /\ at' = at /\ at' = roundEnd'
        BY <3>1 DEF EndAnalysis
      <4>2. FuncDone(reachedFunc[at], Known)'
        <5>1. PICK i \in 1 .. at : i = at
          BY <2>3
        <5> QED
          BY <2>6, <4>1, <5>1
      <4>3. \A i \in 1 .. at' - 1 : i \in 1 .. at
        <5>1. \A i \in 1 .. at - 1 : i \in 1 .. at
          BY <2>3
        <5> QED
          BY <4>1, <5>1
      <4> QED
        BY <2>6, <4>1, <4>2, <4>3 DEF SoFarDone
    <3>2. CASE NextFunction /\ at' = at + 1 /\ pc' = 1
      <4>1. phase' = "analyse" /\ \A i \in 1 .. at' - 1 : i \in 1 .. at
        BY <1>1, <2>3, <3>2 DEF NextFunction
      <4>2. Current' \in Seq(Instruction(module))
        <5>1. TypeOK' /\ phase' \in {"analyse", "bind"}
          BY <3>2, <4>1, OthersTyped
        <5>2. reachedFunc' \in Seq(Function) /\ at' \in 1 .. Len(reachedFunc')
          BY <1>1, <5>1, LenProperties DEF TypeOK, Function
        <5>3. reachedFunc'[at'] \in Function
          BY <5>2, ElementOfSeq
        <5> QED
          BY <1>1, <5>3, ModuleShape DEF IsModule, Current, Code, Function
      <4>3. \A j \in DOMAIN Current' : ~(j < pc')
        BY <3>2, <4>2, LenProperties
      <4> QED
        BY <2>6, <4>1, <4>3 DEF SoFarDone
    <3>3. CASE NextFunction /\ UNCHANGED <<at, pc>>
      <4>1. phase' = "analyse" /\ \A i \in 1 .. at' - 1 : i \in 1 .. at
        BY <1>1, <2>3, <3>3 DEF NextFunction
      <4>2. Current' = Current
        BY <1>1, <3>3 DEF Current, Code
      <4>3. ASSUME NEW j \in DOMAIN Current PROVE InstDone(Current[j], Known)'
        <5>1. InstDone(Current[j], Known)
          BY <2>4 DEF FuncDone, Current
        <5> QED
          BY <1>1, <1>2, <2>3, <3>3, <5>1, NthInstKept
      <4> QED
        BY <2>6, <4>1, <4>2, <4>3 DEF SoFarDone
    <3> QED
      BY <3>1, <3>2, <3>3 DEF NextFunction
  <2> QED
    BY <2>2, <2>7 DEF Unchanged
<1> QED
  BY <1>1, <1>3, <1>4 DEF InRound
LEMMA PropagateFound ==
    ASSUME Inv, InRound, NEW p \in funcPtr, NEW q \in funcPtr, Propagate(p, q)
    PROVE  InRound'
<1>1. /\ phase = "bind" /\ Lacks(p, q)
      /\ UNCHANGED <<module, entry, reachedFunc, phase, callGraphChanged>>
  BY DEF Propagate
<1>2. callGraphChanged
  BY <1>1 DEF InRound, Unchanged, Settled, BindingsClosed
<1> QED
  BY <1>1, <1>2 DEF InRound

(* The end of a round: the functions found are reached, and if it changed  *)
(* nothing, all that is reached is done.                                   *)
LEMMA ModifyKeeps ==
    ASSUME Inv, ModifyCallGraph
    PROVE  /\ Kept /\ Settled'
           /\ reachedFunc'[1] = reachedFunc[1]
           /\ \A c \in funcCall : Resolved(module.operand[c]) \subseteq Known'
<1> USE DEF Inv
<1> DEFINE found == (UNION {Resolved(module.operand[c]) : c \in funcCall}) \ ToSet(reachedFunc)
<1>1. /\ phase = "bind" /\ BindingsClosed
      /\ UNCHANGED <<module, funcPtr, funcCall, funcPtrBind, funcPtrValue, funcRetValue>>
      /\ callGraphEdge' = [c \in module.pointer |->
                            IF c \in funcCall
                            THEN callGraphEdge[c] \cup Resolved(module.operand[c])
                            ELSE callGraphEdge[c]]
  BY DEF ModifyCallGraph
<1>2. Kept
  BY <1>1 DEF Kept
<1>3. Settled'
  <2>1. BindingsClosed'
    BY <1>1 DEF BindingsClosed, Lacks
  <2>2. \A c \in funcCall : Resolved(module.operand[c]) \subseteq callGraphEdge'[c]
    BY <1>1 DEF TypeOK
  <2>3. \A v : Resolved(v)' = Resolved(v)
    BY <1>1 DEF Resolved
  <2> QED
    BY <1>1, <2>1, <2>2, <2>3 DEF Settled
<1>4. PICK new \in SetToSeqs(found) : reachedFunc' = reachedFunc \o new
  BY DEF ModifyCallGraph
<1>5. found \subseteq Function /\ IsFiniteSet(found) /\ Cardinality(found) \in Nat
  <2>1. \A c \in funcCall : Resolved(module.operand[c]) \subseteq Function
    BY ResolvedType, ModuleShape DEF TypeOK, IsModule, Value
  <2>2. found \subseteq Function
    BY <2>1
  <2>3. IsFiniteSet(found)
    BY <2>2, FS_Subset, ModuleShape DEF IsModule, Function
  <2> HIDE DEF found
  <2> QED
    BY <2>2, <2>3, FS_CardinalityType
<1> HIDE DEF found
<1>6. new \in Surjection(1 .. Cardinality(found), found)
  <2>1. new \in Injection(1 .. Cardinality(found), found)
    BY <1>4 DEF SetToSeqs, Injection, IsInjective
  <2>2. Cardinality(1 .. Cardinality(found)) = Cardinality(found)
    BY <1>5, FS_Interval
  <2> QED
    BY <1>5, <2>1, <2>2, FS_Injection
<1>7. /\ new \in Seq(Function) /\ Len(new) = Cardinality(found)
      /\ \A f \in found : \E i \in 1 .. Len(new) : new[i] = f
  <2>1. new \in [1 .. Cardinality(found) -> Function]
    BY <1>5, <1>6 DEF Surjection
  <2>2. new \in Seq(Function)
    BY <1>5, <2>1, SeqDef
  <2>3. Len(new) = Cardinality(found)
    BY <1>5, <2>1, <2>2, LenProperties
  <2> QED
    BY <1>6, <2>2, <2>3 DEF Surjection
<1>8. reachedFunc'[1] = reachedFunc[1]
  BY <1>1, <1>4, <1>7, FirstKept
<1>9. ToSet(reachedFunc) \subseteq Known' /\ found \subseteq Known'
  <2>1. /\ reachedFunc \in Seq(Function) /\ Len(reachedFunc) \in Nat /\ Len(new) \in Nat
        /\ DOMAIN reachedFunc = 1 .. Len(reachedFunc)
    BY <1>7, LenProperties DEF TypeOK
  <2>2. reachedFunc' \in Seq(Function) /\ Len(reachedFunc') = Len(reachedFunc) + Len(new)
    BY <1>4, <1>7, <2>1, ConcatProperties
  <2>3. DOMAIN reachedFunc' = 1 .. Len(reachedFunc) + Len(new)
    BY <2>2, LenProperties
  <2>4. ASSUME NEW i \in 1 .. Len(reachedFunc) PROVE reachedFunc[i] \in Known'
    <3>1. reachedFunc'[i] = reachedFunc[i] /\ i \in DOMAIN reachedFunc'
      BY <1>4, <1>7, <2>1, <2>3, ConcatProperties
    <3> QED
      BY <3>1 DEF Known, ToSet
  <2>5. ASSUME NEW i \in 1 .. Len(new) PROVE new[i] \in Known'
    <3>1. /\ Len(reachedFunc) + i \in DOMAIN reachedFunc'
          /\ reachedFunc'[Len(reachedFunc) + i] = new[i]
      BY <1>4, <1>7, <2>1, <2>3, ConcatProperties
    <3> QED
      BY <3>1 DEF Known, ToSet
  <2> QED
    BY <1>7, <2>1, <2>4, <2>5 DEF ToSet
<1>10. \A c \in funcCall : Resolved(module.operand[c]) \subseteq Known'
  BY <1>9 DEF found
<1> QED
  BY <1>2, <1>3, <1>8, <1>10

LEMMA ModifyFound ==
    ASSUME Inv, InRound, ModifyCallGraph
    PROVE  InRound' /\ Between'
<1> USE DEF Inv
<1>1. /\ Kept /\ Settled' /\ reachedFunc'[1] = reachedFunc[1] /\ phase = "bind"
      /\ \A c \in funcCall : Resolved(module.operand[c]) \subseteq Known'
  BY ModifyKeeps DEF ModifyCallGraph
<1>2. \A v : Resolved(v)' = Resolved(v)
  BY <1>1 DEF Kept, Resolved
<1>3. CASE callGraphChanged
  <2>1. BeginRound /\ UNCHANGED entry
    BY <1>3 DEF ModifyCallGraph
  <2>2. SomeCovered'
    <3>1. Covers({}, Known)'
      BY <1>1, <1>2 DEF Covers, Kept
    <3> QED
      BY <3>1 DEF SomeCovered
  <2>3. roundEnd' = Len(reachedFunc') /\ at' = 1 /\ pc' = 1 /\ phase' = "analyse"
    BY <2>1 DEF BeginRound
  <2>4. SoFarDone'
    <3>1. TypeOK' /\ phase' \in {"analyse", "bind"}
      BY <2>3, ModifyTyped
    <3>2. reachedFunc' \in Seq(Function) /\ at' \in 1 .. Len(reachedFunc') /\ UNCHANGED module
      BY <1>1, <3>1, LenProperties DEF TypeOK, Kept, Function
    <3>3. reachedFunc'[at'] \in Function
      BY <3>2, ElementOfSeq
    <3>4. Current' \in Seq(Instruction(module))
      BY <3>2, <3>3, ModuleShape DEF IsModule, Current, Code, Function
    <3>5. \A j \in DOMAIN Current' : ~(j < 1)
      BY <3>4, LenProperties
    <3> QED
      BY <2>3, <3>5 DEF SoFarDone
  <2>5. reachedFunc'[1] = module'.order[entry']
    BY <1>1, <2>1 DEF InRound, Kept
  <2> QED
    BY <1>1, <2>2, <2>3, <2>4, <2>5 DEF InRound, Between, Unchanged
<1>4. CASE ~callGraphChanged
  <2>1. phase' = "main" /\ entry' = entry + 1
    BY <1>4 DEF ModifyCallGraph
  <2>2. Unchanged
    BY <1>1, <1>4 DEF InRound
  <2>3. PICK R \in SUBSET Function : Covers(R, Known)
    BY <2>2 DEF Unchanged, SomeCovered
  <2>4. PICK reached : reached = Known
    OBVIOUS
  <2> DEFINE all == R \cup reached
  <2>5. ASSUME NEW f \in all PROVE FuncDone(f, all)'
    <3>1. f \in Function
      BY <2>4, ElementOfSeq, LenProperties DEF Known, ToSet, TypeOK
    <3>2. FuncDone(f, all)
      <4>1. CASE f \in R
        BY <2>3, <2>4, <4>1 DEF Covers
      <4>2. CASE f \in reached
        <5>1. PICK i \in 1 .. Len(reachedFunc) : f = reachedFunc[i]
          BY <2>4, <4>2, LenProperties DEF Known, ToSet, TypeOK
        <5>2. i \in 1 .. at - 1 \/ i = at
          BY <1>1, <2>2, <5>1 DEF Unchanged, SoFarDone, TypeOK
        <5>3. FuncDone(f, reached)
          BY <1>1, <2>2, <2>4, <5>1, <5>2 DEF Unchanged, SoFarDone
        <5> QED
          BY <5>3 DEF FuncDone, InstDone
      <4> QED
        BY <4>1, <4>2
    <3> HIDE DEF all
    <3> QED
      BY <1>1, <3>1, <3>2, FuncDoneKept
  <2>6. \A c \in funcCall : Resolved(module.operand[c]) \subseteq all
    BY <2>3, <2>4 DEF Covers
  <2>7. Covers(all, {})'
    <3>1. all \cup {} = all
      OBVIOUS
    <3> HIDE DEF all
    <3> QED
      BY <1>1, <1>2, <2>5, <2>6, <3>1 DEF Covers, Kept
  <2>8. all \in SUBSET Function'
    <3>1. reached \subseteq Function
      BY <2>4, ElementOfSeq, LenProperties DEF Known, ToSet, TypeOK
    <3> QED
      BY <1>1, <3>1 DEF Kept, Function
  <2>9. module'.order[entry' - 1] \in all
    <3>1. entry' - 1 = entry
      BY <2>1 DEF TypeOK
    <3>2. reachedFunc[1] \in reached
      BY <1>1, <2>4, FirstKept, LenProperties DEF Known, ToSet, TypeOK
    <3> QED
      BY <1>1, <3>1, <3>2 DEF InRound, Kept
  <2> HIDE DEF all
  <2> QED
    BY <1>1, <2>1, <2>7, <2>8, <2>9 DEF InRound, Between
<1> QED
  BY <1>3, <1>4

LEMMA StepFound ==
    ASSUME FoundInv, [Next]_vars
    PROVE  FoundInv'
<1> USE DEF FoundInv
<1>1. Inv' /\ Bound'
  BY StepTyped, StepBound
<1>2. Step \/ UNCHANGED vars
  BY DEF Next
<1>3. CASE AnalyseCall \/ AnalysePhi \/ AnalyseRet \/ NextFunction \/ EndAnalysis
  <2>1. InRound'
    BY <1>3, CallFound, PhiFound, RetFound, FunctionEndFound
  <2>2. phase' # "main"
    BY <1>3 DEF AnalyseCall, AnalysePhi, AnalyseRet, NextFunction, EndAnalysis, NextInstruction,
                AtInstruction
  <2> QED
    BY <1>1, <2>1, <2>2 DEF Between
<1>4. CASE StartEntry
  <2>1. InRound' /\ phase' = "analyse"
    BY <1>4, StartFound DEF StartEntry, BeginRound
  <2> QED
    BY <1>1, <2>1 DEF Between
<1>5. CASE \E p, q \in funcPtr : Propagate(p, q)
  <2>1. InRound' /\ phase' = "bind"
    BY <1>5, PropagateFound DEF Propagate
  <2> QED
    BY <1>1, <2>1 DEF Between
<1>6. CASE ModifyCallGraph
  BY <1>1, <1>6, ModifyFound
<1>7. CASE PrintResult
  BY <1>1, <1>7 DEF PrintResult, InRound, Between
<1>8. CASE CallAborts \/ UNCHANGED vars
  <2>1. UNCHANGED <<module, entry, reachedFunc, roundEnd, at, pc, callGraphChanged, callGraphEdge,
                    funcPtr, funcCall, funcPtrBind, funcPtrValue, funcRetValue, phase>>
    BY <1>8 DEF CallAborts, vars, persistent
  <2>2. Kept
    BY <2>1, SameKept
  <2>3. /\ Function' = Function /\ Known' = Known /\ Current' = Current
        /\ \A v : Resolved(v)' = Resolved(v)
        /\ BindingsClosed' = BindingsClosed
    BY <2>1 DEF Function, Known, Current, Code, Resolved, BindingsClosed, Lacks
  <2>4. \A inst, R : InstDone(inst, R)' = InstDone(inst, R)
    BY <2>1 DEF InstDone, CallDone, PhiDone, Copied, IsDirect, ArgumentPairs, CalledFuncs, Resolved,
                Defers, ReturnPairs, ReturningCallees, PhiPairs, Function
  <2>5. InRound'
    BY <2>1, <2>3, <2>4 DEF InRound, Unchanged, Settled, SomeCovered, Covers, SoFarDone, FuncDone, Code
  <2>6. Between'
    BY <2>1, <2>3, <2>4 DEF Between, Settled, Covers, FuncDone, Code
  <2> QED
    BY <1>1, <2>5, <2>6
<1> QED
  BY <1>2, <1>3, <1>4, <1>5, <1>6, <1>7, <1>8 DEF Step

LEMMA InitFound ==
    ASSUME Init
    PROVE  FoundInv
<1>1. Inv
  BY InitTyped
<1>2. Bound
  BY DEF Init, Bound
<1>3. InRound
  BY DEF Init, InRound
<1>4. Between
  <2>1. phase = "main" /\ entry = 1 /\ funcPtr = {} /\ funcCall = {}
    BY DEF Init
  <2>2. Settled /\ Covers({}, {})
    BY <2>1 DEF Settled, BindingsClosed, Covers
  <2> QED
    BY <2>1, <2>2 DEF Between
<1> QED
  BY <1>1, <1>2, <1>3, <1>4 DEF FoundInv

-----------------------------------------------------------------------------
(* What the pass has found is closed: a flow, from the functions done.     *)
Found ==
    [v \in Value |-> ({v} \cap Function) \cup Resolved(v)
                        \cup UNION {Resolved(b) : b \in funcPtrBind[v]}]

LEMMA FoundShape ==
    ASSUME TypeOK, Bound, BindingsClosed
    PROVE  /\ Found \in Flow(module)
           /\ \A f \in Function : Found[f] = {f}
           /\ Found[Null] = {}
           /\ \A v \in funcPtr : Found[v] = ({v} \cap Function) \cup Resolved(v)
<1>1. \A v \in Value : funcPtrBind[v] \subseteq Value
  BY DEF TypeOK
<1>2. \A v \in Value : Found[v] \subseteq Function
  BY <1>1, ResolvedType DEF Found
<1>3. Found \in Flow(module)
  BY <1>2 DEF Found, Flow, Value, Function
<1>4. ASSUME NEW v \in Value, v \notin module.pointer
      PROVE  Found[v] = {v} \cap Function
  BY <1>4 DEF Bound, Resolved, Found
<1>5. Function \cap module.pointer = {} /\ Null \notin module.pointer /\ Null \notin Function
  BY ModuleShape DEF IsModule, Function
<1>6. Function \subseteq Value /\ Null \in Value
  BY DEF Value, FuncPtrValue, Function
<1>7. ASSUME NEW v \in funcPtr PROVE Found[v] = ({v} \cap Function) \cup Resolved(v)
  <2>1. v \in Value
    BY DEF TypeOK
  <2>2. ASSUME NEW b \in funcPtrBind[v] PROVE Resolved(b) \subseteq Resolved(v)
    <3>1. b \in funcPtr
      BY <2>1 DEF Bound
    <3>2. b = v \/ funcPtrBind[b] \subseteq funcPtrBind[v]
      BY <3>1 DEF BindingsClosed, Lacks
    <3> QED
      BY <3>2 DEF Resolved
  <2> QED
    BY <2>1, <2>2 DEF Found
<1> QED
  BY <1>3, <1>4, <1>5, <1>6, <1>7

(* A copy that was carried out is respected.                               *)
LEMMA CopyRespected ==
    ASSUME TypeOK, Bound, BindingsClosed, NEW p \in Value \X Value,
           Copied(p) \/ (p[2] \notin Function /\ p[2] \in funcPtrBind[p[1]])
    PROVE  Found[p[2]] \subseteq Found[p[1]]
<1>1. CASE p[2] \in Function
  <2>1. p[2] \in funcPtrValue[p[1]]
    BY <1>1 DEF Copied
  <2>2. p[2] \in Found[p[1]]
    BY <2>1 DEF Found, Resolved
  <2> QED
    BY <1>1, <2>2, FoundShape
<1>2. CASE p[2] \notin Function
  <2>1. p[2] \in funcPtrBind[p[1]]
    BY <1>2 DEF Copied
  <2>2. p[2] \in funcPtr
    BY <2>1 DEF Bound
  <2>3. Found[p[2]] = Resolved(p[2])
    <3>1. Found[p[2]] = ({p[2]} \cap Function) \cup Resolved(p[2])
      BY <2>2, FoundShape
    <3>2. {p[2]} \cap Function = {}
      BY <1>2
    <3> QED
      BY <3>1, <3>2
  <2> QED
    BY <2>1, <2>3 DEF Found
<1> QED
  BY <1>1, <1>2

(* The callees of a call that is done are those it was analysed with.      *)
LEMMA CalleesDone ==
    ASSUME TypeOK, Bound, BindingsClosed, NEW inst, inst.call \in module.pointer, CallDone(inst)
    PROVE  Callees(module, Found, inst) = CalledFuncs(inst.call)
<1>1. module.operand[inst.call] \in Value
  BY ModuleShape DEF IsModule, Value
<1>2. CASE IsDirect(inst.call)
  BY <1>2, FoundShape DEF Callees, CalledFuncs, IsDirect
<1>3. CASE ~IsDirect(inst.call)
  <2>1. module.operand[inst.call] \in funcPtr
    BY <1>3 DEF CallDone
  <2>2. Found[module.operand[inst.call]] = Resolved(module.operand[inst.call])
    <3> DEFINE operand == module.operand[inst.call]
    <3>1. Found[operand] = ({operand} \cap Function) \cup Resolved(operand)
      BY <2>1, FoundShape
    <3>2. operand \notin Function
      BY <1>3 DEF IsDirect
    <3>3. {operand} \cap Function = {}
      BY <3>2
    <3> HIDE DEF operand
    <3>4. Found[operand] = Resolved(operand)
      BY <3>1, <3>3
    <3> QED
      BY <3>4 DEF operand
  <2> QED
    BY <1>3, <2>2 DEF Callees, CalledFuncs
<1> QED
  BY <1>2, <1>3

LEMMA FoundClosed ==
    ASSUME Inv, Bound, BindingsClosed, ReturnsAreFollowed(module),
           NEW R \in SUBSET Function, Covers(R, {})
    PROVE  /\ [reach |-> R, flow |-> Found] \in Reached(module)
           /\ IsClosed(module, [reach |-> R, flow |-> Found])
           /\ \A inst \in Instructions(module, R, "call") :
                 /\ CallDone(inst)
                 /\ IsDirect(inst.call) => module.operand[inst.call] \in R
<1> USE DEF Inv
<1> DEFINE c == [reach |-> R, flow |-> Found]
<1>1. Shaped(module)
  BY ModuleShape DEF Shaped, Value
<1>2. c \in Reached(module)
  BY FoundShape DEF Reached, Function
<1>3. ASSUME NEW op, NEW inst \in Instructions(module, R, op)
      PROVE  inst.op = op /\ inst \in Instruction(module) /\ InstDone(inst, R)
  <2>1. R \in SUBSET module.function
    BY DEF Function
  <2>2. /\ inst.op = op /\ inst \in Instruction(module)
        /\ \E f \in R : \E i \in DOMAIN module.code[f] : inst = module.code[f][i]
    BY <1>1, <2>1, InstructionShape
  <2>3. PICK f \in R : \E i \in DOMAIN module.code[f] : inst = module.code[f][i]
    BY <2>2
  <2>4. FuncDone(f, R)
    <3>1. R \cup {} = R
      OBVIOUS
    <3> QED
      BY <3>1 DEF Covers
  <2>5. InstDone(inst, R)
    BY <2>3, <2>4 DEF FuncDone, Code
  <2> QED
    BY <2>2, <2>5
<1>4. ASSUME NEW inst \in Instructions(module, R, "call")
      PROVE  /\ CallDone(inst) /\ inst.call \in module.pointer
             /\ IsDirect(inst.call) => module.operand[inst.call] \in R
             /\ Callees(module, Found, inst) = CalledFuncs(inst.call)
             /\ Callees(module, Found, inst) \subseteq R
  <2>1. inst.op = "call" /\ inst \in Instruction(module) /\ InstDone(inst, R)
    BY <1>3
  <2>2. /\ CallDone(inst) /\ inst.call \in module.pointer
        /\ IsDirect(inst.call) => module.operand[inst.call] \in R
    BY <2>1 DEF InstDone, Instruction
  <2>3. Callees(module, Found, inst) = CalledFuncs(inst.call)
    BY <2>2, CalleesDone
  <2>4. CalledFuncs(inst.call) \subseteq R
    BY <2>2 DEF CalledFuncs, CallDone, Covers
  <2> QED
    BY <2>2, <2>3, <2>4
<1>5. ASSUME NEW copy \in Copies(module, R, Found)
      PROVE  Found[copy[2]] \subseteq Found[copy[1]]
  <2>0. copy \in Value \X Value
    BY <1>1, <1>2, CopiesType DEF Value
  <2>1. CASE copy \in PhiCopies(module, R)
    <3>1. PICK phi \in Instructions(module, R, "phi") : \E u \in phi.operands : copy = <<phi.phi, u>>
      BY <2>1, PhiCopy
    <3>2. PICK u \in phi.operands : copy = <<phi.phi, u>>
      BY <3>1
    <3>3. CASE u = Null
      BY <3>2, <3>3, FoundShape
    <3>4. CASE u # Null
      <4>1. PhiDone(phi)
        BY <1>3 DEF InstDone
      <4>2. Copied(copy)
        BY <3>2, <3>4, <4>1 DEF PhiDone, PhiPairs
      <4> QED
        BY <2>0, <4>2, CopyRespected
    <3> QED
      BY <3>3, <3>4
  <2>2. CASE copy \in ArgumentCopies(module, R, Found)
    <3>1. PICK inst \in Instructions(module, R, "call") :
              \E f \in Callees(module, Found, inst) :
                 \E i \in DOMAIN inst.args \cap DOMAIN module.params[f] :
                    copy = <<module.params[f][i], inst.args[i]>>
      BY <2>2, ArgumentCopy
    <3>2. copy \in ArgumentPairs(inst)
      BY <1>4, <3>1 DEF ArgumentPairs
    <3>3. Copied(copy)
      BY <1>4, <3>2 DEF CallDone
    <3> QED
      BY <2>0, <3>3, CopyRespected
  <2>3. CASE copy \in ReturnCopies(module, R, Found)
    <3>1. PICK inst \in Instructions(module, R, "call") :
              \E f \in Callees(module, Found, inst) \cap module.returnsFuncPtr :
                 \E ret \in Returns(module, f) : copy = <<inst.call, ret.value>>
      BY <2>3, ReturnCopy
    <3>2. PICK f \in Callees(module, Found, inst) \cap module.returnsFuncPtr :
                 \E ret \in Returns(module, f) : copy = <<inst.call, ret.value>>
      BY <3>1
    <3>3. PICK ret \in Returns(module, f) : copy = <<inst.call, ret.value>>
      BY <3>2
    <3>4. f \in ReturningCallees(inst.call) /\ f \in Function
      BY <1>4, CalledType DEF ReturningCallees
    <3>5. funcRetValue[f] # NoValue
      BY <1>4, <3>4 DEF CallDone, Defers
    <3>6. PICK v \in module.pointer \cup {Null} : \A i \in DOMAIN module.code[f] :
              module.code[f][i].op = "ret" => module.code[f][i].value = v
      BY <3>4 DEF ReturnsAreFollowed, ReturningCallees
    <3>7. ret.value = v
      <4>1. {f} \in SUBSET module.function
        BY <3>4 DEF Function
      <4>2. ret.op = "ret" /\ \E i \in DOMAIN module.code[f] : ret = module.code[f][i]
        BY <1>1, <4>1, InstructionShape DEF Returns
      <4> QED
        BY <3>6, <4>2
    <3>8. funcRetValue[f] = v
      BY <3>4, <3>5, <3>6 DEF RetVisited, Code
    <3>9. copy \in ReturnPairs(inst.call)
      BY <3>3, <3>4, <3>5, <3>7, <3>8 DEF ReturnPairs
    <3>10. v \notin Function
      BY ModuleShape DEF IsModule, Function
    <3>11. copy[2] \in funcPtrBind[copy[1]]
      BY <1>4, <3>9 DEF CallDone
    <3> QED
      BY <2>0, <3>3, <3>7, <3>10, <3>11, CopyRespected
  <2> QED
    BY <2>1, <2>2, <2>3 DEF Copies
<1>6. Extend(module, c).reach \subseteq R
  BY <1>4 DEF Extend
<1>7. ASSUME NEW v \in FuncPtrValue(module) PROVE Extend(module, c).flow[v] \subseteq Found[v]
  BY <1>5 DEF Extend
<1>8. IsClosed(module, c)
  BY <1>6, <1>7 DEF IsClosed, AtMost
<1> QED
  BY <1>2, <1>4, <1>8

(* Every callee of a call that a program started at an entry point can     *)
(* reach is found when buildCallGraph is done with it: for every module    *)
(* whose returns the pass follows, every order of the functions and of     *)
(* joining the bindings.                                                   *)
THEOREM CalleesFoundAlways == Spec => []CalleesFound
<1>1. Init => FoundInv
  BY InitFound
<1>2. FoundInv /\ [Next]_vars => FoundInv'
  BY StepFound
<1>3. FoundInv => CalleesFound
  <2> SUFFICES ASSUME FoundInv, phase = "main", entry > 1, ReturnsAreFollowed(module)
               PROVE  LET from == LeastFrom(module, {module.order[entry - 1]})
                      IN  \A inst \in Instructions(module, from.reach, "call") :
                             Callees(module, from.flow, inst) \subseteq callGraphEdge[inst.call]
    BY DEF CalleesFound
  <2> DEFINE from == LeastFrom(module, {module.order[entry - 1]})
  <2>1. /\ Inv /\ TypeOK /\ Bound /\ Settled /\ BindingsClosed
        /\ \E R \in SUBSET Function : Covers(R, {}) /\ module.order[entry - 1] \in R
    BY DEF FoundInv, Inv, Between, Settled
  <2>2. PICK R \in SUBSET Function : Covers(R, {}) /\ module.order[entry - 1] \in R
    BY <2>1
  <2> DEFINE c == [reach |-> R, flow |-> Found]
  <2>3. /\ c \in Reached(module) /\ IsClosed(module, c)
        /\ \A inst \in Instructions(module, R, "call") : CallDone(inst)
    BY <2>1, <2>2, FoundClosed
  <2>4. Shaped(module)
    BY <2>1, ModuleShape DEF Shaped, Value
  <2>5. from \in Reached(module) /\ AtMost(module, from, c)
    <3>1. {module.order[entry - 1]} \in SUBSET module.function
      BY <2>2 DEF Function
    <3>2. \A f \in module.function : f \in c.flow[f]
      BY <2>1, FoundShape DEF Function
    <3>3. {module.order[entry - 1]} \subseteq c.reach
      BY <2>2
    <3> HIDE DEF c
    <3> QED
      BY <2>3, <2>4, <3>1, <3>2, <3>3, LeastFromBelow
  <2> HIDE DEF from
  <2>6. ASSUME NEW inst \in Instructions(module, from.reach, "call")
        PROVE  Callees(module, from.flow, inst) \subseteq callGraphEdge[inst.call]
    <3>1. /\ inst \in Instructions(module, R, "call")
          /\ Callees(module, from.flow, inst) \subseteq Callees(module, Found, inst)
      <4>1. /\ Instructions(module, from.reach, "call") \subseteq Instructions(module, c.reach, "call")
            /\ Callees(module, from.flow, inst) \subseteq Callees(module, c.flow, inst)
        <5> HIDE DEF c
        <5> QED
          BY <2>3, <2>4, <2>5, CopiesGrow
      <4> QED
        BY <4>1
    <3>2. CallDone(inst)
      BY <2>3, <3>1
    <3>3. inst.call \in module.pointer
      BY <2>4, <2>5, CalleesShape
    <3>4. Callees(module, Found, inst) = CalledFuncs(inst.call)
      BY <2>1, <3>2, <3>3, CalleesDone
    <3>5. CalledFuncs(inst.call) \subseteq callGraphEdge[inst.call]
      BY <2>1, <3>2 DEF CalledFuncs, CallDone, Settled
    <3> QED
      BY <3>1, <3>4, <3>5
  <2> QED
    BY <2>6 DEF from
<1> QED
  BY <1>1, <1>2, <1>3, PTL DEF Spec
=============================================================================
