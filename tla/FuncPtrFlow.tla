----------------------------- MODULE FuncPtrFlow -----------------------------
(***************************************************************************)
(* What the function pointer pass of Assignment 2 is for, without the way  *)
(* it goes about it: which functions each function pointer of a module may *)
(* be, as the least flow that respects every copy the program can make.    *)
(* The shape of a module is IsModule in FuncPtrPass.                       *)
(***************************************************************************)
EXTENDS Naturals, Sequences

CONSTANT Null   \* a null constant

FuncPtrValue(m) == m.function \cup m.pointer \cup {Null}

Flow(m) == [FuncPtrValue(m) -> SUBSET m.function]

(* The instructions of this kind in the functions reached.                 *)
Instructions(m, reach, op) ==
    UNION {{m.code[f][i] : i \in {j \in DOMAIN m.code[f] : m.code[f][j].op = op}} :
            f \in reach}

Callees(m, flow, inst) == flow[m.operand[inst.call]]

(* A phi copies one of its operands, a call each argument to the parameter *)
(* and, when the callee returns, the returned value to its result.         *)
PhiCopies(m, reach) ==
    UNION {{<<phi.phi, u>> : u \in phi.operands} : phi \in Instructions(m, reach, "phi")}

ArgumentCopies(m, reach, flow) ==
    UNION {UNION {{<<m.params[f][i], inst.args[i]>> :
                      i \in DOMAIN inst.args \cap DOMAIN m.params[f]} :
                   f \in Callees(m, flow, inst)} :
            inst \in Instructions(m, reach, "call")}

ReturnCopies(m, reach, flow) ==
    UNION {UNION {{<<inst.call, ret.value>> : ret \in Instructions(m, {f}, "ret")} :
                   f \in Callees(m, flow, inst) \cap m.returnsFuncPtr} :
            inst \in Instructions(m, reach, "call")}

Copies(m, reach, flow) ==
    PhiCopies(m, reach) \cup ArgumentCopies(m, reach, flow) \cup ReturnCopies(m, reach, flow)

(* A flow that a function is in where it is named, and that every copy in  *)
(* the functions reached respects.                                         *)
IsSolution(m, reach, flow) ==
    /\ flow \in Flow(m)
    /\ \A f \in m.function : f \in flow[f]
    /\ \A copy \in Copies(m, reach, flow) : flow[copy[2]] \subseteq flow[copy[1]]

(* The least flow and the functions reached, from a set of entry points.   *)
Extend(m, s) ==
    [reach |-> s.reach \cup UNION {Callees(m, s.flow, inst) :
                                     inst \in Instructions(m, s.reach, "call")},
     flow  |-> [v \in FuncPtrValue(m) |->
                  s.flow[v] \cup UNION {s.flow[copy[2]] :
                      copy \in {c \in Copies(m, s.reach, s.flow) : c[1] = v}}]]

LeastFrom(m, entries) ==
    LET least[s \in [reach : SUBSET m.function, flow : Flow(m)]] ==
            IF Extend(m, s) = s THEN s ELSE least[Extend(m, s)]
    IN  least[[reach |-> entries,
               flow  |-> [v \in FuncPtrValue(m) |-> {v} \cap m.function]]]
=============================================================================
