----------------------------- MODULE MCDataflow -----------------------------
(***************************************************************************)
(* Instances of Dataflow for TLC: every control-flow graph over three      *)
(* blocks and every choice of a statement for each block.  The atoms x and *)
(* y stand for points-to pairs, c for a call edge.                         *)
(***************************************************************************)
EXTENDS Dataflow, FiniteSets, TLC

CONSTANTS b1, b2, b3, x, y, c

MCBlock == {b1, b2, b3}

MCElem == {x, y, c}

MCObserved == {x, y}

(* Strong updates (gen and kill), a copy, a call that records an edge, and *)
(* a store through a pointer of which nothing is known yet: setTop (lines  *)
(* 220-224 of PointerAnalysis.h) drops the whole graph, and a store        *)
(* through a known pointer does not, so that one is not monotone.          *)
MonotoneStatement == {"gen x", "kill x", "x := y", "call"}

Statement == MonotoneStatement \cup {"store"}

Execute(statement, X) ==
    CASE statement = "gen x"  -> X \cup {x}
      [] statement = "kill x" -> X \ {x}
      [] statement = "x := y" -> (X \ {x}) \cup {x : z \in X \cap {y}}
      [] statement = "call"   -> X \cup {c, y}
      [] statement = "store"  -> IF x \in X THEN X ELSE {y}

MCTransfer(f, b, X) == Execute(f.code[b], X)

(* The blocks' names already range over all graphs and codes, so one       *)
(* assignment of addresses to names covers all of them.                    *)
Address == (b1 :> 1) @@ (b2 :> 2) @@ (b3 :> 3)

FunctionsWith(statements, edgeSets) ==
    [edges : edgeSets, initVal : {{}, {y}}, addr : {Address},
     code : [MCBlock -> statements]]

MCFunction == FunctionsWith(Statement, SUBSET (MCBlock \X MCBlock))

MCMonotoneFunction ==
    FunctionsWith(MonotoneStatement,
                  {E \in SUBSET (MCBlock \X MCBlock) : Cardinality(E) = 3})
=============================================================================
