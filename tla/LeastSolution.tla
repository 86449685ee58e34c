--------------------------- MODULE LeastSolution ---------------------------
(***************************************************************************)
(* What a forward dataflow analysis promises its caller: it publishes, in  *)
(* one step, the least solution of the function's dataflow equations, and  *)
(* then never changes it.  Nothing is promised of a function whose         *)
(* transfer is not monotone, but that its published answer is final.       *)
(***************************************************************************)
CONSTANTS
    Block,
    Observed,
    Function,
    Solution(_, _),     \* function, candidate |-> is it a solution
    Monotone(_)

VARIABLES fn, answer

vars == <<fn, answer>>

Least(S) ==
    /\ Solution(fn, S)
    /\ \A T \in [Block -> SUBSET Observed] :
          Solution(fn, T) => \A b \in Block : S[b] \subseteq T[b]

Init == fn \in Function /\ answer = << >>

Publish ==
    /\ answer = << >>
    /\ answer' \in [Block -> SUBSET Observed]
    /\ Monotone(fn) => Least(answer')
    /\ UNCHANGED fn

Spec == Init /\ [][Publish]_vars
=============================================================================
