# A TLA+ model of the Advanced Compiler Principle assignments

The repository holds three programs built on clang and LLVM:

* **Assignment 1**, an interpreter of a subset of C that walks clang's AST;
* **Assignment 2**, a flow-insensitive analysis that finds the functions an
  indirect call may reach;
* **Assignment 3**, a flow-sensitive, inter-procedural points-to analysis, built
  on a small dataflow framework, that prints the callees of every call.

All three are sequential. What makes them hard is not concurrency but

* orders nobody chose: the worklist, the sets and the maps of Assignment 3 are
  ordered by *address*;
* a fixpoint loop re-entered in the middle of itself (a call inside a block
  analyses the callee into the same result container);
* facts compared by an `operator==` that does not see all of them;
* long sequences of legal steps on a hand-made heap with wrapping addresses,
  null slots, and a single-iterator `erase`.

Line numbers below are those of the files under `src/`.

## Inventory

| Component | State it keeps | Operations | Talks to | Correct when |
|---|---|---|---|---|
| Dataflow framework, `Assignment3/Dataflow.h` | `result` (input and output fact of each block), `workList` | `analyzeForward` (124-167): pop the least block, merge, transfer, compare, record, queue successors | a visitor: `merge`, `transferBasicBlock`, `T::operator==` | ends; publishes the least solution of the dataflow equations; a block that is not queued is up to date |
| Points-to fact, `PointerAnalysis.h` 41-368 | points-to map, struct/field and mock maps, array set, call graph | add, remove, union, clear, `setTop`, `unionFact`, `==`, predicates | only called | the graph is closed; a union loses nothing |
| Transfer functions, `PointerAnalysis.h` 414-1198 | none | one per instruction, built from the `transferFact...` | the fact; for a call, `analyzeForward` | monotone; no assertion fails |
| Inter-procedural driver, `InterAnalysis.h`, `PointerAnalysis.h` 1011-1153 | one result container per entry point, the host stack of activations, `callSiteContainer` | `runOnModule`, nested `analyzeForward`, `doCallSiteCollection`, printing | all of the above | prints the callees of every call; ends |
| Guest heap, `Assignment1/Environment.h` 46-150 | `addressAccumulator`, vector of chunk pointers, the chunks | `allocate`, `release`, `get`, `set`, destructor | called by the interpreter | a memory of independent arrays |
| Interpreter, `Environment.h` 153-626, `InterpreterVisitor.*` | frames (`mVars`, `mExprs`, return value), `dStack`, globals | one per AST node; call and return; destructor of a frame releases local arrays | heap; recursion through the visitor | means what C means |
| Function pointer pass, `Assignment2/LLVMAssignment.cpp` 51-369 | `funcPtr`, `funcPtrBind`, `funcPtrValue`, `funcRetValue`, call graph, `reachedFunc` | `analyseFunction`, `buildCallGraph`, printing | itself | ends; the closure of the bindings |
| Backward analysis, liveness, intra-procedural variant, debug output, drivers, scripts | | | | see *Not modelled* |

`PROJECT.json` lists the components with their status, and every place at which
this code is hard to test under `hazards`.

## Plan

All of it is done; the order was that of the weight of each part.

1. `Dataflow` with its promise `LeastSolution`, and `Dataflow_proofs`:
   everything in Assignment 3 rests on this loop.
2. `Heap`, under `HeapClient`, with its promise `GuestMemory`.
3. `PointerAnalysisFact`, `PointerAnalysis` (operators only), `InterAnalysis`
   (the machine that runs them), `PointerTransfer` (their order properties).
4. `FuncPtrPass`, with `FuncPtrFlow`, the closure it is for, and proofs that
   what it computes lies below every solution and misses no callee.
5. `Interpreter`, composed with `Heap`, and proofs about its frames.
6. `HeapClient_proofs`: a slot never dangles, a program that keeps the rules is
   never stopped, and the heap implements `GuestMemory`.
7. `FoldLemmas`, `PointerAnalysis_proofs` and `PointerTransfer_proofs`: what
   every transfer function keeps, and which of them are monotone.
8. `InterAnalysis_proofs`: the stack of activations and the facts they share,
   for any module.
9. `Interpreter_proofs`, continued: the types of what is evaluated, and that the
   calls the interpreter makes of its heap are those of `HeapClient`.
10. `RulesKept`, what a program has to ask of the heap, and the proof that the
    storage of its arrays is then right.

## Modules

### Dataflow, LeastSolution

`Dataflow` is `analyzeForward` for *any* visitor. A fact is a set of atoms.
`Transfer`, a constant operator, is `transferBasicBlock`. The two operations the
framework takes from the fact type may be partial: `operator==` sees the atoms
in `Observed`, `merge` adds those in `Merged`. In Assignment 3 a points-to pair
is in both and a call edge is in neither (`PointerAnalysis.h` 56-60, 178-218).
One step is one iteration of the loop, `Unchanged` or `Propagate`, by the
outcome of the comparison at line 159. `Least` is `*workList.begin()`: a
`std::set<BasicBlock *>` hands out the least address, and `fn.addr` gives each
block one.

`LeastSolution` is what the caller is promised: one step that publishes the
least solution of the equations, then nothing. `Dataflow!Implements` is its
specification with the answer taken from the recorded inputs once the worklist
is empty.

Nothing is promised, beyond finality, of a visitor that is not monotone: that
is the obligation of the comment at lines 114-116.

### Heap, HeapClient, GuestMemory

`Heap` is the class line by line: `chunks` is the vector (object numbers and
`Null`), `object` the `chunkMeta` that were not deleted. `AfterErase` is what
`erase(remove_if(...))` with one iterator leaves: the kept slots first, then
what lay behind them, with one slot gone. The host's undefined behaviour (a null
slot dereferenced, `erase(end())`, an int across the end of a chunk, a chunk
deleted twice) ends the process or, for `erase(end())`, may also just take the
last slot away. `status` says how the process ended. A chunk's
content is a word per four bytes; an access that is not aligned reads an
indeterminate word.

`HeapClient` is the interpreted program. `ProperSpec` keeps the rules of C:
it releases each block once, accesses whole words of live blocks, and does not
exhaust the addresses. `AnySpec` passes any address to any call, lets the
accumulator wrap, and may fail outside the heap (`Fails`). `GuestMemory` names blocks by number and knows no address; the
refinement mapping reads each owned word through the same lookup as `get`.

### PointerAnalysisFact, PointerAnalysis, PointerTransfer

`PointerAnalysisFact` is the class as a record and its methods as operators that
return the changed fact. `pointerContainer`, `objectContainer` and the keys of
`pointToSetContainer` are always equal, so all three are `DOMAIN f.pts`. A fact
that failed an assertion carries that in `fault`. `PointerAnalysis` has one
operator per `transferFact...` and per `transferInst...`. LLVM values are tuples
whose class decides what the `isa<>` tests of the code decide.

`PointerTransfer` applies one instruction to two facts in a known order, to ask
whether the order survives.

### InterAnalysis

The machine of `runOnModule`. `stack` is the C++ stack of nested
`analyzeForward` activations: the block and instruction each is at and the
fact it works on; `result` is the container all of them share;
`addr` is where the allocator put blocks and functions. One step is one
instruction, one begin or end of a worklist iteration, or one entry to or
return from `analyzeForward`. A call takes several: `BeginCall` (edges,
arguments; 1079-1107), `AnalyzeCallee` for each callee (1112-1125),
`ReturnToCaller`, `EndCall` (clearing and return values; 1126-1145).
`resolved` is a history variable: every callee the analysis added an edge for.
A callee without a `ret` leaves `calledFuncRetBasicBlock` (1129) uninitialised:
`EndCall` picks any entry of the container, or none. A store or copy through a
pointer that is its own pointee changes the set its loop iterates over
(478-485): `Instruction` picks which pointees that loop still visited (`Visits`).

An LLVM module is data: its functions, blocks, instructions and the callees
expected. `IsModule` says what LLVM's verifier grants of any: a block belongs to
one function and branches within it, every function named is one of the module's,
and an instruction has its operands. `IsPlacement` says that two blocks, or two
functions, have two addresses. `MCInterAnalysis` has seven: testcases 00, 03, 09, 33 and 34, the
second example of `Assignment3/README.txt`, and a loop; they are what
`clang -O0` emits (the flags of `testcase/compile.py`), without arithmetic,
branch conditions and int parameters that no call depends on, and with blocks
merged that have nothing the analysis looks at (the null test of testcase 03,
the short-circuit block of testcase 34). `MCFindings` has four more, each small
enough to read.

### FuncPtrPass, FuncPtrFlow

`FuncPtrPass` is `buildCallGraph` for each function of the module in turn. One
step analyses one instruction (`AnalyseCall`, `AnalysePhi`, `AnalyseRet`), moves
to the next function of the round, joins one pair of bindings (`Propagate`, in
any order, where the code has the order of a vector), or ends a phase.
`roundEnd` is the `end()` the loop at line 247 took before `analyseFunction`
appended to `reachedFunc`: once that vector has outgrown its capacity, the loop
goes on in freed memory, and `NextFunction` may also end in undefined behaviour.
The maps outlive the entry point, as the members of the pass do.

A module is data: the code of each function (calls, phi nodes, returns), its
parameters, what each call calls. `FuncPtrFlow` says what the pass is for: a
flow gives each function pointer the functions it may be; a solution respects
every copy a phi node, an argument or a return makes; the least one from some
entry points also says which functions are reached. `BelowSolution` is the upper
bound (nothing that a solution does not have), `CalleesFound` the lower one
(every callee of every call that can happen from the entry point). The lower one
is about modules whose returns the pass can follow (`ReturnsAreFollowed`): all
returns of a function return the same value, as `funcRetValue` holds the first
one only (clang makes one return instruction per function), and no function by
its name, as the pass binds the call to what is returned and looks up the values
of that, and a function has none of its own (line 173).

`MCFuncPtrPass` has testcases 12, 17, 20 and 25 as clang and mem2reg make them, a
call with more arguments than the declaration has parameters, a module whose
vector grows in the middle of a round, one that returns a function by name
(`Named`: the callee is lost, and `CalleesFound` fails of it without
`ReturnsAreFollowed`), and all modules of two functions of one
parameter from a menu of phi nodes, callees, arguments and returned values, with
a third that returns its parameter.

### Interpreter

A program is its AST with numbered nodes. `todo` is the host's stack: the visits
still to be made, the next first. `Visit` puts a node's children, and what the
environment does after them, in front (`Expansion`, the methods of
`InterpreterVisitor`); the other actions are the methods of `Environment`. A
"child" is visited by `VisitStmt`, which does nothing once the frame has a
return value (`Skip`); the body of an `if` and the condition and the increment
of a loop are visited without that test (`"visit"`), which is how the loop at
593-601 survives a return. `dStack` and `capacity` are the vector of frames;
when it is full, `Call` copies the frames and destroys the old ones, whose
arrays are then released one by one (`dying`, `ReleaseArray`). A value nothing
defined, a fresh heap word or the result of `scanf` at the end of the input, is
any in `Garbage`.

`MCInterpreter` has testcases 08, 13, 15, 18, 25 and 26, programs of their own
kind with arrays passed to callees, arrays declared in loops, globals and deep
recursion, and seventeen programs that break a rule of C or use what the
interpreter leaves out: they drive the actions that abort or end in undefined
behaviour. The programs are written as trees and numbered by `Source`.

`RulesKept` says what a program marked `proper` asks of the heap, in the states
where it asks: an array declared or a `MALLOC` is for a block that is not empty,
with addresses left; a `FREE` is of a block that is live and is no array of a
frame; and when a call finds the vector full, no frame has an array. It is a
property of the run, since what is asked is what the interpreter computed, and
the hypothesis under which `ArraysLive` and `NothingLeaks` are proved.

## Runs

| Run | Question | Bounds |
|---|---|---|
| `dataflow_general` | is a block that is not queued always up to date? | all 512 graphs on 3 blocks x 5^3 statements x 2 initial facts |
| `dataflow_monotone` | least solution, termination | graphs with 3 edges on 3 blocks x 4^3 monotone statements x 2 initial facts |
| `heap_proper` | is the heap a memory of independent arrays, without failures or leaks? | 3 allocations of 1 or 2 ints |
| `heap_any` | can a slot dangle? | 3 allocations of 0 or 1 ints, address space of 24 bytes, so that it wraps; every address |
| `inter_testcases` | are the expected callees printed? does the analysis end, and leave its suspended callers alone? | 7 modules, both orders of functions, 4 nested activations; all block orders for testcases 00 and 33 and the loop, for the other four those that have each block after one of its predecessors (`MCPlacement`) |
| `transfer_order` | does every transfer function keep the graph closed, and all but those that write through a pointer the order of facts? | all pairs of ordered facts on 3 nodes, a struct and its field among them; 27 instructions |
| `func_modules` | are the expected callees printed, none missed, none made up? does the pass end? | 4 testcases, 3 modules made up, 1600 from the menu; every order of joins and of callees added |
| `interp_programs` | does the interpreter print what gcc's program prints, and end? do arrays live as long as their frames, and callers keep their values? is the heap asked only for what it can give? | 9 programs that keep the rules, 17 that do not; 16 frames reserved, recursion 22 deep; 20 chunks |
| `inter_called_in_branches` | are callees found ever lost? *violated* | the module of the run |
| `func_declared` | is a deferred call processed later? *violated* | the module of the run |
| `interp_deep` | do arrays survive a deep recursion? *violated* | testcase 25 with 4 frames reserved |
| `interp_return` | does a return leave its function? *violated* | the program of the run |

Why the bounds are enough. Three blocks give self loops, loops of two and three
blocks, joins, branches and unreachable blocks, and the names of the blocks run
over all graphs, so every order of addresses is covered. Three allocations are
what it takes to have a chunk before, between and behind the one released. The
modules of `inter_testcases` call at most two deep, so the limit of four
activations is never reached there. The menu of `func_modules` has direct and
indirect recursion, a pointer bound to itself, to its caller's and to the result
of its own call, which are the cycles the closure has to cope with. The
interpreter is deterministic but for garbage and the order of releases, so its
bound is the choice of programs; the reservation of 1024 frames is a constant,
and 16 is passed by a program without arrays as easily as 1024. Chunks and
addresses never run out there: the address space is 1024 bytes.

`heap_proper` excludes empty blocks; *Disagreements* says what those do.
`inter_testcases` does not show that the order of addresses does not matter. In
testcases 00 and 33 and the loop it does not, in any order. Testcases 03, 09 and
34 and the example of `README.txt` each fail an assertion in some of the
placements the run leaves out for them, those with a block before all its
predecessors: it is transferred before the allocation of the variables it uses. A
worklist ordered by address has no reason to respect the source; blocks read
from a fresh bitcode file usually lie in their order, which is why the testcases
pass.

### Fairness

The programs have one thread, so the only fairness is that it is not suspended
for ever: `WF_vars(Next)`, in `Dataflow`, `FuncPtrPass` and `Interpreter`.
`InterAnalysis` spells it out, as `Progress`: for ever running without a step is
excluded. That is the same formula, as every running state has a step (TLC
checks deadlock in the same run), and it spares TLC evaluating `ENABLED` of a
large action. `Terminates`, `Prints`, `Ends`, `Exits`, `DeferredIsProcessed` and
`ReturnLeaves` are checked under it. No loop is assumed to end.

## What is proved

**`Dataflow_proofs`**, for every set of blocks and atoms, every visitor, every
set of functions and every placement of the blocks:

* `TypeCorrect`: `Spec => []TypeOK`.
* `UpToDateAlways`: `Spec => []UpToDate`. The invariant is inductive together
  with `TypeOK`. An iteration makes its own block up to date, and for another
  block that is not queued either the processed block is no predecessor or its
  output did not change, as it would have been queued otherwise
  (`IterationQueues`). No monotonicity is needed.
* `BelowAlways`: `Spec => []BelowEverySolution`. By induction a recorded input
  lies below every solution, and by monotonicity so does what an iteration
  computes (`IterationBelow`).
* `ImplementsPromise`: `Spec => Implements`. While the worklist is not empty
  every step stutters; the step that empties it publishes inputs that solve the
  equations (`InputsSolve`, from `UpToDate`) and lie below every solution
  (`BelowEverySolution`), hence the least one; afterwards there are only
  stuttering steps.

Assumptions: there is a block, `Observed` and `Merged` are sets of atoms, edges
lie within the blocks, and `Transfer` maps facts to facts. Finiteness is not
assumed; it is only needed for termination.

**`HeapClient_proofs`**, for a program that passes *any* address, any number of
allocations and any address space:

* `TypeCorrect`: `AnySpec => []TypeOK`.
* `SlotsNeverDangle`: `AnySpec => []NoDanglingSlot`. `NoDanglingSlot` is
  inductive with `TypeOK`. A release that completes deletes only the chunks that
  begin at the address, and the slots `remove_if` keeps hold others; what
  `erase` with one iterator leaves behind the kept slots was nulled before, or
  lay there unmoved. Two slots of one deleted chunk would have made the call
  read a deleted chunk, and it would not have returned. The lemmas on
  `KeptSlots`, `Rank` and `Nth` say where a kept slot goes.

The same module, for a program that keeps the rules and allocates no empty block
(`0 \notin Size`, a hypothesis of each theorem, without which they are false),
any number and sizes of blocks:

* `NeverFailsAlways` and `NothingLeaksAlways`. Neither is inductive. `IInv` adds
  that each chunk has one slot and no slot is null (`OneSlotEach`), the chunks
  are the blocks the program owns, with their extents below the accumulator
  (`ChunksAreBlocks`), they lie apart in the order of their numbers (`Apart`),
  and a closed heap is empty. Then a lookup stops at one slot (`WordFound`), a
  release erases exactly one, and the accumulator never wraps.
* `HeapIsMemory`: `ProperSpec => ImplementsMemory`, the refinement of
  `GuestMemory`. By `IInv` the content seen through the lookup is that of the
  block's own chunk (`ContentIsWords`); each call then maps to the operation of
  the same name on that block alone.

**`FuncPtrPass_proofs`**, for every module, every order of its functions and
every order of joins:

* `TypeCorrect`: `Spec => []TypeOK`, with `RetVisited`: a recorded return value
  is that of a return of the function. It includes that the loop over the
  functions reached stays within the vector it started with.
* `BelowSolutionAlways`: `Spec => []BelowSolution`. Edges, values and bindings
  lie below any solution the module has (`BelowInv`); a call adds only pairs the
  solution respects (`ArgumentsRespected`, `ReturnsRespected`), and joining two
  bindings is transitivity.
* `CalleesFoundAlways`: `Spec => []CalleesFound`. The rounds of an entry point
  end on a flag that says nothing of the functions the last phase of a round
  adds, so the invariant, `FoundInv`, must say why they do not matter.
  `InRound`: as long as a round has changed nothing (`Unchanged`), it has added
  no function, the bindings are closed and the edges up to date (`Settled`), and
  whatever an instruction visited so far would record is there already
  (`SoFarDone`; the maps only grow, `Kept`). A function that is reached through a
  pointer and not visited by that round was done by an earlier entry point, whose
  maps outlive it (`SomeCovered`). Between two entry points (`Between`) the last
  one is therefore in a set of functions that are done and that calls do not
  leave (`Covers`). That set with what the maps resolve to is closed under every
  copy and every call (`FoundClosed`), so it has all the least flow has, and the
  callees of a call that is done are its edges (`CalleesDone`).
* `LeastFromBelow`: the flow `LeastFrom` computes by recursion lies below
  everything closed that holds the entry points. It is a recursive function, so
  the proof first shows that a function with these equations exists
  (`LeastExists`, by the meet of all closed flows above) and then goes by
  well-founded induction: each step leaves fewer elements missing
  (`MissingLess`), of finitely many (`MissingFinite`). The induction is over the
  *set* of the arguments where the claim fails, which has a minimal one
  (`WFMin`); the library's induction rules would take the claim as an operator.

Assumptions: the modules have the shape of `IsModule` and are finite, and
`Solution` gives each *some* solution; the theorem about the upper bound is
therefore about all of them, one at a time. The theorem about the lower bound
does not use `Solution`.

**`Interpreter_proofs`**, for every program of the shape of `IsProgram`, whether
it keeps the rules or not, any reservation and any heap. `IsProgram` says what
clang's parser grants: a node has as many children as its kind takes, a call as
many arguments as the function has parameters, an array is declared as one, is no
parameter and is not assigned to, and the input consists of values.

* `CallersApartAlways`: `Spec => CallersApart`. The property needs that a call's
  frame is the last and that its caller's is there when it ends. `IInv` says
  that the tasks to do are for nodes of the program, that entering `main` comes
  last, and that there is one frame more than calls under way. Most actions are
  `Quiet`: they replace the first task by tasks that are no calls, and at most
  the last frame.
* `TypeCorrect`: `Spec => []TypeOK`, under `Value = Int`, which says that the
  program stays within the range of its int: the host's arithmetic is then that
  of the integers. What an operation binds is a value because the operands it
  reads are (`Operands`), and they are known because each was asserted to be
  (`getStmtVal`). `TInv` adds that the heap is typed, as loads read from it, that
  what is left of the input consists of values, and that no return statement ever
  has a value: `return;` is stopped by the assertion before it reads a child it
  does not have. The vector has room, as `Call` doubles it.
* `InterpreterIsClient`: `Spec => Client!AnySpec` (`Value = Int`), where `Client`
  is `HeapClient_proofs` with no block owned and all sizes of the address space.
  Every step of the interpreter is one call of the heap, a failure outside of it,
  or a stutter (`HeapStep`); an int becomes an address or a size by
  `Unsigned`. The proof of `TypeCorrect` and this one need each other: loads
  return words because the heap is typed, and the heap stays typed because what
  is stored is a value. So `HeapStaysTyped` takes one step of the client inside
  the induction.
* `SlotsNeverDangle`: hence what the heap promises to any client it keeps to the
  interpreter of any program.
* `ArraysLiveAlways` and `NothingLeaksAlways`:
  `Spec /\ []RulesKept => []ArraysLive`, and the same of `NothingLeaks`
  (`Value = Int`). Loads and stores, in or out of bounds, are not restricted.
  `OwnInv`, the invariant, has two parts. `Client!InOrder` is about the heap: the
  slots of the vector and the live chunks are the same, once each, the beginnings
  differ and lie below the accumulator, and a closed heap is empty. `ApartIn` is
  about the frames: their arrays, and those still to be released of the frame
  being destroyed (`dying`), are beginnings of live chunks, and no two of these
  sets meet. It is the second part that makes the destructor of a frame right: it
  releases a chunk that is there, and in no other frame. Each part of `RulesKept`
  excludes something the code does: an empty block shares its
  address with the next one, so releasing one deletes both; a `FREE` of anything
  else takes the last slot away; and a vector that moves releases the arrays of
  the frames it copies (`interp_deep`). `InOrder` is kept by an allocation and a
  release of any client, which is the last section of `HeapClient_proofs`.

**`FoldLemmas`** has the induction the others need. `FoldSet` and
`MapThenFoldSet` are recursive functions on finite sets, and a lemma about them
would take the folded operator as a parameter. So the operator is a constant of
this module, as is the relation it keeps, and the proofs instantiate it
(`INSTANCE ... WITH`). `FoldKeeps`: two folds over one set stay related when
every step keeps the relation. A property of one fold is the relation of the fold
with itself. `HighestExists` and `LowestExists`: a set of addresses has a first
and a last, which is what the loops over `std::set` pick.

**`PointerAnalysis_proofs`**, for every fact and every instruction:

* `GoodTransferInst`: `Good(f, F)` is kept by `TransferInst`. A good fact is a
  finite closed graph, its maps relate nodes of it, the field of a struct is
  marked as a field, and the functions among its nodes are in `F`. There is one
  lemma for each operation of the class and each `transferFact...`: `AddAll` makes
  every value it is given a node, and everything else only moves points-to sets
  of nodes to nodes. `setTop`, failed assertions and the undefined iterations of
  `WeakUpdate` are included.

**`PointerTransfer_proofs`**, for every set of facts about the same nodes (what
`FactAssumption` says) and all instructions but calls:

* `TransferStaysClosed`: `Spec => []StaysClosed`, by `GoodTransferInst`.
* `TransferIsMonotone`: `Spec => []Monotone`. The transfer functions that do not
  write through a pointer are monotone, one lemma for each. Struct accesses need
  that a field is never a struct in turn: the larger fact may see a struct and a
  field where the smaller one sees only a field. The others are excepted by
  `ThroughPointer`, since they are not monotone: a store to one pointee
  overwrites, to two it does not, to none it makes everything top; `memset` is
  one of them, through `StoreNull` and `ArrayStoreNull`.

**`InterAnalysis_proofs`**, for every module of the shape of `IsModule`, every
placement and every limit of the stack:

* `AnalysisTypeOK`: `Spec => []TypeOK`. `TypeOK` is not inductive: a callee's
  block exists because every function a points-to set can hold is the module's,
  and a fact is closed after a call because what `EndCall` unites from the shared
  container is. `IInv` says so: the module is one (`ModuleInv`); each activation
  runs a function of the module, queues its blocks, has recorded results for all
  of them, and is calling functions of the module if another one is above it
  (`StackInv`); every fact held or recorded is `Good` (`ResultInv`, `FrameInv`).
  Passing arguments, merging predecessors and uniting returns are folds, kept
  `Good` by `FoldKeeps`. A callee without a return is covered: whichever entry
  the uninitialised pointer names, its output is good.
* `CallersKeptWithoutRecursion`: `Spec /\ []NoRecursion => CallersKept`. Of two
  activations of different functions neither writes the other's blocks, as a
  block belongs to one function: `Propagate` and `TakeBlock` write blocks of the
  innermost, and `AnalyzeCallee` resets those of the callee, which is not on the
  stack in the next state. `NoRecursion` (the functions on the stack differ) is
  a hypothesis, and needed: a recursive function resets its own results under the
  activation that is suspended. It holds of
  every module in which the analysis finds no cycle of calls, as of those of
  `inter_testcases`.

The assumptions are the `ASSUME`s of the modules; TLC evaluates each in a run.

**Model-checked only**: all liveness; what is printed (`PrintsExpected` compares
with the expected output of the testcases); `EveryCallPrinted`, which is
false of other modules (`inter_called_in_branches`) and so has no theorem; and
`RulesKept`, which is about the programs of the run: that a program deserves the
mark `proper` is for its run to show.

## Disagreements found

Each is a run that TLC ends with a counterexample; `PROJECT.json` quotes the
lines.

* `inter_called_in_branches`: callees found are lost again, since `operator==`
  and `unionFact` ignore the call graph and a new activation resets the callee's
  results.
* `func_declared`: a call of a *declared* function that returns a function
  pointer is deferred until a return is visited that does not exist. Each round
  claims a change, and the pass never ends.
* `interp_deep`: the frame past the reservation moves the vector, and the
  destructors of the old frames release the local arrays of all callers.
* `interp_return`: a return inside the body of a `while` does not leave the
  function: the condition is tested again, with the operands of its last
  evaluation, so it stays true and the loop never ends.

### What else the models show

Assignment 3. `MCFindings` has three more modules (`MCCalledTwice`,
`MCMallocInLoop`, `MCFieldOverwritten`); with one of them for `Program`, or
`Placement <- MCAnywhere` in `inter_testcases`, `PrintsExpected` fails: callees of
the first of two equal calls are lost; the second visit of an allocation makes a
second object for the same site, and an assertion fails; call edges through one
storage place are per block, not per program point; the outcome depends on the
addresses of blocks. A recursive function nests `analyzeForward` until the stack
is exhausted (`AnalyzeCallee`, status `"overflow"`). A null argument fails
`assertIsObject` (`Check` in `AddObject`). A store through a pointer with no
pointee is top, so that the transfer of a store is not monotone (`SetTop`, and
the exception `ThroughPointer` in `Monotone`).

The heap. An empty block shares its address with the next one, and releasing it
deletes both; a release of an address at which nothing begins takes the last
slot away (`ReleaseNothing`). The first block is at address 0, which a program
takes for a null pointer.

Assignment 2. Testcase 12 grows the vector under the loop of its second round
(the outcome `"undefined"` of `NextFunction`). A function that returns a function
by name loses it for the caller (173). `getArg` past the last parameter of a
callee asserts (131). What an entry point finds depends on those before it.

The interpreter. `++` binds a global in the frame, where it hides the global
until the function ends, and never writes to memory (396). A pointer minus an int
and `p++` are not scaled (358). The initialiser of a pointer or an array is
ignored (456), and a global array has address 0. Statements that are not handled,
`break` among them, are ignored. An operator it does not know, `!=` or `!` for
instance, ends the process (375, 400). An assignment to a place in parentheses,
`(x) = 1`, stores nothing (326-338). `return;` aborts, and so does a `for` whose body
returns in the first iteration, on the missing value of its increment's operands.

## Not modelled

* `analyzeBackward` (180-223) has no caller and does not compile when
  instantiated with the visitor's present signature (the TODO at 211);
  `Liveness.h` is not part of the pipeline.
* The intra-procedural variant, behind `INTRA_PROCEDURE_ANALYSIS`, uses the same
  transfer functions and stops at calls.
* Overflow of int in interpreted programs, the depth of the host's own stack,
  and what the interpreter touches after clang freed the AST.
* In Assignment 2, calls through a constant cast, for which `getCalledFunction`
  is null and dereferenced (82-83), and the order and repetition of names for two
  calls of one line.
* Names, types beyond pointer/array/struct/other, and all output formatting:
  only which functions are printed for which line matters. Instructions the
  analyses ignore are not in the modules analysed.
* The drivers, which set up clang and LLVM, the build files and the judge
  scripts.
