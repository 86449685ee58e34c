----------------------------- MODULE Interpreter -----------------------------
(***************************************************************************)
(* The AST interpreter of Assignment 1 (Environment.h and                  *)
(* InterpreterVisitor.cpp) on top of the guest heap: a visitor that leaves *)
(* the value of each expression in the frame it was evaluated in, and      *)
(* calls itself for a function's body.  The host's stack is `todo`, the    *)
(* visits still to be made; one step starts a visit, or does what the      *)
(* environment does at the end of one.                                     *)
(*                                                                         *)
(* A program is its AST, with nodes by number.  Children that hold no      *)
(* value (the name of a called function) are left out, and a declaration   *)
(* statement declares one variable.  Programs stay within the range of     *)
(* int, where the host's arithmetic is that of the integers.               *)
(***************************************************************************)
EXTENDS Heap

CONSTANTS
    Program,        \* the programs, by name
    Reserve,        \* frames reserved: 1024 in the code
    Garbage         \* what a word that nothing defined may read as

ASSUME ReserveAssumption == Reserve \in Nat \ {0}

ASSUME GarbageAssumption == Garbage # {} /\ Garbage \subseteq Value

Loop == {"while", "for"}

Control == Loop \cup {"if"}

External == {"GET", "PRINT", "MALLOC", "FREE"}

Operators == {"+", "p+i", "i+p", "-", "*", "/", "<", "<=", ">", ">=", "=="}

(* "unary" is any unary operator but these three.                          *)
OneOperand == {"minus", "deref", "++", "unary", "paren", "cast", "load"}

TwoOperands == {"binary", "subscript", "assign"}

(* What clang's parser guarantees of a node and its children.              *)
IsNode(p, n) ==
    LET nodes == DOMAIN p.node
        node == p.node[n]
    IN  /\ node.kids \in Seq(nodes)
        /\ node.kind \in OneOperand => Len(node.kids) = 1
        /\ node.kind \in TwoOperands => Len(node.kids) = 2
        /\ node.kind = "int" => node.value \in Value
        /\ node.kind = "binary" => node.op \in STRING
        /\ node.kind = "decl" /\ node.type = "array" => node.length \in Nat
        \* an array is declared as one, and is not assigned to
        /\ node.kind = "decl" => (node.type = "array" <=> node.var \in p.arrays)
        /\ node.kind \in {"assign", "++"} =>
              LET left == p.node[node.kids[1]]
              IN  left.kind = "ref" => left.var \notin p.arrays
        /\ node.kind \in Control =>
              /\ node.init \in Seq(nodes)
              /\ node.cond \in nodes
              /\ node.otherwise \in Seq(nodes)
        /\ node.kind = "call" =>
              \/ node.callee = "GET"
              \/ node.callee \in External /\ Len(node.kids) = 1
              \/ /\ node.callee \in DOMAIN p.body
                 /\ DOMAIN p.params[node.callee] = DOMAIN node.kids

IsProgram(p) ==
    LET nodes == DOMAIN p.node
    IN  /\ p.globals \in Seq(nodes)
        /\ p.stdin \in Seq(Value)
        /\ "main" \in DOMAIN p.body
        /\ External \cap DOMAIN p.body = {}
        /\ \A f \in DOMAIN p.body :
              /\ p.body[f] \in nodes
              /\ \A k \in DOMAIN p.params[f] : p.params[f][k] \notin p.arrays
        /\ \A n \in nodes : IsNode(p, n)

ASSUME ProgramAssumption == \A name \in DOMAIN Program : IsProgram(Program[name])

VARIABLES
    program,        \* the one interpreted, never changed
    dStack,         \* vector<StackFrame>, the top last
    capacity,       \* the frames dStack has room for
    dStaticData,    \* global |-> value
    todo,           \* visits to make, the next first
    dying,          \* arrays to be released: index of the frame, array
    stdin, stdout

machineVars == <<program, dStack, capacity, dStaticData, todo, dying, stdin, stdout>>

vars == <<machineVars, heapVars>>

Node(n) == program.node[n]

Kid(n, i) == Node(n).kids[i]

Body(f) == program.body[f]

(* The arrays of a frame: variables, each with its address.                *)
Arrays(frame) == {<<x, frame.vars[x]>> : x \in DOMAIN frame.vars \cap program.arrays}

NewFrame == [vars |-> << >>, exprs |-> << >>, retVal |-> 0, hasRetVal |-> FALSE]

Top == dStack[Len(dStack)]

Known(n) == n \in DOMAIN Top.exprs

Val(n) == Top.exprs[n]

Bound(map, key, val) ==
    [k \in DOMAIN map \cup {key} |-> IF k = key THEN val ELSE map[k]]

BindStmt(frame, n, val) == [frame EXCEPT !.exprs = Bound(@, n, val)]

BindDecl(frame, x, val) == [frame EXCEPT !.vars = Bound(@, x, val)]

ReplaceTop(frame) == dStack' = [dStack EXCEPT ![Len(dStack)] = frame]

Has(x) == x \in DOMAIN Top.vars \/ x \in DOMAIN dStaticData

GetDeclVal(x) == IF x \in DOMAIN Top.vars THEN Top.vars[x] ELSE dStaticData[x]

-----------------------------------------------------------------------------
(* The host's stack.  A "child" is visited by VisitStmt, which stops once  *)
(* the frame has a return value; a "visit" is made whatever it has.        *)
Task(do, n) == [do |-> do, node |-> n]

Tasks(do, nodes) == [i \in DOMAIN nodes |-> Task(do, nodes[i])]

Current == Head(todo).node

Then(tasks) == todo' = tasks \o Tail(todo)

CallsUnderWay(tasks) == Cardinality({i \in DOMAIN tasks : tasks[i].do = "leave"})

Frame(f) ==
    /\ DOMAIN f = {"vars", "exprs", "retVal", "hasRetVal"}
    /\ \A x \in DOMAIN f.vars : f.vars[x] \in Value
    /\ \A n \in DOMAIN f.exprs : f.exprs[n] \in Value
    /\ f.retVal \in Value
    /\ f.hasRetVal \in BOOLEAN

TypeOK ==
    /\ HeapTypeOK
    /\ \A i \in DOMAIN dStack : Frame(dStack[i])
    /\ capacity \in Nat /\ Len(dStack) <= capacity
    /\ \A x \in DOMAIN dStaticData : dStaticData[x] \in Value
    /\ \A i \in DOMAIN todo :
          /\ todo[i].do \in {"init", "visit", "child", "apply", "test", "global", "main", "leave"}
          /\ todo[i].do # "main" => todo[i].node \in DOMAIN program.node
    /\ \A d \in dying : d[2][2] \in Value
    /\ \A i \in DOMAIN stdout : stdout[i] \in Value
    \* the stack of frames is that of the calls under way
    /\ todo # << >> => Len(dStack) = 1 + CallsUnderWay(todo)

Init ==
    /\ HeapInit
    /\ \E name \in DOMAIN Program : program = Program[name]
    /\ dStack = <<NewFrame>>
    /\ capacity = Reserve
    /\ dStaticData = << >>
    /\ todo = Tasks("init", program.globals) \o <<Task("main", 0)>>
    /\ dying = {}
    /\ stdin = program.stdin
    /\ stdout = << >>

-----------------------------------------------------------------------------
(* A visit, up to its children.  The initialiser of an array or of a       *)
(* pointer is ignored.                                                     *)
InitVisited(n) == IF Node(n).type = "int" THEN Node(n).kids ELSE << >>

Expansion(n) ==
    CASE Node(n).kind = "compound" -> Tasks("child", Node(n).kids)
      [] Node(n).kind \in Control ->
            Tasks("visit", Node(n).init) \o <<Task("visit", Node(n).cond), Task("test", n)>>
      [] Node(n).kind = "decl" -> Tasks("visit", InitVisited(n)) \o <<Task("apply", n)>>
      [] OTHER -> Tasks("child", Node(n).kids) \o <<Task("apply", n)>>

At(do) == todo # << >> /\ Head(todo).do = do

Visit ==
    /\ At("visit") \/ (At("child") /\ ~Top.hasRetVal)
    /\ Then(Expansion(Current))
    /\ UNCHANGED <<program, dStack, capacity, dStaticData, dying, stdin, stdout, heapVars>>

Skip ==
    /\ At("child") /\ Top.hasRetVal
    /\ Then(<< >>)
    /\ UNCHANGED <<program, dStack, capacity, dStaticData, dying, stdin, stdout, heapVars>>

(* What ifStmt, whileStmt and forStmt do with the value of the condition.  *)
AfterTest_without_inc(n) ==                                           \* mutant
    IF Val(Node(n).cond) = 0
    THEN Tasks("visit", Node(n).otherwise)
    ELSE Tasks("visit", <<Kid(n, 1)>>) \o
         (IF Node(n).kind \in Loop
          THEN <<Task("visit", Node(n).cond), Task("test", n)>>
          ELSE << >>)

AfterTest(n) ==
    IF Val(Node(n).cond) = 0
    THEN Tasks("visit", Node(n).otherwise)
    ELSE Tasks("visit", Node(n).kids) \o
         (IF Node(n).kind \in Loop
          THEN <<Task("visit", Node(n).cond), Task("test", n)>>
          ELSE << >>)

(* The values an operation reads, each asserted to be there: what          *)
(* initialises a global, an operand, a condition.  A return with no value  *)
(* has none.                                                               *)
Reads(n) ==
    IF At("global") THEN ToSet(Node(n).kids) ELSE
    CASE Node(n).kind \in Control -> {Node(n).cond}
      [] Node(n).kind = "decl" -> ToSet(InitVisited(n))
      [] Node(n).kind = "sizeof" -> {}
      [] Node(n).kind = "return" /\ Node(n).kids = << >> -> {n}
      [] OTHER -> ToSet(Node(n).kids)

ReadsKnown(n) ==
    /\ \A k \in Reads(n) : Known(k)
    /\ Node(n).kind = "ref" => Has(Node(n).var)

Test ==
    /\ At("test") /\ ReadsKnown(Current)
    /\ Then(AfterTest(Current))
    /\ UNCHANGED <<program, dStack, capacity, dStaticData, dying, stdin, stdout, heapVars>>

(* An operator that neither switch knows, != or ! for instance.            *)
UnknownOperator(n) ==
    Node(n).kind = "unary" \/ (Node(n).kind = "binary" /\ Node(n).op \notin Operators)

Aborts ==
    /\ At("test") \/ At("apply") \/ At("global")
    /\ ~ReadsKnown(Current) \/ UnknownOperator(Current)
    /\ Stop("aborted")
    /\ UNCHANGED machineVars

-----------------------------------------------------------------------------
(* Expressions that only compute.                                          *)
Bool(b) == IF b THEN 1 ELSE 0

Quotient(a, b) ==
    IF (a >= 0) = (b > 0)
    THEN (IF a >= 0 THEN a ELSE -a) \div (IF b > 0 THEN b ELSE -b)
    ELSE -((IF a >= 0 THEN a ELSE -a) \div (IF b > 0 THEN b ELSE -b))

Binary(op, a, b) ==
    CASE op = "+"   -> a + b
      [] op = "p+i" -> a + IntBytes * b
      [] op = "i+p" -> b + IntBytes * a
      [] op = "-"   -> a - b
      [] op = "*"   -> a * b
      [] op = "/"   -> Quotient(a, b)
      [] op = "<"   -> Bool(a < b)
      [] op = "<="  -> Bool(a <= b)
      [] op = ">"   -> Bool(a > b)
      [] op = ">="  -> Bool(a >= b)
      [] op = "=="  -> Bool(a = b)

(* A subscript and a dereference are their address until a cast loads it.  *)
Pure == {"int", "ref", "binary", "minus", "deref", "sizeof", "subscript", "paren", "cast"}

Result(n) ==
    CASE Node(n).kind = "int"       -> Node(n).value
      [] Node(n).kind = "ref"       -> GetDeclVal(Node(n).var)
      [] Node(n).kind = "binary"    -> Binary(Node(n).op, Val(Kid(n, 1)), Val(Kid(n, 2)))
      [] Node(n).kind = "minus"     -> -Val(Kid(n, 1))
      [] Node(n).kind = "sizeof"    -> IntBytes
      [] Node(n).kind = "subscript" -> Val(Kid(n, 1)) + IntBytes * Val(Kid(n, 2))
      [] OTHER                      -> Val(Kid(n, 1))

InMemory(n) == Node(n).kind \in {"subscript", "deref"}

Loads(n) == Node(n).kind = "load" /\ InMemory(Kid(n, 1))

DividesByZero(n) ==
    Node(n).kind = "binary" /\ Node(n).op = "/" /\ Val(Kid(n, 2)) = 0

Ready == At("apply") /\ ReadsKnown(Current)

Done == Then(<< >>) /\ UNCHANGED <<program, dying, stdin>>

Evaluate ==
    /\ Ready
    /\ \/ /\ Node(Current).kind \in Pure
          /\ ~UnknownOperator(Current) /\ ~DividesByZero(Current)
       \/ Node(Current).kind = "load" /\ ~Loads(Current)
    /\ ReplaceTop(BindStmt(Top, Current, Result(Current)))
    /\ Done
    /\ UNCHANGED <<capacity, dStaticData, stdout, heapVars>>

Divide ==
    /\ Ready
    /\ DividesByZero(Current)
    /\ Stop("undefined")
    /\ UNCHANGED machineVars

-----------------------------------------------------------------------------
(* The heap takes an int as an unsigned address or size.                   *)
Unsigned(val) == val % AddressSpace

Load ==
    /\ Ready
    /\ Loads(Current)
    /\ LET addr == Unsigned(Val(Kid(Current, 1))) IN
       \/ /\ HeapGet(addr)
          /\ \E val \in IF reply'[3] = Indeterminate THEN Garbage ELSE {reply'[3]} :
                ReplaceTop(BindStmt(Top, Current, val))
       \/ AccessFails(addr) /\ UNCHANGED dStack
    /\ Done
    /\ UNCHANGED <<capacity, dStaticData, stdout>>

AssignVariable_in_frame ==                                            \* mutant
    /\ Ready
    /\ Node(Current).kind = "assign" /\ Node(Kid(Current, 1)).kind = "ref"
    /\ LET val == Val(Kid(Current, 2))
       IN  ReplaceTop(BindDecl(BindStmt(Top, Current, val), Node(Kid(Current, 1)).var, val))
    /\ Done
    /\ UNCHANGED <<capacity, dStaticData, stdout, heapVars>>

AssignVariable ==
    /\ Ready
    /\ Node(Current).kind = "assign" /\ Node(Kid(Current, 1)).kind = "ref"
    /\ LET x == Node(Kid(Current, 1)).var
           val == Val(Kid(Current, 2))
           frame == BindStmt(Top, Current, val)
       IN  \/ /\ x \in DOMAIN Top.vars
              /\ ReplaceTop(BindDecl(frame, x, val))
              /\ UNCHANGED dStaticData
           \/ /\ x \notin DOMAIN Top.vars
              /\ dStaticData' = Bound(dStaticData, x, val)
              /\ ReplaceTop(frame)
    /\ Done
    /\ UNCHANGED <<capacity, stdout, heapVars>>

AssignMemory ==
    /\ Ready
    /\ Node(Current).kind = "assign" /\ InMemory(Kid(Current, 1))
    /\ LET addr == Unsigned(Val(Kid(Current, 1)))
           val == Val(Kid(Current, 2))
       IN  HeapSet(addr, val) \/ AccessFails(addr)
    /\ ReplaceTop(BindStmt(Top, Current, Val(Kid(Current, 2))))
    /\ Done
    /\ UNCHANGED <<capacity, dStaticData, stdout>>

(* A place in parentheses is none of the three: nothing is stored.         *)
AssignNothing ==
    /\ Ready
    /\ Node(Current).kind = "assign"
    /\ Node(Kid(Current, 1)).kind # "ref" /\ ~InMemory(Kid(Current, 1))
    /\ ReplaceTop(BindStmt(Top, Current, Val(Kid(Current, 2))))
    /\ Done
    /\ UNCHANGED <<capacity, dStaticData, stdout, heapVars>>

(* ++ binds in the frame, a global variable too, and never in memory.      *)
Increment ==
    /\ Ready
    /\ Node(Current).kind = "++"
    /\ LET sub == Kid(Current, 1)
           val == Val(sub) + 1
           frame == BindStmt(BindStmt(Top, sub, val), Current, val)
       IN  ReplaceTop(IF Node(sub).kind = "ref" THEN BindDecl(frame, Node(sub).var, val)
                                                ELSE frame)
    /\ Done
    /\ UNCHANGED <<capacity, dStaticData, stdout, heapVars>>

-----------------------------------------------------------------------------
(* Statements.                                                             *)
Declare ==
    /\ Ready
    /\ Node(Current).kind = "decl" /\ Node(Current).type # "array"
    /\ LET init == InitVisited(Current)
       IN  ReplaceTop(BindDecl(Top, Node(Current).var, IF init = << >> THEN 0 ELSE Val(init[1])))
    /\ Done
    /\ UNCHANGED <<capacity, dStaticData, stdout, heapVars>>

DeclareArray ==
    /\ Ready
    /\ Node(Current).kind = "decl" /\ Node(Current).type = "array"
    /\ Allocate(Unsigned(Node(Current).length * IntBytes))
    /\ ReplaceTop(BindDecl(Top, Node(Current).var, reply'[3]))
    /\ Done
    /\ UNCHANGED <<capacity, dStaticData, stdout>>

Return ==
    /\ Ready
    /\ Node(Current).kind = "return"
    /\ ReplaceTop([Top EXCEPT !.retVal = Val(Kid(Current, 1)), !.hasRetVal = TRUE])
    /\ Done
    /\ UNCHANGED <<capacity, dStaticData, stdout, heapVars>>

-----------------------------------------------------------------------------
(* The four external functions.  scanf at the end of the input leaves the  *)
(* variable as it was, uninitialised.                                      *)
Calls(callee) == Ready /\ Node(Current).kind = "call" /\ Node(Current).callee = callee

CallGet ==
    /\ Calls("GET")
    /\ \E val \in IF stdin = << >> THEN Garbage ELSE {Head(stdin)} :
          ReplaceTop(BindStmt(Top, Current, val))
    /\ stdin' = IF stdin = << >> THEN stdin ELSE Tail(stdin)
    /\ Then(<< >>)
    /\ UNCHANGED <<program, capacity, dStaticData, dying, stdout, heapVars>>

CallPrint ==
    /\ Calls("PRINT")
    /\ stdout' = Append(stdout, Val(Kid(Current, 1)))
    /\ Done
    /\ UNCHANGED <<dStack, capacity, dStaticData, heapVars>>

CallMalloc_at_end ==                                                  \* mutant
    /\ Calls("MALLOC")
    /\ Allocate(Unsigned(Val(Kid(Current, 1))))
    /\ ReplaceTop(BindStmt(Top, Current, addressAccumulator'))
    /\ Done
    /\ UNCHANGED <<capacity, dStaticData, stdout>>

CallMalloc ==
    /\ Calls("MALLOC")
    /\ Allocate(Unsigned(Val(Kid(Current, 1))))
    /\ ReplaceTop(BindStmt(Top, Current, reply'[3]))
    /\ Done
    /\ UNCHANGED <<capacity, dStaticData, stdout>>

ReleaseCall(addr) == Release(addr) \/ ReleaseNothing(addr) \/ ReleaseCrashes(addr)

CallFree ==
    /\ Calls("FREE")
    /\ ReleaseCall(Unsigned(Val(Kid(Current, 1))))
    /\ Done
    /\ UNCHANGED <<dStack, capacity, dStaticData, stdout>>

(* A function of the program.  A vector without room moves to one twice as *)
(* large by copying the frames and destroying the old ones: their arrays   *)
(* are released, though the copies still hold their addresses.             *)
Parameters(f) == program.params[f]

Arguments(f) ==
    [x \in ToSet(Parameters(f)) |->
        Val(Kid(Current, CHOOSE i \in DOMAIN Parameters(f) : Parameters(f)[i] = x))]

CallsFunction ==
    Ready /\ Node(Current).kind = "call" /\ Node(Current).callee \in DOMAIN program.body

EnterBody ==
    /\ Then(Tasks("child", Node(Body(Node(Current).callee)).kids) \o <<Task("leave", Current)>>)
    /\ UNCHANGED <<program, dStaticData, stdin, stdout, heapVars>>

Moved == dying' = UNION {{i} \X Arrays(dStack[i]) : i \in DOMAIN dStack}

Call_unreserved ==                                                    \* mutant
    /\ CallsFunction
    /\ EnterBody
    /\ dStack' = Append(dStack, [NewFrame EXCEPT !.vars = Arguments(Node(Current).callee)])
    /\ capacity' = capacity + 1
    /\ Moved

Call_binding_in_caller ==                                             \* mutant
    /\ CallsFunction
    /\ EnterBody
    /\ LET f == Node(Current).callee
       IN  dStack' = Append([dStack EXCEPT ![Len(dStack)].vars = Arguments(f) @@ @],
                            [NewFrame EXCEPT !.vars = Arguments(f)])
    /\ capacity' = capacity + 1
    /\ UNCHANGED dying

Call ==
    /\ CallsFunction
    /\ EnterBody
    /\ dStack' = Append(dStack, [NewFrame EXCEPT !.vars = Arguments(Node(Current).callee)])
    /\ IF Len(dStack) < capacity
       THEN UNCHANGED <<capacity, dying>>
       ELSE capacity' = 2 * capacity /\ Moved

(* The end of callExpr: the value returned, or 0, is the call's value.     *)
Leave_without_pop ==                                                  \* mutant
    /\ At("leave")
    /\ LET caller == Len(dStack) - 1
       IN  dStack' = [dStack EXCEPT ![caller] = BindStmt(@, Current, Top.retVal)]
    /\ dying' = {Len(dStack)} \X Arrays(Top)
    /\ Then(<< >>)
    /\ UNCHANGED <<program, capacity, dStaticData, stdin, stdout, heapVars>>

Leave ==
    /\ At("leave")
    /\ LET caller == Len(dStack) - 1
       IN  dStack' = [Front(dStack) EXCEPT ![caller] = BindStmt(@, Current, Top.retVal)]
    /\ dying' = {Len(dStack)} \X Arrays(Top)
    /\ Then(<< >>)
    /\ UNCHANGED <<program, capacity, dStaticData, stdin, stdout, heapVars>>

(* The destructor of a frame releases each of its arrays, in the order of  *)
(* their declarations' addresses.  Empty arrays may have the same address. *)
ReleaseArray ==
    /\ status = "running"
    /\ \E d \in dying :
          /\ ReleaseCall(Unsigned(d[2][2]))
          /\ dying' = dying \ {d}
    /\ UNCHANGED <<program, dStack, capacity, dStaticData, todo, stdin, stdout>>

-----------------------------------------------------------------------------
(* Start and end of the program.  The initialisers of the globals run in a *)
(* frame of their own.                                                     *)
VisitGlobal ==
    /\ At("init")
    /\ Then(Tasks("visit", Node(Current).kids) \o <<Task("global", Current)>>)
    /\ UNCHANGED <<program, dStack, capacity, dStaticData, dying, stdin, stdout, heapVars>>

BindGlobal ==
    /\ At("global") /\ ReadsKnown(Current)
    /\ LET kids == Node(Current).kids
       IN  dStaticData' = Bound(dStaticData, Node(Current).var,
                                  IF kids = << >> THEN 0 ELSE Val(kids[1]))
    /\ Done
    /\ UNCHANGED <<dStack, capacity, stdout, heapVars>>

EnterMain ==
    /\ At("main")
    /\ dStack' = <<NewFrame>>
    /\ Then(Tasks("child", Node(Body("main")).kids))
    /\ UNCHANGED <<program, capacity, dStaticData, dying, stdin, stdout, heapVars>>

(* The environment's members are destroyed, the stack before the heap.     *)
Exit ==
    /\ todo = << >> /\ dStack # << >>
    /\ dStack' = << >>
    /\ dying' = {Len(dStack)} \X Arrays(Top)
    /\ UNCHANGED <<program, capacity, dStaticData, todo, stdin, stdout, heapVars>>

CloseHeap ==
    /\ todo = << >> /\ dStack = << >>
    /\ Close \/ CloseCrashes
    /\ UNCHANGED machineVars

Step ==
    \/ Visit
    \/ Skip
    \/ Test
    \/ Aborts
    \/ Evaluate
    \/ Divide
    \/ Load
    \/ AssignVariable
    \/ AssignMemory
    \/ AssignNothing
    \/ Increment
    \/ Declare
    \/ DeclareArray
    \/ Return
    \/ CallGet
    \/ CallPrint
    \/ CallMalloc
    \/ CallFree
    \/ Call
    \/ Leave
    \/ VisitGlobal
    \/ BindGlobal
    \/ EnterMain
    \/ Exit
    \/ CloseHeap

Running == status = "running"

Next ==
    \/ Running /\ dying = {} /\ Step
    \/ ReleaseArray
    \/ ~Running /\ UNCHANGED vars

Spec == Init /\ [][Next]_vars

(* The only thread is never suspended for ever.                            *)
FairSpec == Spec /\ WF_vars(Next)

-----------------------------------------------------------------------------
(* What gcc's program prints, the interpreter prints (testcase/judge.py),  *)
(* with no failed assertion: values left per frame and expression are      *)
(* fresh when used (195, 332), over loops, recursion and returns.          *)
PrintsExpected ==
    program.proper =>
        /\ status \in {"running", "closed"}
        /\ status = "closed" => stdout = program.expected

(* The heap gives the size a block that is not empty, with addresses left. *)
Fits(size) == Capacity(size) > 0 /\ addressAccumulator + Capacity(size) < AddressSpace

AllocationsFit ==
    /\ Ready /\ Node(Current).kind = "decl" /\ Node(Current).type = "array" =>
          Fits(Unsigned(Node(Current).length * IntBytes))
    /\ Calls("MALLOC") => Fits(Unsigned(Val(Kid(Current, 1))))

FreesLiveBlocks ==
    Calls("FREE") =>
        LET addr == Unsigned(Val(Kid(Current, 1)))
        IN  /\ \E id \in DOMAIN object : object[id].begin = addr
            /\ \A i \in DOMAIN dStack : \A array \in Arrays(dStack[i]) : array[2] # addr

MovesNoArrays ==
    CallsFunction /\ Len(dStack) = capacity => \A i \in DOMAIN dStack : Arrays(dStack[i]) = {}

(* What the two properties below rest on: a program that keeps the rules   *)
(* of C and the limits of the interpreter, interpreted rightly, asks for   *)
(* blocks the heap can give (58-70), FREEs blocks that are live and no     *)
(* array of a frame, and has no array in a frame of a vector that moves    *)
(* (244-246).                                                              *)
RulesKept ==
    program.proper /\ Running /\ dying = {} => AllocationsFit /\ FreesLiveBlocks /\ MovesNoArrays

(* An array lives as long as its frame (166-176), in a chunk that is no    *)
(* other array's, of its own frame or of another, however the stack of     *)
(* frames grows (244-246).                                                 *)
ArraysLive ==
    program.proper /\ Running /\ dStack # << >> =>
        \A i \in DOMAIN dStack : \A array \in Arrays(dStack[i]) :
            /\ \E id \in ToSet(chunks) \cap DOMAIN object : object[id].begin = array[2]
            /\ \A j \in DOMAIN dStack : \A other \in Arrays(dStack[j]) :
                  array[2] = other[2] => i = j /\ array = other

(* Nothing is left when the program has ended: neither what it did not     *)
(* free, nor the arrays a loop declared again (449), of which the frame    *)
(* knows only the last.                                                    *)
NothingLeaks == program.proper /\ status = "closed" => DOMAIN object = {}

(* A call changes nothing of the frames below its own but, when it ends,   *)
(* its value: arguments are bound in the new frame (538-546), and what     *)
(* the callee declares, assigns and evaluates stays in its frame.          *)
FramesBelowKept ==
    \A i \in {k \in DOMAIN dStack : k < Len(dStack) \/ k < Len(dStack')} :
        /\ dStack'[i].vars = dStack[i].vars
        /\ \A n \in DOMAIN dStack[i].exprs :
              \/ At("leave") /\ n = Current
              \/ dStack'[i].exprs[n] = dStack[i].exprs[n]

CallersApart == [][FramesBelowKept]_vars

(* A program that ends in C ends.                                          *)
Exits == program.proper => <>(~Running)

(* A return statement leaves its function: "Stop from executing current    *)
(* function after return statement" (621).                                 *)
ReturnLeaves ==
    \A depth \in 1 .. Reserve :
        (Len(dStack) = depth /\ Top.hasRetVal) ~> (Len(dStack) < depth \/ ~Running)
=============================================================================
