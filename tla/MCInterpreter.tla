---------------------------- MODULE MCInterpreter ----------------------------
(***************************************************************************)
(* Programs for the interpreter: testcases of Assignment 1, with what gcc  *)
(* prints for them, programs made up to meet a limit, and programs that    *)
(* break a rule of C.  They are written as trees, with the casts clang     *)
(* adds (a load wherever a variable's value is used), and numbered.        *)
(***************************************************************************)
EXTENDS Interpreter

Leaf(kind) == [kind |-> kind, kids |-> << >>]
Tree(kind, kids) == [kind |-> kind, kids |-> kids]

Int_(n) == [kind |-> "int", kids |-> << >>, value |-> n]
Ref(x) == [kind |-> "ref", kids |-> << >>, var |-> x]
LoadOf(e) == Tree("load", <<e>>)
V(x) == LoadOf(Ref(x))
CastOf(e) == Tree("cast", <<e>>)
Op(op, a, b) == [kind |-> "binary", kids |-> <<a, b>>, op |-> op]
Minus(e) == Tree("minus", <<e>>)
Paren(e) == Tree("paren", <<e>>)
SizeofInt == Leaf("sizeof")
Incr(x) == Tree("++", <<Ref(x)>>)
Set(x, e) == Tree("assign", <<Ref(x), e>>)
Star(e) == Tree("deref", <<e>>)
Elt(a, e) == Tree("subscript", <<CastOf(Ref(a)), e>>)       \* of an array
PtrElt(p, e) == Tree("subscript", <<V(p), e>>)
Put(place, e) == Tree("assign", <<place, e>>)
CallOf(f, args) == [kind |-> "call", kids |-> args, callee |-> f]
Print_(e) == CallOf("PRINT", <<e>>)
Malloc(e) == CastOf(CallOf("MALLOC", <<e>>))
Free(p) == CallOf("FREE", <<CastOf(V(p))>>)

Declares(type, x, length, init) ==
    [kind |-> "decl", kids |-> init, type |-> type, var |-> x, length |-> length]
Int0(x) == Declares("int", x, 1, << >>)
Int1(x, e) == Declares("int", x, 1, <<e>>)
Pointer(x) == Declares("pointer", x, 1, << >>)
Array(x, length) == Declares("array", x, length, << >>)

Block(stmts) == Tree("compound", stmts)
ReturnOf(e) == Tree("return", <<e>>)
Controls(kind, init, cond, kids, otherwise) ==
    [kind |-> kind, kids |-> init \o <<cond>> \o kids \o otherwise,
     inits |-> Len(init), bodies |-> Len(kids)]
If(cond, then) == Controls("if", << >>, cond, <<then>>, << >>)
IfElse(cond, then, else) == Controls("if", << >>, cond, <<then>>, <<else>>)
While(cond, body) == Controls("while", << >>, cond, <<body>>, << >>)
For(init, cond, inc, body) == Controls("for", init, cond, <<body, inc>>, << >>)

(* Nodes are numbered in the order a reader meets them.                    *)
RECURSIVE Size(_)
Size(tree) == 1 + FoldLeft(LAMBDA n, kid : n + Size(kid), 0, tree.kids)

KidNumbers(tree, n) ==
    [k \in DOMAIN tree.kids |->
        n + 1 + FoldLeft(LAMBDA m, kid : m + Size(kid), 0, SubSeq(tree.kids, 1, k - 1))]

Numbered(tree, ids) ==
    IF tree.kind \in Control
    THEN [kind |-> tree.kind,
          init |-> SubSeq(ids, 1, tree.inits),
          cond |-> ids[tree.inits + 1],
          kids |-> SubSeq(ids, tree.inits + 2, tree.inits + 1 + tree.bodies),
          otherwise |-> SubSeq(ids, tree.inits + 2 + tree.bodies, Len(ids))]
    ELSE [tree EXCEPT !.kids = ids]

RECURSIVE Nodes(_, _)
Nodes(tree, n) ==
    LET ids == KidNumbers(tree, n)
    IN  FoldLeft(LAMBDA nodes, k : nodes @@ Nodes(tree.kids[k], ids[k]),
                 n :> Numbered(tree, ids), [k \in DOMAIN ids |-> k])

(* A program: its functions <<name, parameters, body>>, its globals.       *)
Source(functions, globals, stdin_, expected, proper) ==
    LET root == Block(globals \o [k \in DOMAIN functions |-> functions[k][3]])
        node == Nodes(root, 1)
        ids == KidNumbers(root, 1)
        name(k) == functions[k][1]
        at(f) == CHOOSE k \in DOMAIN functions : name(k) = f
        names == {name(k) : k \in DOMAIN functions}
    IN  [node    |-> node,
         body    |-> [f \in names |-> ids[Len(globals) + at(f)]],
         params  |-> [f \in names |-> functions[at(f)][2]],
         globals |-> SubSeq(ids, 1, Len(globals)),
         arrays  |-> {node[n].var : n \in {m \in DOMAIN node :
                         node[m].kind = "decl" /\ node[m].type = "array"}},
         stdin   |-> stdin_, expected |-> expected, proper |-> proper]

Main(stmts) == <<"main", << >>, Block(stmts)>>

Proper(functions, globals, expected) == Source(functions, globals, << >>, expected, TRUE)

Broken(functions) == Source(functions, << >>, << >>, << >>, FALSE)

-----------------------------------------------------------------------------
(* testcase/test08.c                                                       *)
Test08 == Proper(<<Main(<<
    Int0("a"), Int0("b"), Set("a", Int_(0)),
    While(Op("<", V("a"), Int_(10)), Block(<<Set("a", Op("+", V("a"), Int_(1)))>>)),
    IfElse(Op(">", V("a"), Int_(10)), Set("b", Int_(10)), Set("b", Int_(20))),
    Print_(V("b"))>>)>>, << >>, <<20>>)

(* testcase/test13.c: a local variable hides a global one.                 *)
Test13 == Proper(<<
    <<"f", <<"x">>, Block(<<ReturnOf(Op("+", V("x"), Int_(10)))>>)>>,
    Main(<<Int0("a"), Int0("b"), Set("a", Minus(Int_(10))),
           IfElse(Op(">", V("a"), Int_(0)), Set("b", CallOf("f", <<V("a")>>)),
                                            Set("b", CallOf("f", <<Minus(V("a"))>>))),
           Print_(V("b"))>>)>>, <<Int0("global b")>>, <<20>>)

(* testcase/test15.c                                                       *)
Test15 == Proper(<<
    <<"f", <<"x">>, Block(<<
        Array("f.a", 3), Int1("i", Int_(0)),
        For(<< >>, Op("<", V("i"), Int_(3)), Set("i", Op("+", V("i"), Int_(1))),
            Block(<<Put(Elt("f.a", V("i")), Op("+", V("x"), V("i")))>>)),
        If(Op(">", V("x"), Int_(0)), ReturnOf(LoadOf(Elt("f.a", Int_(1))))),
        ReturnOf(LoadOf(Elt("f.a", Int_(2))))>>)>>,
    Main(<<Int0("a"), Int0("b"), Set("a", Minus(Int_(10))),
           Set("b", CallOf("f", <<V("a")>>)), Print_(V("b"))>>)>>, << >>, <<-8>>)

(* testcase/test18.c: pointers to pointers.                                *)
Test18 == Proper(<<Main(<<
    Pointer("a"), Pointer("b"), Pointer("c"),
    Set("a", Malloc(Op("*", SizeofInt, Int_(2)))), Set("b", Malloc(SizeofInt)),
    Put(Star(V("b")), V("a")), Put(Star(V("a")), Int_(10)),
    Put(Star(Paren(Op("p+i", V("a"), Int_(1)))), Int_(20)),
    Set("c", LoadOf(Star(V("b")))),
    Print_(LoadOf(Star(V("c")))), Print_(LoadOf(Star(Paren(Op("p+i", V("c"), Int_(1)))))),
    Free("a"), CallOf("FREE", <<CastOf(CastOf(V("b")))>>)>>)>>, << >>, <<10, 20>>)

(* testcase/test25.c: recursion, each call with an array of its own.       *)
Fibonacci(n, expected) == Proper(<<
    <<"fibonacci", <<"b">>, Block(<<
        Int0("i"), Int0("c"), Array("a", 2),
        If(Op("<", V("b"), Int_(2)), ReturnOf(V("b"))),
        For(<<Set("i", Int_(0))>>, Op("<", V("i"), Int_(2)), Incr("i"),
            Block(<<Put(Elt("a", V("i")), Op("-", Op("-", V("b"), Int_(1)), V("i")))>>)),
        Set("c", Op("+", CallOf("fibonacci", <<LoadOf(Elt("a", Int_(0)))>>),
                         CallOf("fibonacci", <<LoadOf(Elt("a", Int_(1)))>>))),
        ReturnOf(V("c"))>>)>>,
    Main(<<Int0("r"), Set("r", CallOf("fibonacci", <<Int_(n)>>)), Print_(V("r")),
           ReturnOf(Int_(0))>>)>>, << >>, expected)

Test25 == Fibonacci(5, <<5>>)

(* testcase/test26.c: functions that call each other, and print on the way.*)
Test26 == Proper(<<
    <<"print1", <<"x">>, Block(<<
        If(Op(">", V("x"), Int_(3)),
           Block(<<Print_(Op("-", V("x"), Int_(1))),
                   CallOf("print2", <<Op("-", V("x"), Int_(3))>>)>>)),
        Print_(V("x"))>>)>>,
    <<"print2", <<"b">>, Block(<<
        If(Op(">", V("b"), Int_(2)),
           Block(<<Print_(V("b")), CallOf("print1", <<Op("-", V("b"), Int_(2))>>)>>))>>)>>,
    Main(<<Array("a", 10), Int0("i"),
           Put(Elt("a", Int_(0)), Int_(0)), Put(Elt("a", Int_(1)), Int_(1)),
           For(<<Set("i", Int_(2))>>, Op("<", V("i"), Int_(10)), Incr("i"),
               Put(Elt("a", V("i")), Op("+", LoadOf(Elt("a", Op("-", V("i"), Int_(1)))),
                                             LoadOf(Elt("a", Op("-", V("i"), Int_(2))))))),
           CallOf("print1", <<LoadOf(Elt("a", Int_(9)))>>), ReturnOf(Int_(0))>>)>>, << >>,
    <<33, 31, 28, 26, 23, 21, 18, 16, 13, 11, 8, 6, 3, 4, 9, 14, 19, 24, 29, 34>>)

-----------------------------------------------------------------------------
(* A pointer to a caller's array, written and moved by two callees; and a  *)
(* block between two arrays, freed before the later one is used.           *)
Arrays_ == Proper(<<
    <<"fill", <<"p", "n">>, Block(<<
        Array("own", 2), Put(Elt("own", Int_(1)), Op("/", Minus(V("n")), Int_(2))),
        Put(PtrElt("p", Int_(1)), LoadOf(Elt("own", Int_(1)))),
        Put(Star(V("p")), V("n"))>>)>>,
    Main(<<Array("a", 2), Pointer("m"), Array("z", 1),
           Set("m", Malloc(SizeofInt)), Put(Elt("z", Int_(0)), Int_(1)),
           CallOf("fill", <<CastOf(Ref("a")), Int_(7)>>), Free("m"),
           CallOf("fill", <<CastOf(Ref("z")), LoadOf(Elt("a", Int_(1)))>>),
           Print_(LoadOf(Elt("a", Int_(0)))), Print_(LoadOf(Elt("a", Int_(1)))),
           Print_(LoadOf(Elt("z", Int_(0))))>>)>>, << >>, <<7, -3, -3>>)

(* An array declared in a loop of a function called twice, and one block   *)
(* that is never freed.                                                    *)
InLoop == Proper(<<
    <<"sum", <<"n">>, Block(<<
        Int1("i", Int_(0)), Int1("s", Int_(0)),
        While(Op("<", V("i"), V("n")), Block(<<
            Array("t", 1), Put(Elt("t", Int_(0)), V("i")),
            Set("s", Op("+", V("s"), LoadOf(Elt("t", Int_(0))))),
            Set("i", Op("+", V("i"), Int_(1)))>>)),
        ReturnOf(V("s"))>>)>>,
    Main(<<Pointer("m"), Set("m", Malloc(SizeofInt)),
           Print_(Op("+", CallOf("sum", <<Int_(3)>>), CallOf("sum", <<Int_(2)>>)))>>)>>,
    << >>, <<4>>)

(* Globals, with initialisers, changed by a callee; a callee that reads;   *)
(* recursion deeper than the stack has frames reserved, with no array.     *)
Globals == Source(<<
    <<"next", << >>, Block(<<Set("g", Op("+", V("g"), CallOf("GET", << >>))), ReturnOf(V("g"))>>)>>,
    <<"deep", <<"n">>, Block(<<
        If(Op("==", V("n"), Int_(0)), ReturnOf(CallOf("next", << >>))),
        ReturnOf(Op("+", Int_(1), CallOf("deep", <<Op("-", V("n"), Int_(1))>>)))>>)>>,
    Main(<<Print_(CallOf("deep", <<V("h")>>)), Print_(CallOf("next", << >>)),
           If(Op("<=", V("h"), V("g")), Print_(Int_(1))),
           If(Op(">=", V("h"), V("g")), Print_(Int_(0)))>>)>>,
    <<Int0("g"), Int1("h", Op("*", Int_(5), Int_(4)))>>, <<2, 3>>, <<22, 5, 0>>, TRUE)

ProperPrograms ==
    [test08 |-> Test08, test13 |-> Test13, test15 |-> Test15, test18 |-> Test18,
     test25 |-> Test25, test26 |-> Test26, arrays |-> Arrays_, loop |-> InLoop,
     globals |-> Globals]

-----------------------------------------------------------------------------
TwoBlocks(size, rest) ==
    Broken(<<Main(<<Pointer("p"), Pointer("q"), Pointer("r"),
                    Set("p", Malloc(Int_(size))), Set("q", Malloc(Int_(4))),
                    Set("r", Malloc(Int_(4)))>> \o rest)>>)

(* A return in the body of a loop whose condition or increment then reads  *)
(* what the frame has, or does not have.                                   *)
ReturnInWhile == Broken(<<Main(<<
    Int1("i", Int_(0)),
    While(Op("<", V("i"), Int_(2)),
          Block(<<If(Op("==", V("i"), Int_(1)), ReturnOf(V("i"))),
                  Set("i", Op("+", V("i"), Int_(1)))>>)),
    ReturnOf(Int_(0))>>)>>)

ReturnInFor == Broken(<<Main(<<
    Int0("i"),
    For(<<Set("i", Int_(0))>>, Op("<", V("i"), Int_(2)), Set("i", Op("+", V("i"), Int_(1))),
        ReturnOf(V("i"))),
    ReturnOf(Int_(0))>>)>>)

(* Two arrays of no length, at the address of the block after them: each   *)
(* is released when f returns, whatever is found there.                    *)
EmptyArrays == Broken(<<
    <<"f", << >>, Block(<<Array("a", 0), Array("b", 0), Pointer("p"),
                          Set("p", Malloc(SizeofInt))>>)>>,
    Main(<<Array("m", 1), CallOf("f", << >>), Put(Elt("m", Int_(0)), Int_(1))>>)>>)

BrokenPrograms ==
    [usefreed |-> TwoBlocks(4, <<Free("p"), Put(Star(V("p")), Int_(1))>>),
     readfreed |-> TwoBlocks(4, <<Free("p"), Print_(LoadOf(Star(V("p"))))>>),
     readfresh |-> TwoBlocks(4, <<Print_(LoadOf(Star(V("p"))))>>),
     freetwice |-> TwoBlocks(4, <<Free("p"), Free("p"), Free("q"), Free("r")>>),
     freeempty |-> TwoBlocks(0, <<Free("p")>>),
     freeemptytwice |-> TwoBlocks(0, <<Free("p"), Free("r")>>),
     differs |-> Broken(<<Main(<<Print_(Op("!=", Int_(1), Int_(2)))>>)>>),
     negated |-> Broken(<<Main(<<Print_(Tree("unary", <<Int_(0)>>))>>)>>),
     emptyarrays |-> EmptyArrays,
     zero |-> Broken(<<Main(<<Print_(Op("/", Int_(1), Int_(0)))>>)>>),
     eof |-> Broken(<<Main(<<Print_(CallOf("GET", << >>))>>)>>),
     returnvoid |-> Broken(<<Main(<<Leaf("return")>>)>>),
     incremented |-> Broken(<<Main(<<Array("a", 1), Put(Elt("a", Int_(0)), Int_(1)),
                                     Tree("++", <<Elt("a", Int_(0))>>)>>)>>),
     initialised |-> Broken(<<Main(<<Array("a", 1), Int0("b"),
                                     Declares("pointer", "p", 1, <<CastOf(Ref("a"))>>),
                                     Print_(V("p"))>>)>>),
     paren |-> Broken(<<Main(<<Int0("b"), Put(Paren(Ref("b")), Int_(1)), Print_(V("b"))>>)>>),
     inwhile |-> ReturnInWhile, infor |-> ReturnInFor]

MCProgram == ProperPrograms @@ BrokenPrograms

(* testcase/test25.c with one more frame than there is room for.           *)
MCDeep == [test25 |-> Test25]

MCReturn == [inwhile |-> ReturnInWhile]

MCValue == -4096 .. 4096
MCGarbage == {0, 9}
=============================================================================
