--------------------------- MODULE MCFuncPtrPass ---------------------------
(***************************************************************************)
(* Instances of FuncPtrPass for TLC: testcases of Assignment 2 as clang    *)
(* and mem2reg make them, modules made up to meet a limit, and every       *)
(* module of three functions from a small menu of instructions.  A call is *)
(* named by its line.                                                      *)
(***************************************************************************)
EXTENDS FuncPtrPass

Call(c, args) == [op |-> "call", call |-> c, args |-> args]
Phi(p, operands) == [op |-> "phi", phi |-> p, operands |-> operands]
Ret(v) == [op |-> "ret", value |-> v]

Leaf == <<Ret(Other)>>

(* A module, given the functions in order, their parameters and code, and  *)
(* what each call calls; with its least flow, worked out once.             *)
Module(order, params, code, operand, phis, returns, expected) ==
    LET pointer == DOMAIN operand \cup phis \cup UNION {ToSet(params[f]) : f \in DOMAIN params}
        bare == [function |-> ToSet(order), order |-> order, pointer |-> pointer,
                 params   |-> [f \in ToSet(order) |-> IF f \in DOMAIN params THEN params[f] ELSE << >>],
                 code     |-> [f \in ToSet(order) |-> IF f \in DOMAIN code THEN code[f] ELSE Leaf],
                 operand  |-> [p \in pointer |-> IF p \in DOMAIN operand THEN operand[p] ELSE Null],
                 returnsFuncPtr |-> returns,
                 expected |-> expected]
    IN  bare @@ [flow |-> LeastFrom(bare, bare.function).flow]

(* testcase/test20.c, the example of README.txt.                           *)
Test20 ==
    Module(<<"add", "sub", "foo", "main", "fprintf", "fscanf">>,
           [foo |-> <<"foo.a">>],
           [fprintf |-> << >>, fscanf |-> << >>,
            foo  |-> <<Call("12", << >>), Ret(Other)>>,
            main |-> <<Call("23", << >>), Call("25", << >>),
                       Phi("main.t1", {Null, "add"}), Phi("main.t2", {"main.t1", "sub"}),
                       Call("36", <<"main.t2">>), Call("37", << >>), Call("39", << >>),
                       Ret(Other)>>],
           ("12" :> "foo.a") @@ ("23" :> "fprintf") @@ ("25" :> "fscanf") @@ ("36" :> "foo")
           @@ ("37" :> "fprintf") @@ ("39" :> "fprintf"),
           {"main.t1", "main.t2"}, {},
           {<<"12", "add">>, <<"12", "sub">>, <<"23", "fprintf">>, <<"25", "fscanf">>,
            <<"36", "foo">>, <<"37", "fprintf">>, <<"39", "fprintf">>})

(* testcase/test12.c: a pointer goes through a parameter and a return.     *)
Test12 ==
    Module(<<"plus", "minus", "foo", "clever", "moo">>,
           [foo |-> <<"foo.a", "foo.b">>, clever |-> <<"clever.a", "clever.b">>],
           [foo |-> <<Ret("foo.b")>>,
            clever |-> <<Call("15", <<"clever.a", "clever.b">>), Call("16", << >>), Ret(Other)>>,
            moo |-> <<Phi("moo.t1", {Null, "minus"}), Phi("moo.t", {"plus", "moo.t1"}),
                      Call("32", <<"plus", "moo.t">>), Ret(Other)>>],
           ("15" :> "foo") @@ ("16" :> "15") @@ ("32" :> "clever"),
           {"moo.t1", "moo.t"}, {"foo"},
           {<<"15", "foo">>, <<"16", "minus">>, <<"16", "plus">>, <<"32", "clever">>})

(* testcase/test17.c: callers come after what they pass pointers to.       *)
Test17 ==
    Module(<<"clever", "plus", "minus", "foo", "moo", "use">>,
           [foo |-> <<"foo.pf">>, moo |-> <<"moo.uf", "moo.pf">>],
           [clever |-> <<Call("12", << >>), Call("14", << >>), Ret(Other)>>,
            foo |-> <<Call("20", << >>), Ret(Other)>>,
            moo |-> <<Call("25", <<"moo.pf">>), Ret(Other)>>,
            use |-> <<Call("31", <<"foo", "clever">>), Ret(Other)>>],
           ("12" :> "plus") @@ ("14" :> "minus") @@ ("20" :> "foo.pf") @@ ("25" :> "moo.uf")
           @@ ("31" :> "moo"),
           {}, {},
           {<<"12", "plus">>, <<"14", "minus">>, <<"20", "clever">>, <<"25", "foo">>,
            <<"31", "moo">>})

(* testcase/test25.c: pointers to functions that return pointers.          *)
Test25 ==
    Module(<<"plus", "minus", "foo", "clever", "clever1", "moo">>,
           [foo |-> <<"foo.a", "foo.b">>, clever |-> <<"clever.a", "clever.b">>,
            clever1 |-> <<"c1.goo", "c1.a", "c1.b">>],
           [foo |-> <<Ret("foo.a")>>,
            clever |-> <<Call("14", <<"clever.a", "clever.b">>), Ret("14")>>,
            clever1 |-> <<Call("18", <<"c1.b", "c1.a">>), Phi("c1.f", {"plus", "18"}),
                          Phi("c1.a2", {"minus", "c1.a"}), Call("24", <<"c1.f", "c1.a2">>),
                          Ret("24")>>,
            moo |-> <<Phi("moo.goo", {"foo", "clever"}),
                      Call("36", <<"moo.goo", "minus", "plus">>), Call("37", << >>),
                      Ret(Other)>>],
           ("14" :> "foo") @@ ("18" :> "c1.goo") @@ ("24" :> "c1.goo") @@ ("36" :> "clever1")
           @@ ("37" :> "36"),
           {"c1.f", "c1.a2", "moo.goo"}, {"foo", "clever", "clever1"},
           {<<"14", "foo">>, <<"18", "clever">>, <<"18", "foo">>, <<"24", "clever">>,
            <<"24", "foo">>, <<"36", "clever1">>, <<"37", "plus">>})

Tests == {Test12, Test17, Test20, Test25}

-----------------------------------------------------------------------------
(* report("", plus), with report(char *, ...) declared.                    *)
Variadic ==
    Module(<<"plus", "main", "report">>, << >>,
           [report |-> << >>, main |-> <<Call("9", <<"plus">>), Ret(Other)>>],
           "9" :> "report", {}, {}, {})

(* main calls f, g and h, and f calls i: the vector of functions reached   *)
(* grows from four to five in the middle of the second round.              *)
Grows ==
    Module(<<"main", "f", "g", "h", "i">>, << >>,
           [main |-> <<Call("1", << >>), Call("2", << >>), Call("3", << >>), Ret(Other)>>,
            f |-> <<Call("5", << >>), Ret(Other)>>],
           ("1" :> "f") @@ ("2" :> "g") @@ ("3" :> "h") @@ ("5" :> "i"), {}, {}, {})

(* Three functions that take and return a pointer; leaf returns its own,   *)
(* f and g make one call each.                                             *)
Menu(f, other) ==
    LET p == f \o ".p" c == f \o ".c" x == f \o ".x"
    IN  {[operand |-> callee,
          code |-> <<Phi(x, {p, "leaf"}), Call(c, <<arg>>), Ret(value)>>] :
             callee \in {f, other, "leaf", p, x}, arg \in {f, other, "leaf", p},
             value \in {p, c}}

SmallModules ==
    {Module(<<"f", "g", "leaf">>,
            [f |-> <<"f.p">>, g |-> <<"g.p">>, leaf |-> <<"leaf.p">>],
            [f |-> inF.code, g |-> inG.code, leaf |-> <<Ret("leaf.p")>>],
            ("f.c" :> inF.operand) @@ ("g.c" :> inG.operand),
            {"f.x", "g.x"}, {"f", "g", "leaf"}, {}) :
        inF \in Menu("f", "g"), inG \in Menu("g", "f")}

(* get(), declared to return a pointer, and a call of what it returns.     *)
Declared ==
    Module(<<"main", "get">>, << >>,
           [get |-> << >>, main |-> <<Call("7", << >>), Call("8", << >>), Ret(Other)>>],
           ("7" :> "get") @@ ("8" :> "7"), {}, {"get"}, {})

(* get() { return plus; }, and a call of what it returns, which is lost.   *)
Named ==
    Module(<<"plus", "get", "main">>, << >>,
           [get |-> <<Ret("plus")>>, main |-> <<Call("6", << >>), Call("7", << >>), Ret(Other)>>],
           ("6" :> "get") @@ ("7" :> "6"), {}, {"get"}, {})

MCProgram == Tests \cup {Variadic, Grows, Named} \cup SmallModules
MCDeclared == {Declared}

MCSolution(m) == m.flow

(* What README.txt and the testcases expect is what is printed, if the     *)
(* loop over the functions reached survives the growth of their vector.    *)
PrintsExpected ==
    module \in Tests =>
        /\ status # "aborted"
        /\ phase = "printed" =>
              {<<c, f>> \in module.pointer \X Function : f \in callGraphEdge[c]} = module.expected
=============================================================================
