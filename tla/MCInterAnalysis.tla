--------------------------- MODULE MCInterAnalysis ---------------------------
(***************************************************************************)
(* Instances of InterAnalysis for TLC: modules as clang -O0 emits them for *)
(* the documented examples and testcases of Assignment 3, without what the *)
(* analysis does not look at (arithmetic, comparisons, branches' operands) *)
(* and without int parameters and locals that no call site depends on.     *)
(***************************************************************************)
EXTENDS InterAnalysis

F(name) == <<"function", name>>
A(name) == <<"alloca", name>>
L(name) == <<"load", name>>
I(name) == <<"inst", name>>
P(name) == <<"argument", name>>
C(name, line) == <<"call", name, line>>
M(name, line) == <<"malloc", name, line>>
N(n) == <<"int", n>>
NullPtr == <<"null", "null">>

FnPtr == <<"pointer", "fn">>
Struct == <<"struct">>
StructPtr == <<"pointer", "struct">>
Scalar == <<"scalar">>

(* plus and minus, as far as they matter: one block that returns an int.   *)
Leaf == <<Return(N(7))>>

(* A function that calls its only parameter, on this line.                 *)
CallArgument(line) ==
    <<Alloca(A("a_fptr.addr"), FnPtr),
      StoreArgument(P("a_fptr"), A("a_fptr.addr"), FnPtr),
      Load(L("f0"), A("a_fptr.addr")),
      CallLoaded(C("f1", line), L("f0"), A("a_fptr.addr"), << >>),
      Return(C("f1", line))>>

-----------------------------------------------------------------------------
(* testcase/test33.c, the third example of README.txt: foo is called twice *)
(* on one struct.                                                          *)
Test33 ==
    [functions |-> <<F("plus"), F("minus"), F("foo"), F("clever"), F("malloc")>>,
     params    |-> [plus |-> << >>, minus |-> << >>, foo |-> <<P("t"), P("a")>>,
                    clever |-> << >>, malloc |-> <<P("size")>>],
     blocks    |-> [plus |-> <<"p0">>, minus |-> <<"m0">>, foo |-> <<"f0">>,
                    clever |-> <<"c0">>, malloc |-> << >>],
     succ      |-> [p0 |-> {}, m0 |-> {}, f0 |-> {}, c0 |-> {}],
     code      |->
       [p0 |-> Leaf, m0 |-> Leaf,
        f0 |-> <<Alloca(A("t.addr"), StructPtr),
                 Alloca(A("a.addr"), FnPtr),
                 StoreArgument(P("t"), A("t.addr"), StructPtr),
                 StoreArgument(P("a"), A("a.addr"), FnPtr),
                 Load(L("f1"), A("a.addr")),
                 Load(L("f2"), A("t.addr")),
                 GetElementPtr(I("f3"), L("f2"), "struct"),
                 Store(L("f1"), I("f3")),
                 ReturnVoid>>,
        c0 |-> <<Alloca(A("a_fptr"), FnPtr),
                 Alloca(A("s_fptr"), FnPtr),
                 Alloca(A("t1"), StructPtr),
                 Store(F("plus"), A("a_fptr")),
                 Store(F("minus"), A("s_fptr")),
                 Call(M("c1", 22), F("malloc"), <<N(8)>>),
                 BitCast(I("c2"), M("c1", 22), StructPtr),
                 Store(I("c2"), A("t1")),
                 Load(L("c3"), A("t1")),
                 Load(L("c4"), A("a_fptr")),
                 Call(C("c5", 23), F("foo"), <<L("c3"), L("c4")>>),
                 Load(L("c6"), A("t1")),
                 GetElementPtr(I("c7"), L("c6"), "struct"),
                 Load(L("c8"), I("c7")),
                 CallLoaded(C("c9", 24), L("c8"), I("c7"), << >>),
                 Load(L("c10"), A("t1")),
                 Load(L("c11"), A("s_fptr")),
                 Call(C("c12", 25), F("foo"), <<L("c10"), L("c11")>>),
                 Load(L("c13"), A("t1")),
                 GetElementPtr(I("c14"), L("c13"), "struct"),
                 Load(L("c15"), I("c14")),
                 CallLoaded(C("c16", 26), L("c15"), I("c14"), << >>),
                 Return(N(0))>>],
     expected  |-> {<<22, F("malloc")>>, <<23, F("foo")>>, <<24, F("plus")>>,
                    <<24, F("minus")>>, <<25, F("foo")>>, <<26, F("plus")>>,
                    <<26, F("minus")>>}]

(* testcase/test00.c: foo is called through a pointer, in a branch and     *)
(* after it, with an argument that changes in between.                     *)
Test00 ==
    [functions |-> <<F("plus"), F("minus"), F("foo"), F("moo")>>,
     params    |-> [plus |-> << >>, minus |-> << >>, foo |-> <<P("a_fptr")>>, moo |-> << >>],
     blocks    |-> [plus |-> <<"p0">>, minus |-> <<"m0">>, foo |-> <<"f0">>,
                    moo |-> <<"entry", "if.then", "if.end">>],
     succ      |-> [p0 |-> {}, m0 |-> {}, f0 |-> {}] @@
                   ("entry" :> {"if.then", "if.end"}) @@
                   ("if.then" :> {"if.end"}) @@ ("if.end" :> {}),
     code      |->
       [p0 |-> Leaf, m0 |-> Leaf, f0 |-> CallArgument(14)] @@
       ("entry"   :> <<Alloca(A("af_ptr"), FnPtr), Alloca(A("pf_ptr"), FnPtr),
                       Store(F("foo"), A("af_ptr")), Store(NullPtr, A("pf_ptr"))>>) @@
       ("if.then" :> <<Store(F("plus"), A("pf_ptr")),
                       Load(L("1"), A("af_ptr")), Load(L("2"), A("pf_ptr")),
                       CallLoaded(C("call", 24), L("1"), A("af_ptr"), <<L("2")>>),
                       Store(F("minus"), A("pf_ptr"))>>) @@
       ("if.end"  :> <<Load(L("3"), A("af_ptr")), Load(L("4"), A("pf_ptr")),
                       CallLoaded(C("call2", 27), L("3"), A("af_ptr"), <<L("4")>>),
                       Return(N(0))>>),
     expected  |-> {<<14, F("plus")>>, <<14, F("minus")>>, <<24, F("foo")>>,
                    <<27, F("foo")>>}]

(* The second example of README.txt: both branches of foo store to the     *)
(* struct it was passed.                                                   *)
ReadmeBranches ==
    [functions |-> <<F("plus"), F("minus"), F("foo"), F("clever"), F("malloc")>>,
     params    |-> [plus |-> << >>, minus |-> << >>, foo |-> <<P("t")>>,
                    clever |-> << >>, malloc |-> <<P("size")>>],
     blocks    |-> [plus |-> <<"p0">>, minus |-> <<"m0">>,
                    foo |-> <<"entry", "if.then", "if.else", "if.end">>,
                    clever |-> <<"c0">>, malloc |-> << >>],
     succ      |-> [p0 |-> {}, m0 |-> {}, c0 |-> {}] @@
                   ("entry" :> {"if.then", "if.else"}) @@
                   ("if.then" :> {"if.end"}) @@ ("if.else" :> {"if.end"}) @@
                   ("if.end" :> {}),
     code      |->
       [p0 |-> Leaf, m0 |-> Leaf,
        c0 |-> <<Alloca(A("t1"), StructPtr),
                 Call(M("c1", 16), F("malloc"), <<N(8)>>),
                 BitCast(I("c2"), M("c1", 16), StructPtr),
                 Store(I("c2"), A("t1")),
                 Load(L("c3"), A("t1")),
                 Call(C("c4", 17), F("foo"), <<L("c3")>>),
                 Load(L("c5"), A("t1")),
                 GetElementPtr(I("c6"), L("c5"), "struct"),
                 Load(L("c7"), I("c6")),
                 CallLoaded(C("c8", 18), L("c7"), I("c6"), << >>),
                 Return(N(0))>>] @@
       ("entry"   :> <<Alloca(A("t.addr"), StructPtr),
                       StoreArgument(P("t"), A("t.addr"), StructPtr)>>) @@
       ("if.then" :> <<Load(L("f1"), A("t.addr")),
                       GetElementPtr(I("f2"), L("f1"), "struct"),
                       Store(F("plus"), I("f2"))>>) @@
       ("if.else" :> <<Load(L("f3"), A("t.addr")),
                       GetElementPtr(I("f4"), L("f3"), "struct"),
                       Store(F("minus"), I("f4"))>>) @@
       ("if.end"  :> <<ReturnVoid>>),
     expected  |-> {<<16, F("malloc")>>, <<17, F("foo")>>, <<18, F("plus")>>,
                    <<18, F("minus")>>}]

(* testcase/test03.c: an array of function pointers, cleared by memset and *)
(* stored to in two branches; the null test is left out.                   *)
Test03 ==
    [functions |-> <<F("plus"), F("minus"), F("clever")>>,
     params    |-> [plus |-> << >>, minus |-> << >>, clever |-> << >>],
     blocks    |-> [plus |-> <<"p0">>, minus |-> <<"m0">>,
                    clever |-> <<"entry", "if.then", "if.end", "if.then2", "if.end4">>],
     succ      |-> [p0 |-> {}, m0 |-> {}, entry |-> {"if.then", "if.end"}] @@
                   ("if.then" :> {"if.end"}) @@ ("if.end" :> {"if.then2", "if.end4"}) @@
                   ("if.then2" :> {"if.end4"}) @@ ("if.end4" :> {}),
     code      |->
       [p0 |-> Leaf, m0 |-> Leaf,
        entry |-> <<Alloca(A("a_fptr"), FnPtr), Alloca(A("s_fptr"), FnPtr),
                    Alloca(A("t_fptr"), <<"array">> \o FnPtr),
                    Store(F("plus"), A("a_fptr")), Store(F("minus"), A("s_fptr")),
                    BitCast(I("1"), A("t_fptr"), <<"pointer", "scalar">>),
                    MemSet(I("1"), N(0))>>] @@
       ("if.then"  :> <<Load(L("2"), A("a_fptr")),
                        GetElementPtr(I("arrayidx"), A("t_fptr"), "arrayid"),
                        Store(L("2"), I("arrayidx"))>>) @@
       ("if.end"   :> << >>) @@
       ("if.then2" :> <<Load(L("3"), A("s_fptr")),
                        GetElementPtr(I("arrayidx3"), A("t_fptr"), "arrayid"),
                        Store(L("3"), I("arrayidx3"))>>) @@
       ("if.end4"  :> <<GetElementPtr(I("arrayidx5"), A("t_fptr"), "arrayid"),
                        Load(L("4"), I("arrayidx5")),
                        CallLoaded(C("call", 27), L("4"), I("arrayidx5"), << >>),
                        Return(N(0))>>),
     expected  |-> {<<27, F("plus")>>, <<27, F("minus")>>}]

(* testcase/test09.c: a struct is copied by memcpy, and its pointer keeps  *)
(* naming the struct that is changed in each branch.                       *)
Test09 ==
    [functions |-> <<F("plus"), F("minus"), F("foo"), F("malloc")>>,
     params    |-> [plus |-> << >>, minus |-> << >>, foo |-> << >>, malloc |-> <<P("size")>>],
     blocks    |-> [plus |-> <<"p0">>, minus |-> <<"m0">>,
                    foo |-> <<"entry", "if.then", "if.else", "if.end">>, malloc |-> << >>],
     succ      |-> [p0 |-> {}, m0 |-> {}, entry |-> {"if.then", "if.else"}] @@
                   ("if.then" :> {"if.end"}) @@ ("if.else" :> {"if.end"}) @@
                   ("if.end" :> {}),
     code      |->
       [p0 |-> Leaf, m0 |-> Leaf,
        entry |-> <<Alloca(A("a_fptr"), Struct), Alloca(A("s_fptr"), Struct),
                    Alloca(A("w_fptr"), StructPtr),
                    Call(M("call", 21), F("malloc"), <<N(8)>>),
                    BitCast(I("0"), M("call", 21), StructPtr),
                    Store(I("0"), A("w_fptr")),
                    GetElementPtr(I("sptr"), A("s_fptr"), "struct"),
                    Store(A("a_fptr"), I("sptr")),
                    Load(L("1"), A("w_fptr")),
                    BitCast(I("2"), L("1"), <<"pointer", "scalar">>),
                    BitCast(I("3"), A("s_fptr"), <<"pointer", "scalar">>),
                    MemCpy(I("2"), I("3"))>>] @@
       ("if.then" :> <<GetElementPtr(I("p_fptr"), A("a_fptr"), "struct"),
                       Store(F("plus"), I("p_fptr")),
                       GetElementPtr(I("sptr1"), A("s_fptr"), "struct"),
                       Load(L("5"), I("sptr1")),
                       GetElementPtr(I("p_fptr2"), L("5"), "struct"),
                       Load(L("6"), I("p_fptr2")),
                       CallLoaded(C("call3", 27), L("6"), I("p_fptr2"), << >>),
                       GetElementPtr(I("p_fptr4"), A("a_fptr"), "struct"),
                       Store(F("minus"), I("p_fptr4"))>>) @@
       ("if.else" :> <<Load(L("8"), A("w_fptr")),
                       GetElementPtr(I("sptr5"), L("8"), "struct"),
                       Load(L("9"), I("sptr5")),
                       GetElementPtr(I("p_fptr6"), L("9"), "struct"),
                       Store(F("minus"), I("p_fptr6"))>>) @@
       ("if.end"  :> <<GetElementPtr(I("p_fptr7"), A("a_fptr"), "struct"),
                       Load(L("10"), I("p_fptr7")),
                       CallLoaded(C("call8", 33), L("10"), I("p_fptr7"), << >>),
                       ReturnVoid>>),
     expected  |-> {<<21, F("malloc")>>, <<27, F("plus")>>, <<33, F("minus")>>}]

(* testcase/test34.c: either of two functions is called and returns the    *)
(* function called next.                                                   *)
Test34 ==
    [functions |-> <<F("plus"), F("minus"), F("foo"), F("clever"), F("moo")>>,
     params    |-> [plus |-> << >>, minus |-> << >>, foo |-> <<P("fc"), P("fd")>>,
                    clever |-> <<P("cc"), P("cd")>>, moo |-> << >>],
     blocks    |-> [plus |-> <<"p0">>, minus |-> <<"m0">>, foo |-> <<"f0">>,
                    clever |-> <<"entry", "if.then", "if.end", "return">>,
                    moo |-> <<"moo.entry", "moo.then", "moo.else", "moo.end">>],
     succ      |-> [p0 |-> {}, m0 |-> {}, f0 |-> {}, entry |-> {"if.then", "if.end"},
                    return |-> {}] @@
                   ("if.then" :> {"return"}) @@ ("if.end" :> {"return"}) @@
                   ("moo.entry" :> {"moo.then", "moo.else", "moo.end"}) @@
                   ("moo.then" :> {"moo.end"}) @@ ("moo.else" :> {"moo.end"}) @@
                   ("moo.end" :> {}),
     code      |->
       [p0 |-> Leaf, m0 |-> Leaf,
        f0 |-> <<Alloca(A("fc.addr"), StructPtr), Alloca(A("fd.addr"), StructPtr),
                 StoreArgument(P("fc"), A("fc.addr"), StructPtr),
                 StoreArgument(P("fd"), A("fd.addr"), StructPtr),
                 Load(L("f0"), A("fc.addr")),
                 GetElementPtr(I("f1"), L("f0"), "struct"),
                 Load(L("f2"), I("f1")),
                 Return(L("f2"))>>,
        entry |-> <<Alloca(A("retval"), FnPtr),
                    Alloca(A("cc.addr"), StructPtr), Alloca(A("cd.addr"), StructPtr),
                    StoreArgument(P("cc"), A("cc.addr"), StructPtr),
                    StoreArgument(P("cd"), A("cd.addr"), StructPtr)>>,
        return |-> <<Load(L("c6"), A("retval")), Return(L("c6"))>>] @@
       ("if.then" :> <<Load(L("c0"), A("cd.addr")),
                       GetElementPtr(I("c1"), L("c0"), "struct"),
                       Load(L("c2"), I("c1")), Store(L("c2"), A("retval"))>>) @@
       ("if.end"  :> <<Load(L("c3"), A("cc.addr")),
                       GetElementPtr(I("c4"), L("c3"), "struct"),
                       Load(L("c5"), I("c4")), Store(L("c5"), A("retval"))>>) @@
       ("moo.entry" :> <<Alloca(A("a_fptr"), Struct), Alloca(A("s_fptr"), Struct),
                         Alloca(A("goo_ptr"), FnPtr), Alloca(A("t_fptr"), FnPtr),
                         GetElementPtr(I("m0"), A("a_fptr"), "struct"),
                         Store(F("plus"), I("m0")),
                         GetElementPtr(I("m1"), A("s_fptr"), "struct"),
                         Store(F("minus"), I("m1")),
                         Store(NullPtr, A("t_fptr"))>>) @@
       ("moo.then" :> <<Store(F("foo"), A("goo_ptr"))>>) @@
       ("moo.else" :> <<Store(F("clever"), A("goo_ptr"))>>) @@
       ("moo.end"  :> <<Load(L("m2"), A("goo_ptr")),
                        CallLoaded(C("call", 41), L("m2"), A("goo_ptr"),
                                   <<A("a_fptr"), A("s_fptr")>>),
                        Store(C("call", 41), A("t_fptr")),
                        Load(L("m3"), A("t_fptr")),
                        CallLoaded(C("call2", 42), L("m3"), A("t_fptr"), << >>),
                        Return(N(0))>>),
     expected  |-> {<<41, F("foo")>>, <<41, F("clever")>>, <<42, F("plus")>>,
                    <<42, F("minus")>>}]

(* void loop(int n) { fptr f = plus; while (n--) { f(); f = minus; } f(); }*)
(* with the calls on lines 4 and 7.                                        *)
Loop ==
    [functions |-> <<F("plus"), F("minus"), F("loop")>>,
     params    |-> [plus |-> << >>, minus |-> << >>, loop |-> << >>],
     blocks    |-> [plus |-> <<"p0">>, minus |-> <<"m0">>,
                    loop |-> <<"entry", "while.cond", "while.body", "while.end">>],
     succ      |-> [p0 |-> {}, m0 |-> {}, entry |-> {"while.cond"}] @@
                   ("while.cond" :> {"while.body", "while.end"}) @@
                   ("while.body" :> {"while.cond"}) @@ ("while.end" :> {}),
     code      |->
       [p0 |-> Leaf, m0 |-> Leaf,
        entry |-> <<Alloca(A("f"), FnPtr), Store(F("plus"), A("f"))>>] @@
       ("while.cond" :> << >>) @@
       ("while.body" :> <<Load(L("0"), A("f")),
                          CallLoaded(C("call", 4), L("0"), A("f"), << >>),
                          Store(F("minus"), A("f"))>>) @@
       ("while.end"  :> <<Load(L("1"), A("f")),
                          CallLoaded(C("call1", 7), L("1"), A("f"), << >>),
                          ReturnVoid>>),
     expected  |-> {<<4, F("plus")>>, <<4, F("minus")>>, <<7, F("plus")>>, <<7, F("minus")>>}]

-----------------------------------------------------------------------------
MCProgram == {Test33, Test00, ReadmeBranches, Test03, Test09, Test34, Loop}

(* Where a module's blocks and functions lie: the blocks of each function  *)
(* in any order (the same for all functions, by position), the functions   *)
(* in the order they are defined in or the opposite one.                   *)
MCAnywhere(m) ==
    LET n == Len(m.functions)
        names == {m.functions[i][2] : i \in 1 .. n}
        functionAt(name) == CHOOSE i \in 1 .. n : m.functions[i][2] = name
        longest == CHOOSE k \in {Len(m.blocks[name]) : name \in names} :
                      \A name \in names : Len(m.blocks[name]) <= k
        blockAt(b) == CHOOSE i \in 1 .. longest :
                         \E name \in names : i <= Len(m.blocks[name]) /\ m.blocks[name][i] = b
    IN  {[b \in DOMAIN m.succ |-> order[blockAt(b)]] @@
         [name \in names |-> IF reversed THEN n - functionAt(name) ELSE functionAt(name)] :
            order \in Permutations(1 .. longest), reversed \in BOOLEAN}

(* Only the placements in which every block but the first of its function  *)
(* lies after one of its predecessors, as blocks allocated in the order of *)
(* the source do: no block is then analysed before the analysis reaches it.*)
MCAfterPredecessor(m) ==
    {addresses \in MCAnywhere(m) :
        \A b \in DOMAIN m.succ :
            \/ \E name \in DOMAIN m.blocks : m.blocks[name] # << >> /\ Head(m.blocks[name]) = b
            \/ \E p \in DOMAIN m.succ : b \in m.succ[p] /\ addresses[p] < addresses[b]}

(* Test33, Test00 and Loop are analysed in every placement of MCAnywhere.  *)
(* Each of the others fails an assertion in some of those left out for it: *)
(* a block is transferred before the allocation of the variables it uses.  *)
MCPlacement(m) ==
    IF m \in {Test33, Test00, Loop} THEN MCAnywhere(m) ELSE MCAfterPredecessor(m)
=============================================================================
