------------------------------ MODULE MCFindings ------------------------------
(***************************************************************************)
(* Small modules on which the analysis of InterAnalysis does not do what   *)
(* README.txt or its own assertions say.                                   *)
(***************************************************************************)
EXTENDS MCInterAnalysis

(* A module of plus, minus, call(f), which calls f on line 14, and main.   *)
WithMain(mainBlocks, mainSucc, mainCode, expected) ==
    [functions |-> <<F("plus"), F("minus"), F("call"), F("main"), F("malloc")>>,
     params    |-> [plus |-> << >>, minus |-> << >>, call |-> <<P("a_fptr")>>,
                    main |-> << >>, malloc |-> <<P("size")>>],
     blocks    |-> [plus |-> <<"p0">>, minus |-> <<"m0">>, call |-> <<"f0">>,
                    main |-> mainBlocks, malloc |-> << >>],
     succ      |-> [p0 |-> {}, m0 |-> {}, f0 |-> {}] @@ mainSucc,
     code      |-> [p0 |-> Leaf, m0 |-> Leaf, f0 |-> CallArgument(14)] @@ mainCode,
     expected  |-> expected]

(* call(plus); call(plus); plus();  on lines 20, 21 and 22                 *)
CalledTwice ==
    WithMain(<<"entry">>, [entry |-> {}],
             [entry |-> <<Call(C("c0", 20), F("call"), <<F("plus")>>),
                          Call(C("c1", 21), F("call"), <<F("plus")>>),
                          Call(C("c2", 22), F("plus"), << >>),
                          Return(N(0))>>],
             {<<14, F("plus")>>, <<20, F("call")>>, <<21, F("call")>>, <<22, F("plus")>>})

(* if (...) call(plus); else call(minus); plus(); minus();                 *)
(* on lines 20, 22, 23 and 24                                              *)
CalledInBranches ==
    WithMain(<<"entry", "then", "else", "end">>,
             [entry |-> {"then", "else"}, then |-> {"end"}, end |-> {}] @@ ("else" :> {"end"}),
             [entry |-> << >>,
              then  |-> <<Call(C("c0", 20), F("call"), <<F("plus")>>)>>,
              end   |-> <<Call(C("c2", 23), F("plus"), << >>),
                          Call(C("c3", 24), F("minus"), << >>),
                          Return(N(0))>>] @@
             ("else" :> <<Call(C("c1", 22), F("call"), <<F("minus")>>)>>),
             {<<14, F("plus")>>, <<14, F("minus")>>, <<20, F("call")>>, <<22, F("call")>>,
              <<23, F("plus")>>, <<24, F("minus")>>})

(* for (...) { struct fptr *t = malloc(8); }  on line 20                   *)
MallocInLoop ==
    WithMain(<<"entry", "cond", "body", "end">>,
             [entry |-> {"cond"}, cond |-> {"body", "end"}, body |-> {"cond"}, end |-> {}],
             [entry |-> <<Alloca(A("t"), StructPtr)>>,
              cond  |-> << >>,
              body  |-> <<Call(M("c0", 20), F("malloc"), <<N(8)>>),
                          BitCast(I("c1"), M("c0", 20), StructPtr),
                          Store(I("c1"), A("t"))>>,
              end   |-> <<Return(N(0))>>],
             {<<20, F("malloc")>>})

(* struct fptr s; s.f = plus; s.f(); s.f = minus; s.f();                   *)
(* with the calls on lines 21 and 23                                       *)
FieldOverwritten ==
    WithMain(<<"entry">>, [entry |-> {}],
             [entry |-> <<Alloca(A("s"), Struct),
                          GetElementPtr(I("f"), A("s"), "struct"),
                          Store(F("plus"), I("f")),
                          GetElementPtr(I("f1"), A("s"), "struct"),
                          Load(L("0"), I("f1")),
                          CallLoaded(C("call", 21), L("0"), I("f1"), << >>),
                          GetElementPtr(I("f2"), A("s"), "struct"),
                          Store(F("minus"), I("f2")),
                          GetElementPtr(I("f3"), A("s"), "struct"),
                          Load(L("1"), I("f3")),
                          CallLoaded(C("call4", 23), L("1"), I("f3"), << >>),
                          Return(N(0))>>],
             {<<21, F("plus")>>, <<23, F("minus")>>})

-----------------------------------------------------------------------------
(* MCCalledInBranches is what the configuration runs; each of the others,  *)
(* put in its place, fails PrintsExpected in its own way.                  *)
MCCalledInBranches == {CalledInBranches}
MCCalledTwice == {CalledTwice}
MCMallocInLoop == {MallocInLoop}
MCFieldOverwritten == {FieldOverwritten}
=============================================================================
