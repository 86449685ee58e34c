-------------------------- MODULE Interpreter_proofs --------------------------
(***************************************************************************)
(* Theorems about the interpreter for every program: the frames are those  *)
(* of the calls under way, a call disturbs no frame below its own, every   *)
(* value read is one, and the interpreter is a client of the guest's heap. *)
(***************************************************************************)
EXTENDS Interpreter, SequenceTheorems, FiniteSetTheorems, TLAPS

-----------------------------------------------------------------------------
(* A vector after its last element was removed.                            *)
LEMMA AllButLast ==
    ASSUME NEW S, NEW s \in Seq(S), s # << >>
    PROVE  /\ Front(s) \in Seq(S) /\ Len(Front(s)) = Len(s) - 1
           /\ DOMAIN Front(s) \subseteq DOMAIN s
           /\ \A i \in DOMAIN Front(s) : Front(s)[i] = s[i]
<1>1. Len(s) \in Nat \ {0}
  BY EmptySeq
<1>2. /\ SubSeq(s, 1, Len(s) - 1) \in Seq(S)
      /\ Len(SubSeq(s, 1, Len(s) - 1)) = Len(s) - 1
      /\ \A i \in 1 .. Len(s) - 1 : SubSeq(s, 1, Len(s) - 1)[i] = s[i]
  <2>1. \A i \in 1 .. Len(s) - 1 : s[i] \in S
    BY <1>1, ElementOfSeq
  <2> DEFINE n == Len(s) - 1
  <2>2. n \in Int
    BY <1>1
  <2>3. /\ SubSeq(s, 1, n) \in Seq(S)
        /\ Len(SubSeq(s, 1, n)) = IF 1 <= n THEN n - 1 + 1 ELSE 0
        /\ \A i \in 1 .. n - 1 + 1 : SubSeq(s, 1, n)[i] = s[1 + i - 1]
    <3> HIDE DEF n
    <3> QED
      BY <2>1, <2>2, SubSeqProperties DEF n
  <2>4. Len(SubSeq(s, 1, n)) = n
    <3>1. n \in Nat
      BY <1>1
    <3> HIDE DEF n
    <3>2. n - 1 + 1 = n /\ (~(1 <= n) => n = 0)
      BY <3>1
    <3>3. CASE 1 <= n
      BY <2>3, <3>2, <3>3
    <3>4. CASE ~(1 <= n)
      BY <2>3, <3>2, <3>4
    <3> QED
      BY <3>3, <3>4
  <2>5. ASSUME NEW i \in 1 .. n
        PROVE  SubSeq(s, 1, n)[i] = s[i]
    <3>1. i \in 1 .. n - 1 + 1 /\ 1 + i - 1 = i
      BY <1>1
    <3>2. SubSeq(s, 1, n)[i] = s[1 + i - 1]
      BY <2>3, <3>1
    <3> QED
      BY <3>1, <3>2
  <2> QED
    BY <2>3, <2>4, <2>5
<1> QED
  BY <1>1, <1>2 DEF Front

-----------------------------------------------------------------------------
(* Counting the calls under way.                                           *)
Leaving(tasks) == {i \in DOMAIN tasks : tasks[i].do = "leave"}

LEMMA CallsAreCounted ==
    ASSUME NEW S, NEW s \in Seq(S)
    PROVE  IsFiniteSet(Leaving(s)) /\ CallsUnderWay(s) = Cardinality(Leaving(s))
           /\ CallsUnderWay(s) \in Nat
<1>1. DOMAIN s = 1 .. Len(s) /\ Len(s) \in Nat
  OBVIOUS
<1>2. IsFiniteSet(DOMAIN s)
  BY <1>1, FS_Interval
<1>3. IsFiniteSet(Leaving(s))
  BY <1>2, FS_Subset DEF Leaving
<1> QED
  BY <1>3, FS_CardinalityType DEF CallsUnderWay, Leaving

LEMMA CallsOfConcatenation ==
    ASSUME NEW S, NEW s \in Seq(S), NEW t \in Seq(S)
    PROVE  CallsUnderWay(s \o t) = CallsUnderWay(s) + CallsUnderWay(t)
<1> DEFINE n == Len(s)
           moved == {n + i : i \in Leaving(t)}
<1>1. /\ n \in Nat /\ DOMAIN s = 1 .. n /\ DOMAIN t = 1 .. Len(t) /\ Len(t) \in Nat
      /\ DOMAIN (s \o t) = 1 .. n + Len(t)
      /\ \A i \in 1 .. n : (s \o t)[i] = s[i]
      /\ \A i \in 1 .. Len(t) : (s \o t)[n + i] = t[i]
  OBVIOUS
<1> HIDE DEF n
<1>2. Leaving(s \o t) = Leaving(s) \cup moved
  <2>1. ASSUME NEW i \in Leaving(s \o t)
        PROVE  i \in Leaving(s) \cup moved
    <3>1. i \in 1 .. n + Len(t) /\ (s \o t)[i].do = "leave"
      BY <1>1 DEF Leaving
    <3>2. CASE i <= n
      BY <1>1, <3>1, <3>2 DEF Leaving
    <3>3. CASE ~(i <= n)
      <4>1. i - n \in 1 .. Len(t) /\ n + (i - n) = i
        BY <1>1, <3>1, <3>3
      <4>2. i - n \in Leaving(t)
        BY <1>1, <3>1, <4>1 DEF Leaving
      <4> QED
        BY <4>1, <4>2
    <3> QED
      BY <3>2, <3>3
  <2>2. ASSUME NEW i \in Leaving(s)
        PROVE  i \in Leaving(s \o t)
    BY <1>1, <2>2 DEF Leaving
  <2>3. ASSUME NEW i \in Leaving(t)
        PROVE  n + i \in Leaving(s \o t)
    BY <1>1, <2>3 DEF Leaving
  <2> QED
    BY <2>1, <2>2, <2>3
<1>3. Leaving(s) \cap moved = {}
  BY <1>1 DEF Leaving
<1>4. IsFiniteSet(moved) /\ Cardinality(moved) = Cardinality(Leaving(t))
  <2>1. IsFiniteSet(Leaving(t))
    BY CallsAreCounted
  <2>2. [i \in Leaving(t) |-> n + i] \in Bijection(Leaving(t), moved)
    <3> DEFINE f == [i \in Leaving(t) |-> n + i]
    <3>1. \A i, j \in Leaving(t) : n + i = n + j => i = j
      BY <1>1 DEF Leaving
    <3>2. f \in [Leaving(t) -> moved] /\ \A i, j \in Leaving(t) : f[i] = f[j] => i = j
      BY <3>1
    <3>3. \A m \in moved : \E i \in Leaving(t) : f[i] = m
      OBVIOUS
    <3> QED
      BY <3>2, <3>3 DEF Bijection, Injection, IsInjective, Surjection
  <2> QED
    BY <2>1, <2>2, FS_Bijection DEF ExistsBijection
<1>5. Cardinality(Leaving(s) \cup moved) = Cardinality(Leaving(s)) + Cardinality(moved)
  <2>1. IsFiniteSet(Leaving(s))
    BY CallsAreCounted
  <2>2. /\ Cardinality(Leaving(s) \cup moved)
           = Cardinality(Leaving(s)) + Cardinality(moved) - Cardinality(Leaving(s) \cap moved)
    BY <1>4, <2>1, FS_Union
  <2>3. Cardinality(Leaving(s)) \in Nat /\ Cardinality(moved) \in Nat
    BY <1>4, <2>1, FS_CardinalityType
  <2>4. Cardinality(Leaving(s) \cap moved) = 0
    BY <1>3, FS_EmptySet
  <2> HIDE DEF moved
  <2> QED
    BY <2>2, <2>3, <2>4
<1>6. s \o t \in Seq(S)
  OBVIOUS
<1> QED
  BY <1>2, <1>4, <1>5, <1>6, CallsAreCounted

LEMMA OneMore ==
    ASSUME NEW S, NEW s \in Seq(S), NEW t \in Seq(S), Len(t) = 1
    PROVE  /\ Len(s) \in Nat /\ DOMAIN s = 1 .. Len(s)
           /\ Len(s \o t) = Len(s) + 1 /\ DOMAIN (s \o t) = 1 .. Len(s) + 1
           /\ \A i \in 1 .. Len(s) : (s \o t)[i] = s[i]
           /\ (s \o t)[Len(s) + 1] = t[1]
<1> DEFINE n == Len(s)
           m == Len(t)
<1>1. /\ n \in Nat /\ DOMAIN s = 1 .. n /\ m \in Nat
      /\ s \o t \in Seq(S) /\ Len(s \o t) = n + m
      /\ \A i \in 1 .. n + m : (s \o t)[i] = IF i <= n THEN s[i] ELSE t[i - n]
  <2>1. n \in Nat /\ DOMAIN s = 1 .. n /\ m \in Nat
    OBVIOUS
  <2> QED
    BY <2>1, ConcatProperties, Zenon
<1>2. m = 1
  OBVIOUS
<1> HIDE DEF n, m
<1>3. Len(s \o t) = n + 1 /\ DOMAIN (s \o t) = 1 .. n + 1
  BY <1>1, <1>2
<1>4. (s \o t)[n + 1] = t[1]
  <2>1. n + 1 \in 1 .. n + m /\ ~(n + 1 <= n) /\ n + 1 - n = 1
    BY <1>1, <1>2
  <2> QED
    BY <1>1, <2>1
<1>5. \A i \in 1 .. n : (s \o t)[i] = s[i]
  <2>1. \A i \in 1 .. n : i \in 1 .. n + m /\ i <= n
    BY <1>1, <1>2
  <2> QED
    BY <1>1, <2>1
<1> QED
  BY <1>1, <1>3, <1>4, <1>5 DEF n

LEMMA NoCallsInOthers ==
    ASSUME NEW S, NEW s \in Seq(S), \A i \in DOMAIN s : s[i].do # "leave"
    PROVE  CallsUnderWay(s) = 0
<1>1. Leaving(s) = {}
  BY DEF Leaving
<1> QED
  BY <1>1, CallsAreCounted, FS_EmptySet

-----------------------------------------------------------------------------
(* The invariant: what is still to be visited are nodes of the program,    *)
(* main is entered once everything before it was, and there is a frame for *)
(* each call under way, and one for main.                                  *)
Doing == {"init", "visit", "child", "apply", "test", "global"}

(* Tasks that may replace the first: visits, and what follows them.        *)
Work == {t \in [do : Doing, node : DOMAIN program.node] :
            t.do = "test" => Node(t.node).kind \in Control}

Leaves ==
    {t \in [do : {"leave"}, node : DOMAIN program.node] : Node(t.node).kind = "call"}

Pending == Work \cup Leaves \cup {Task("main", 0)}

Fields == {"vars", "exprs", "retVal", "hasRetVal"}

IsStack(stack) ==
    /\ \E S : stack \in Seq(S)
    /\ \A i \in DOMAIN stack : DOMAIN stack[i] = Fields

IInv ==
    /\ IsProgram(program)
    /\ todo \in Seq(Pending)
    /\ \A i \in DOMAIN todo : todo[i].do = "main" => i = Len(todo)
    /\ IsStack(dStack)
    /\ \/ Len(dStack) = 1 + CallsUnderWay(todo)
       \/ todo = << >> /\ dStack = << >>

LEMMA TasksAreWork ==
    ASSUME NEW nodes \in Seq(DOMAIN program.node), NEW do \in Doing \ {"test"}
    PROVE  Tasks(do, nodes) \in Seq(Work)
<1>1. \A i \in DOMAIN nodes : Task(do, nodes[i]) \in Work
  BY DEF Task, Work
<1>2. DOMAIN nodes = 1 .. Len(nodes) /\ Len(nodes) \in Nat
  OBVIOUS
<1> QED
  BY <1>1, <1>2 DEF Tasks

LEMMA TaskIsWork ==
    ASSUME NEW n \in DOMAIN program.node, NEW do \in Doing,
           do = "test" => Node(n).kind \in Control
    PROVE  <<Task(do, n)>> \in Seq(Work)
BY DEF Task, Work

LEMMA WorkIsNoCall ==
    ASSUME NEW tasks \in Seq(Work)
    PROVE  /\ tasks \in Seq(Pending)
           /\ CallsUnderWay(tasks) = 0
           /\ \A i \in DOMAIN tasks : tasks[i].do # "main"
<1>1. \A i \in DOMAIN tasks : tasks[i] \in Work
  OBVIOUS
<1>2. \A i \in DOMAIN tasks : tasks[i].do \in Doing
  BY <1>1 DEF Work
<1>3. \A i \in DOMAIN tasks : tasks[i].do # "leave" /\ tasks[i].do # "main"
  BY <1>2 DEF Doing
<1>4. tasks \in Seq(Pending)
  <2>1. Work \subseteq Pending
    BY DEF Work, Pending
  <2>2. \A i \in DOMAIN tasks : tasks[i] \in Pending
    BY <1>1, <2>1
  <2>3. DOMAIN tasks = 1 .. Len(tasks) /\ Len(tasks) \in Nat
    OBVIOUS
  <2>4. tasks \in [1 .. Len(tasks) -> Pending]
    BY <2>2, <2>3
  <2> QED
    BY <2>3, <2>4
<1> QED
  BY <1>3, <1>4, NoCallsInOthers

LEMMA NothingPending ==
    /\ << >> \in Seq(Pending) /\ CallsUnderWay(<< >>) = 0
    /\ \A i \in DOMAIN << >> : << >>[i].do # "main"
<1>1. << >> \in Seq(Pending) /\ DOMAIN << >> = {}
  OBVIOUS
<1>2. \A i \in DOMAIN << >> : << >>[i].do # "leave" /\ << >>[i].do # "main"
  BY <1>1
<1> QED
  BY <1>1, <1>2, NoCallsInOthers

(* The head of the host's stack, and what lies below it.                   *)
LEMMA HeadAndTail ==
    ASSUME NEW S, NEW s \in Seq(S), s # << >>
    PROVE  /\ Head(s) = s[1] /\ Head(s) \in S
           /\ Tail(s) \in Seq(S)
           /\ Len(s) \in Nat \ {0} /\ Len(Tail(s)) = Len(s) - 1
           /\ \A i \in DOMAIN Tail(s) : i + 1 \in DOMAIN s /\ Tail(s)[i] = s[i + 1]
           /\ s = <<Head(s)>> \o Tail(s)
<1>1. Len(s) \in Nat \ {0}
  BY EmptySeq
<1>2. Head(s) = s[1] /\ Head(s) \in S /\ Tail(s) \in Seq(S) /\ Len(Tail(s)) = Len(s) - 1
  BY <1>1, HeadTailProperties
<1>3. \A i \in 1 .. Len(s) - 1 : Tail(s)[i] = s[i + 1]
  BY <1>1, HeadTailProperties
<1>4. \A i \in DOMAIN Tail(s) : i + 1 \in DOMAIN s /\ Tail(s)[i] = s[i + 1]
  BY <1>1, <1>2, <1>3
<1> QED
  BY <1>1, <1>2, <1>4, HeadTailProperties

LEMMA CallsBelowHead ==
    ASSUME IInv, todo # << >>
    PROVE  /\ CallsUnderWay(Tail(todo)) \in Nat
           /\ Head(todo).do = "leave" => CallsUnderWay(todo) = 1 + CallsUnderWay(Tail(todo))
           /\ Head(todo).do # "leave" => CallsUnderWay(todo) = CallsUnderWay(Tail(todo))
<1> DEFINE first == <<Head(todo)>>
<1>1. /\ todo \in Seq(Pending) /\ first \in Seq(Pending) /\ Tail(todo) \in Seq(Pending)
      /\ todo = first \o Tail(todo)
  BY HeadAndTail DEF IInv
<1>2. CallsUnderWay(todo) = CallsUnderWay(first) + CallsUnderWay(Tail(todo))
  BY <1>1, CallsOfConcatenation
<1>3. CallsUnderWay(Tail(todo)) \in Nat
  BY <1>1, CallsAreCounted
<1>4. ASSUME Head(todo).do = "leave"
      PROVE  CallsUnderWay(first) = 1
  <2>1. Leaving(first) = {1}
    BY <1>4 DEF Leaving
  <2> QED
    BY <1>1, <2>1, CallsAreCounted, FS_Singleton
<1>5. ASSUME Head(todo).do # "leave"
      PROVE  CallsUnderWay(first) = 0
  <2>1. \A i \in DOMAIN first : first[i].do # "leave"
    BY <1>5
  <2> QED
    BY <1>1, <2>1, NoCallsInOthers
<1> QED
  BY <1>2, <1>3, <1>4, <1>5

(* The head replaced by work, and for a call also by the leaving of it.    *)
LEMMA TodoAfter ==
    ASSUME IInv, todo # << >>, program' = program, NEW tasks \in Seq(Pending),
           \A i \in DOMAIN tasks : tasks[i].do # "main", Then(tasks)
    PROVE  /\ todo' \in Seq(Pending')
           /\ \A i \in DOMAIN todo' : todo'[i].do = "main" => i = Len(todo')
           /\ CallsUnderWay(todo') = CallsUnderWay(tasks) + CallsUnderWay(Tail(todo))
<1> DEFINE rest == Tail(todo)
<1>1. /\ rest \in Seq(Pending) /\ Len(rest) = Len(todo) - 1 /\ Len(todo) \in Nat
      /\ \A i \in DOMAIN rest : i + 1 \in DOMAIN todo /\ rest[i] = todo[i + 1]
  BY HeadAndTail DEF IInv
<1>2. todo' = tasks \o rest /\ Pending' = Pending
  BY DEF Then, Pending, Leaves, Work, Node
<1>3. /\ todo' \in Seq(Pending)
      /\ Len(todo') = Len(tasks) + Len(rest) /\ Len(tasks) \in Nat /\ Len(rest) \in Nat
      /\ DOMAIN todo' = 1 .. Len(todo') /\ DOMAIN tasks = 1 .. Len(tasks)
      /\ \A i \in 1 .. Len(tasks) : todo'[i] = tasks[i]
      /\ \A i \in 1 .. Len(rest) : todo'[Len(tasks) + i] = rest[i]
  BY <1>1, <1>2
<1>4. ASSUME NEW i \in DOMAIN todo', todo'[i].do = "main"
      PROVE  i = Len(todo')
  <2>1. i \notin 1 .. Len(tasks)
    BY <1>3, <1>4
  <2> DEFINE k == i - Len(tasks)
  <2>2. k \in 1 .. Len(rest) /\ Len(tasks) + k = i
    BY <1>3, <2>1
  <2>3. k \in DOMAIN rest /\ rest[k].do = "main"
    <3>1. k \in DOMAIN rest
      BY <1>1, <2>2
    <3>2. rest[k] = todo'[Len(tasks) + k]
      BY <1>3, <2>2
    <3> QED
      BY <1>4, <2>2, <3>1, <3>2
  <2>4. k + 1 = Len(todo)
    BY <1>1, <2>3 DEF IInv
  <2> QED
    BY <1>1, <1>3, <2>2, <2>4
<1>5. CallsUnderWay(todo') = CallsUnderWay(tasks) + CallsUnderWay(rest)
  BY <1>1, <1>2, CallsOfConcatenation
<1> QED
  BY <1>2, <1>3, <1>4, <1>5

-----------------------------------------------------------------------------
(* The stack of frames.                                                    *)
LEMMA TopIsFrame ==
    ASSUME IInv, todo # << >>
    PROVE  /\ Len(dStack) = 1 + CallsUnderWay(todo) /\ Len(dStack) \in Nat \ {0}
           /\ DOMAIN dStack = 1 .. Len(dStack)
           /\ DOMAIN Top = Fields
<1>1. Len(dStack) = 1 + CallsUnderWay(todo) /\ CallsUnderWay(todo) \in Nat
  BY CallsAreCounted DEF IInv
<1>2. DOMAIN dStack = 1 .. Len(dStack)
  BY DEF IInv, IsStack
<1> QED
  BY <1>1, <1>2 DEF IInv, IsStack, Top

LEMMA TopReplaced ==
    ASSUME IInv, todo # << >>, NEW frame, DOMAIN frame = Fields, ReplaceTop(frame)
    PROVE  /\ IsStack(dStack') /\ Len(dStack') = Len(dStack)
           /\ \A i \in DOMAIN dStack : i # Len(dStack) => dStack'[i] = dStack[i]
<1>1. PICK S : dStack \in Seq(S)
  BY DEF IInv, IsStack
<1>2. dStack' = [dStack EXCEPT ![Len(dStack)] = frame]
  BY DEF ReplaceTop
<1>3. dStack' \in Seq(S \cup {frame}) /\ Len(dStack') = Len(dStack) /\ DOMAIN dStack' = DOMAIN dStack
  <2> DEFINE n == Len(dStack)
  <2>1. n \in Nat /\ DOMAIN dStack = 1 .. n /\ \A i \in 1 .. n : dStack[i] \in S
    BY <1>1
  <2>2. DOMAIN dStack' = 1 .. n /\ dStack' = [i \in 1 .. n |-> IF i = n THEN frame ELSE dStack[i]]
    BY <1>2, <2>1
  <2>3. dStack' \in [1 .. n -> S \cup {frame}]
    BY <2>1, <2>2
  <2> HIDE DEF n
  <2>4. dStack' \in Seq(S \cup {frame}) /\ Len(dStack') = n
    BY <2>1, <2>2, <2>3
  <2> QED
    BY <2>1, <2>2, <2>4 DEF n
<1>4. \A i \in DOMAIN dStack' : DOMAIN dStack'[i] = Fields
  BY <1>2, <1>3 DEF IInv, IsStack
<1> QED
  BY <1>2, <1>3, <1>4 DEF IsStack

(* What an action does that neither enters nor leaves a function.          *)
Quiet ==
    /\ program' = program
    /\ \/ todo' = todo
       \/ todo # << >> /\ Head(todo).do \in Doing /\ \E tasks \in Seq(Work) : Then(tasks)
    /\ \/ dStack' = dStack
       \/ todo # << >> /\ \E frame : DOMAIN frame = Fields /\ ReplaceTop(frame)

LEMMA CurrentIsNode ==
    ASSUME IInv, todo # << >>, Head(todo).do # "main"
    PROVE  /\ Current \in DOMAIN program.node
           /\ Head(todo).do = "test" => Node(Current).kind \in Control
           /\ Head(todo).do = "leave" => Node(Current).kind = "call"
<1>1. Head(todo) \in Pending
  BY HeadAndTail DEF IInv
<1>2. \A t \in Work : t.do \in Doing
  BY DEF Work
<1>3. "leave" \notin Doing
  BY DEF Doing
<1> QED
  BY <1>1, <1>2, <1>3 DEF Pending, Leaves, Work, Task, Current, Node

LEMMA NodesOfProgram ==
    ASSUME IInv, NEW n \in DOMAIN program.node
    PROVE  /\ Node(n).kids \in Seq(DOMAIN program.node)
           /\ Node(n).kind \in Control =>
                 /\ Node(n).init \in Seq(DOMAIN program.node)
                 /\ Node(n).cond \in DOMAIN program.node
                 /\ Node(n).otherwise \in Seq(DOMAIN program.node)
BY DEF IInv, IsProgram, IsNode, Node

LEMMA ExpansionIsWork ==
    ASSUME IInv, NEW n \in DOMAIN program.node
    PROVE  Expansion(n) \in Seq(Work)
<1>1. Tasks("child", Node(n).kids) \in Seq(Work)
  BY NodesOfProgram, TasksAreWork DEF Doing
<1>2. CASE Node(n).kind = "compound"
  BY <1>1, <1>2 DEF Expansion, Control, Loop
<1>3. CASE Node(n).kind \in Control
  <2>1. Tasks("visit", Node(n).init) \in Seq(Work)
    BY <1>3, NodesOfProgram, TasksAreWork DEF Doing
  <2>2. Task("visit", Node(n).cond) \in Work /\ Task("test", n) \in Work
    BY <1>3, NodesOfProgram DEF Work, Doing, Task
  <2>3. Expansion(n) = Tasks("visit", Node(n).init) \o <<Task("visit", Node(n).cond), Task("test", n)>>
    BY <1>3 DEF Expansion, Control, Loop
  <2>4. <<Task("visit", Node(n).cond), Task("test", n)>> \in Seq(Work)
    BY <2>2
  <2> QED
    BY <2>1, <2>3, <2>4
<1>4. <<Task("apply", n)>> \in Seq(Work)
  BY TaskIsWork DEF Doing
<1>5. CASE Node(n).kind = "decl"
  <2>1. InitVisited(n) \in Seq(DOMAIN program.node)
    <3>1. Node(n).kids \in Seq(DOMAIN program.node) /\ << >> \in Seq(DOMAIN program.node)
      BY NodesOfProgram
    <3> QED
      BY <3>1 DEF InitVisited
  <2>2. Tasks("visit", InitVisited(n)) \in Seq(Work)
    BY <2>1, TasksAreWork DEF Doing
  <2>3. Expansion(n) = Tasks("visit", InitVisited(n)) \o <<Task("apply", n)>>
    BY <1>5 DEF Expansion, Control, Loop
  <2> QED
    BY <1>4, <2>2, <2>3
<1>6. CASE Node(n).kind # "compound" /\ Node(n).kind \notin Control /\ Node(n).kind # "decl"
  <2>1. Expansion(n) = Tasks("child", Node(n).kids) \o <<Task("apply", n)>>
    BY <1>6 DEF Expansion
  <2> QED
    BY <1>1, <1>4, <2>1
<1> QED
  BY <1>2, <1>3, <1>5, <1>6

LEMMA AfterTestIsWork ==
    ASSUME IInv, NEW n \in DOMAIN program.node, Node(n).kind \in Control
    PROVE  AfterTest(n) \in Seq(Work)
<1>1. Tasks("visit", Node(n).otherwise) \in Seq(Work) /\ Tasks("visit", Node(n).kids) \in Seq(Work)
  BY NodesOfProgram, TasksAreWork DEF Doing
<1>2. Task("visit", Node(n).cond) \in Work /\ Task("test", n) \in Work
  BY NodesOfProgram DEF Work, Doing, Task
<1>3. <<Task("visit", Node(n).cond), Task("test", n)>> \in Seq(Work) /\ << >> \in Seq(Work)
  BY <1>2
<1> QED
  BY <1>1, <1>3 DEF AfterTest

-----------------------------------------------------------------------------
(* Actions that neither enter nor leave a function.                        *)
LEMMA NoChange ==
    ASSUME UNCHANGED machineVars
    PROVE  Quiet
BY DEF machineVars, Quiet

LEMMA HeadDone ==
    ASSUME todo # << >>, Head(todo).do \in Doing, NEW tasks \in Seq(Work), Then(tasks),
           program' = program,
           dStack' = dStack \/ \E frame : DOMAIN frame = Fields /\ ReplaceTop(frame)
    PROVE  Quiet
BY DEF Quiet

LEMMA VisitsAreQuiet ==
    ASSUME IInv, Visit \/ Skip \/ Test \/ VisitGlobal
    PROVE  Quiet
<1>1. CASE Visit
  <2>1. todo # << >> /\ Head(todo).do \in Doing /\ Head(todo).do # "main"
    BY <1>1 DEF Visit, At, Doing
  <2>2. Expansion(Current) \in Seq(Work)
    BY <2>1, CurrentIsNode, ExpansionIsWork
  <2> QED
    BY <1>1, <2>1, <2>2, HeadDone DEF Visit
<1>2. CASE Skip
  <2>1. todo # << >> /\ Head(todo).do \in Doing /\ << >> \in Seq(Work)
    BY <1>2 DEF Skip, At, Doing
  <2> QED
    BY <1>2, <2>1, HeadDone DEF Skip
<1>3. CASE Test
  <2>1. todo # << >> /\ Head(todo).do \in Doing /\ Head(todo).do = "test"
    BY <1>3 DEF Test, At, Doing
  <2>2. AfterTest(Current) \in Seq(Work)
    BY <2>1, CurrentIsNode, AfterTestIsWork
  <2> QED
    BY <1>3, <2>1, <2>2, HeadDone DEF Test
<1>4. CASE VisitGlobal
  <2>1. todo # << >> /\ Head(todo).do \in Doing /\ Head(todo).do # "main"
    BY <1>4 DEF VisitGlobal, At, Doing
  <2>2. Tasks("visit", Node(Current).kids) \in Seq(Work) /\ <<Task("global", Current)>> \in Seq(Work)
    BY <2>1, CurrentIsNode, NodesOfProgram, TasksAreWork, TaskIsWork DEF Doing
  <2>3. Tasks("visit", Node(Current).kids) \o <<Task("global", Current)>> \in Seq(Work)
    BY <2>2
  <2> QED
    BY <1>4, <2>1, <2>3, HeadDone DEF VisitGlobal
<1> QED
  BY <1>1, <1>2, <1>3, <1>4

(* An expression or statement applied: its value goes to the top frame.    *)
LEMMA AppliedIsQuiet ==
    ASSUME IInv, At("apply") \/ At("global"), Then(<< >>), program' = program,
           dStack' = dStack \/ \E frame : DOMAIN frame = DOMAIN Top /\ ReplaceTop(frame)
    PROVE  Quiet
<1>1. todo # << >> /\ Head(todo).do \in Doing /\ << >> \in Seq(Work)
  BY DEF At, Doing
<1>2. DOMAIN Top = Fields
  BY <1>1, TopIsFrame
<1> QED
  BY <1>1, <1>2, HeadDone

LEMMA BindingKeepsFields ==
    ASSUME NEW frame, NEW key, NEW val
    PROVE  /\ DOMAIN BindStmt(frame, key, val) = DOMAIN frame
           /\ DOMAIN BindDecl(frame, key, val) = DOMAIN frame
BY DEF BindStmt, BindDecl

LEMMA ExpressionsAreQuiet ==
    ASSUME IInv,
           Evaluate \/ Load \/ AssignVariable \/ AssignMemory \/ AssignNothing \/ Increment
    PROVE  Quiet
<1>1. CASE Evaluate
  BY <1>1, AppliedIsQuiet, BindingKeepsFields DEF Evaluate, Ready, Done
<1>2. CASE Load
  BY <1>2, AppliedIsQuiet, BindingKeepsFields DEF Load, Ready, Done
<1>3. CASE AssignVariable
  <2> DEFINE frame == BindStmt(Top, Current, Val(Kid(Current, 2)))
  <2>1. DOMAIN frame = DOMAIN Top
    BY BindingKeepsFields
  <2>2. ASSUME NEW x, NEW val
        PROVE  DOMAIN BindDecl(frame, x, val) = DOMAIN Top
    BY <2>1, BindingKeepsFields
  <2>3. \E f : DOMAIN f = DOMAIN Top /\ ReplaceTop(f)
    BY <1>3, <2>1, <2>2 DEF AssignVariable
  <2> QED
    BY <1>3, <2>3, AppliedIsQuiet DEF AssignVariable, Ready, Done
<1>4. CASE AssignMemory
  BY <1>4, AppliedIsQuiet, BindingKeepsFields DEF AssignMemory, Ready, Done
<1>5. CASE AssignNothing
  BY <1>5, AppliedIsQuiet, BindingKeepsFields DEF AssignNothing, Ready, Done
<1>6. CASE Increment
  <2> DEFINE sub == Kid(Current, 1)
             val == Val(sub) + 1
             frame == BindStmt(BindStmt(Top, sub, val), Current, val)
  <2>1. DOMAIN frame = DOMAIN Top
    BY BindingKeepsFields
  <2>2. DOMAIN BindDecl(frame, Node(sub).var, val) = DOMAIN Top
    BY <2>1, BindingKeepsFields
  <2>3. \E f : DOMAIN f = DOMAIN Top /\ ReplaceTop(f)
    BY <1>6, <2>1, <2>2 DEF Increment
  <2> QED
    BY <1>6, <2>3, AppliedIsQuiet DEF Increment, Ready, Done
<1> QED
  BY <1>1, <1>2, <1>3, <1>4, <1>5, <1>6

LEMMA StatementsAreQuiet ==
    ASSUME IInv, Declare \/ DeclareArray \/ Return \/ BindGlobal
    PROVE  Quiet
<1>1. CASE Declare
  BY <1>1, AppliedIsQuiet, BindingKeepsFields DEF Declare, Ready, Done
<1>2. CASE DeclareArray
  BY <1>2, AppliedIsQuiet, BindingKeepsFields DEF DeclareArray, Ready, Done
<1>3. CASE Return
  <2>1. DOMAIN [Top EXCEPT !.retVal = Val(Kid(Current, 1)), !.hasRetVal = TRUE] = DOMAIN Top
    OBVIOUS
  <2> QED
    BY <1>3, <2>1, AppliedIsQuiet DEF Return, Ready, Done
<1>4. CASE BindGlobal
  BY <1>4, AppliedIsQuiet DEF BindGlobal, Done
<1> QED
  BY <1>1, <1>2, <1>3, <1>4

LEMMA ExternalCallsAreQuiet ==
    ASSUME IInv, CallGet \/ CallPrint \/ CallMalloc \/ CallFree
    PROVE  Quiet
<1>1. CASE CallGet
  BY <1>1, AppliedIsQuiet, BindingKeepsFields DEF CallGet, Calls, Ready
<1>2. CASE CallPrint
  BY <1>2, AppliedIsQuiet DEF CallPrint, Calls, Ready, Done
<1>3. CASE CallMalloc
  BY <1>3, AppliedIsQuiet, BindingKeepsFields DEF CallMalloc, Calls, Ready, Done
<1>4. CASE CallFree
  BY <1>4, AppliedIsQuiet DEF CallFree, Calls, Ready, Done
<1> QED
  BY <1>1, <1>2, <1>3, <1>4

LEMMA StopsAreQuiet ==
    ASSUME Aborts \/ Divide \/ ReleaseArray \/ CloseHeap \/ UNCHANGED vars
    PROVE  Quiet
BY DEF Aborts, Divide, ReleaseArray, CloseHeap, vars, machineVars, Quiet

LEMMA QuietKeepsIt ==
    ASSUME IInv, Quiet
    PROVE  IInv'
<1>1. IsStack(dStack') /\ Len(dStack') = Len(dStack)
  BY TopReplaced DEF Quiet, IInv
<1>2. CASE todo' = todo
  <2>1. program' = program /\ Pending' = Pending
    BY DEF Quiet, Pending, Leaves, Work, Node
  <2>2. todo = << >> /\ dStack = << >> => dStack' = << >>
    BY DEF Quiet
  <2> QED
    BY <1>1, <1>2, <2>1, <2>2 DEF IInv
<1>3. ASSUME todo # << >>, Head(todo).do \in Doing, NEW tasks \in Seq(Work), Then(tasks)
      PROVE  IInv'
  <2>1. program' = program
    BY DEF Quiet
  <2>2. /\ tasks \in Seq(Pending) /\ CallsUnderWay(tasks) = 0
        /\ \A i \in DOMAIN tasks : tasks[i].do # "main"
    BY WorkIsNoCall
  <2>3. Head(todo).do # "leave"
    BY <1>3 DEF Doing
  <2>4. /\ todo' \in Seq(Pending')
        /\ \A i \in DOMAIN todo' : todo'[i].do = "main" => i = Len(todo')
        /\ CallsUnderWay(todo') = CallsUnderWay(tasks) + CallsUnderWay(Tail(todo))
    BY <1>3, <2>1, <2>2, TodoAfter
  <2>5. Len(dStack') = 1 + CallsUnderWay(todo')
    BY <1>1, <1>3, <2>2, <2>3, <2>4, CallsBelowHead, TopIsFrame
  <2> QED
    BY <1>1, <2>1, <2>4, <2>5 DEF IInv
<1> QED
  BY <1>2, <1>3 DEF Quiet

-----------------------------------------------------------------------------
(* Actions that enter or leave a function.                                 *)
LEMMA CallEffect ==
    ASSUME IInv, Call
    PROVE  /\ IInv'
           /\ Len(dStack') = Len(dStack) + 1
           /\ \A i \in DOMAIN dStack : dStack'[i] = dStack[i]
<1> DEFINE f == Node(Current).callee
           body == Tasks("child", Node(Body(f)).kids)
           leave == <<Task("leave", Current)>>
           frame == [NewFrame EXCEPT !.vars = Arguments(f)]
<1>1. /\ todo # << >> /\ Head(todo).do = "apply" /\ program' = program
      /\ f \in DOMAIN program.body /\ Then(body \o leave)
      /\ dStack' = Append(dStack, frame)
  BY DEF Call, CallsFunction, Ready, At, EnterBody
<1>2. Current \in DOMAIN program.node /\ Body(f) \in DOMAIN program.node
  BY <1>1, CurrentIsNode DEF IInv, IsProgram, Body
<1>3. body \in Seq(Work)
  BY <1>2, NodesOfProgram, TasksAreWork DEF Doing
<1>4. /\ body \in Seq(Pending) /\ CallsUnderWay(body) = 0
      /\ \A i \in DOMAIN body : body[i].do # "main"
  BY <1>3, WorkIsNoCall
<1>5. leave \in Seq(Pending) /\ CallsUnderWay(leave) = 1
  <2>1. Task("leave", Current) \in Pending
    BY <1>1, <1>2 DEF Pending, Leaves, Task, CallsFunction, Call
  <2>2. leave \in Seq(Pending)
    BY <2>1
  <2>3. Leaving(leave) = {1}
    BY DEF Leaving, Task
  <2>4. CallsUnderWay(leave) = Cardinality({1})
    BY <2>2, <2>3, CallsAreCounted
  <2> QED
    BY <2>2, <2>4, FS_Singleton
<1>6. /\ body \o leave \in Seq(Pending) /\ CallsUnderWay(body \o leave) = 1
      /\ \A i \in DOMAIN (body \o leave) : (body \o leave)[i].do # "main"
  <2>2. leave[1].do # "main" /\ Len(leave) = 1
    BY DEF Task
  <2> HIDE DEF body, leave
  <2>1. CallsUnderWay(body \o leave) = 1
    <3>1. CallsUnderWay(body \o leave) = CallsUnderWay(body) + CallsUnderWay(leave)
      BY <1>4, <1>5, CallsOfConcatenation
    <3> QED
      BY <1>4, <1>5, <3>1
  <2>3. /\ Len(body) \in Nat /\ DOMAIN body = 1 .. Len(body)
        /\ DOMAIN (body \o leave) = 1 .. Len(body) + 1
        /\ \A i \in 1 .. Len(body) : (body \o leave)[i] = body[i]
        /\ (body \o leave)[Len(body) + 1] = leave[1]
    BY <1>4, <1>5, <2>2, OneMore
  <2>4. \A i \in DOMAIN (body \o leave) : i \in 1 .. Len(body) \/ i = Len(body) + 1
    BY <2>3
  <2>5. \A i \in DOMAIN (body \o leave) : (body \o leave)[i].do # "main"
    BY <1>4, <2>2, <2>3, <2>4
  <2> QED
    BY <1>4, <1>5, <2>1, <2>5
<1>7. /\ todo' \in Seq(Pending')
      /\ \A i \in DOMAIN todo' : todo'[i].do = "main" => i = Len(todo')
      /\ CallsUnderWay(todo') = 1 + CallsUnderWay(Tail(todo))
  BY <1>1, <1>6, TodoAfter
<1>8. /\ IsStack(dStack') /\ Len(dStack') = Len(dStack) + 1
      /\ \A i \in DOMAIN dStack : dStack'[i] = dStack[i]
  <2>1. DOMAIN frame = Fields
    BY DEF NewFrame, Fields
  <2> HIDE DEF frame
  <2>2. PICK S : dStack \in Seq(S)
    BY DEF IInv, IsStack
  <2>3. dStack \in Seq(S \cup {frame})
    <3>1. Len(dStack) \in Nat /\ dStack \in [1 .. Len(dStack) -> S \cup {frame}]
      BY <2>2
    <3> QED
      BY <3>1
  <2>4. /\ dStack' \in Seq(S \cup {frame}) /\ Len(dStack') = Len(dStack) + 1
        /\ DOMAIN dStack' = 1 .. Len(dStack) + 1 /\ DOMAIN dStack = 1 .. Len(dStack)
        /\ \A i \in 1 .. Len(dStack) : dStack'[i] = dStack[i]
        /\ dStack'[Len(dStack) + 1] = frame
    BY <1>1, <2>3
  <2>5. \A i \in DOMAIN dStack' : i \in 1 .. Len(dStack) \/ i = Len(dStack) + 1
    BY <2>4
  <2>6. \A i \in DOMAIN dStack' : DOMAIN dStack'[i] = Fields
    BY <2>1, <2>4, <2>5 DEF IInv, IsStack
  <2> QED
    BY <2>4, <2>6 DEF IsStack
<1>9. Len(dStack') = 1 + CallsUnderWay(todo')
  BY <1>1, <1>7, <1>8, CallsBelowHead, TopIsFrame
<1> QED
  BY <1>1, <1>7, <1>8, <1>9 DEF IInv

LEMMA LeaveEffect ==
    ASSUME IInv, Leave
    PROVE  /\ IInv'
           /\ Len(dStack') = Len(dStack) - 1
           /\ \A i \in DOMAIN dStack' : i # Len(dStack') => dStack'[i] = dStack[i]
           /\ dStack'[Len(dStack')] = BindStmt(dStack[Len(dStack')], Current, Top.retVal)
<1> DEFINE n == Len(dStack) - 1
           frame == BindStmt(Front(dStack)[n], Current, Top.retVal)
<1>1. /\ todo # << >> /\ Head(todo).do = "leave" /\ program' = program
      /\ Then(<< >>) /\ dStack' = [Front(dStack) EXCEPT ![n] = frame]
  BY DEF Leave, At
<1>2. << >> \in Seq(Pending) /\ CallsUnderWay(<< >>) = 0
  BY NothingPending
<1>3. /\ todo' \in Seq(Pending')
      /\ \A i \in DOMAIN todo' : todo'[i].do = "main" => i = Len(todo')
      /\ CallsUnderWay(todo') = CallsUnderWay(Tail(todo))
      /\ CallsUnderWay(Tail(todo)) \in Nat
  <2> DEFINE none == << >>
  <2>1. /\ none \in Seq(Pending) /\ CallsUnderWay(none) = 0
        /\ \A i \in DOMAIN none : none[i].do # "main"
    BY NothingPending
  <2>2. Then(none)
    BY <1>1
  <2> HIDE DEF none
  <2>3. /\ todo' \in Seq(Pending')
        /\ \A i \in DOMAIN todo' : todo'[i].do = "main" => i = Len(todo')
        /\ CallsUnderWay(todo') = CallsUnderWay(none) + CallsUnderWay(Tail(todo))
    BY <1>1, <2>1, <2>2, TodoAfter
  <2>4. CallsUnderWay(Tail(todo)) \in Nat
    BY <1>1, CallsBelowHead
  <2> QED
    BY <2>1, <2>3, <2>4
<1>4. n = 1 + CallsUnderWay(Tail(todo)) /\ n \in Nat \ {0}
  BY <1>1, <1>3, CallsBelowHead, TopIsFrame
<1>5. PICK S : dStack \in Seq(S)
  BY DEF IInv, IsStack
<1>6. dStack # << >>
  BY <1>4
<1>7. /\ Front(dStack) \in Seq(S) /\ Len(Front(dStack)) = n
      /\ DOMAIN Front(dStack) = 1 .. n
      /\ \A i \in 1 .. n : Front(dStack)[i] = dStack[i] /\ i \in DOMAIN dStack
  BY <1>5, <1>6, AllButLast
<1> HIDE DEF n
<1>8. DOMAIN frame = Fields
  BY <1>4, <1>7, BindingKeepsFields DEF IInv, IsStack
<1>9. /\ DOMAIN dStack' = 1 .. n
      /\ \A i \in 1 .. n : dStack'[i] = IF i = n THEN frame ELSE dStack[i]
  BY <1>1, <1>7
<1>10. IsStack(dStack') /\ Len(dStack') = n
  <2> HIDE DEF frame
  <2>1. dStack' \in [1 .. n -> S \cup {frame}]
    <3>1. \A i \in 1 .. n : dStack[i] \in S
      BY <1>5, <1>7
    <3>2. \A i \in 1 .. n : dStack'[i] \in S \cup {frame}
      BY <1>9, <3>1
    <3>3. dStack' = [i \in 1 .. n |-> dStack'[i]]
      BY <1>1, <1>7
    <3> QED
      BY <3>2, <3>3
  <2>2. dStack' \in Seq(S \cup {frame}) /\ Len(dStack') = n
    BY <1>4, <1>9, <2>1
  <2>3. \A i \in DOMAIN dStack' : DOMAIN dStack'[i] = Fields
    BY <1>7, <1>8, <1>9 DEF IInv, IsStack
  <2> QED
    BY <2>2, <2>3 DEF IsStack
<1>11. dStack'[n] = BindStmt(dStack[n], Current, Top.retVal)
  BY <1>4, <1>7, <1>9
<1>12. Len(dStack') = 1 + CallsUnderWay(todo')
  BY <1>3, <1>4, <1>10
<1>13. IInv'
  BY <1>1, <1>3, <1>10, <1>12 DEF IInv
<1> QED
  BY <1>9, <1>10, <1>11, <1>13 DEF n

LEMMA EnterMainEffect ==
    ASSUME IInv, EnterMain
    PROVE  IInv' /\ Len(dStack) = 1 /\ Len(dStack') = 1
<1> DEFINE body == Tasks("child", Node(Body("main")).kids)
<1>1. /\ todo # << >> /\ Head(todo).do = "main" /\ program' = program
      /\ Then(body) /\ dStack' = <<NewFrame>>
  BY DEF EnterMain, At
<1>2. Body("main") \in DOMAIN program.node
  BY DEF IInv, IsProgram, Body
<1>3. body \in Seq(Work)
  BY <1>2, NodesOfProgram, TasksAreWork DEF Doing
<1>4. /\ body \in Seq(Pending) /\ CallsUnderWay(body) = 0
      /\ \A i \in DOMAIN body : body[i].do # "main"
  BY <1>3, WorkIsNoCall
<1>5. CallsUnderWay(Tail(todo)) = 0
  <2>1. Len(todo) = 1
    <3>1. todo[1].do = "main" /\ 1 \in DOMAIN todo
      BY <1>1, HeadAndTail DEF IInv
    <3> QED
      BY <3>1 DEF IInv
  <2>2. Tail(todo) \in Seq(Pending) /\ Len(Tail(todo)) = 0
    BY <1>1, <2>1, HeadAndTail DEF IInv
  <2>3. Tail(todo) = << >>
    BY <2>2, EmptySeq
  <2> QED
    BY <2>3, NothingPending
<1>6. Len(dStack) = 1
  BY <1>1, <1>5, CallsBelowHead, TopIsFrame
<1>7. /\ todo' \in Seq(Pending')
      /\ \A i \in DOMAIN todo' : todo'[i].do = "main" => i = Len(todo')
      /\ CallsUnderWay(todo') = 0
  <2>1. CallsUnderWay(todo') = CallsUnderWay(body) + CallsUnderWay(Tail(todo))
    BY <1>1, <1>4, TodoAfter
  <2> QED
    BY <1>1, <1>4, <1>5, <2>1, TodoAfter
<1>8. IsStack(dStack') /\ Len(dStack') = 1
  <2>1. DOMAIN NewFrame = Fields
    BY DEF NewFrame, Fields
  <2> HIDE DEF body
  <2>2. dStack' \in Seq({NewFrame}) /\ Len(dStack') = 1 /\ DOMAIN dStack' = {1} /\ dStack'[1] = NewFrame
    BY <1>1
  <2> QED
    BY <2>1, <2>2 DEF IsStack
<1> QED
  BY <1>1, <1>6, <1>7, <1>8 DEF IInv

LEMMA ExitEffect ==
    ASSUME IInv, Exit
    PROVE  IInv' /\ Len(dStack) = 1
<1>1. /\ todo = << >> /\ dStack # << >> /\ todo' = todo /\ program' = program /\ dStack' = << >>
  BY DEF Exit
<1>2. Len(dStack) = 1 + CallsUnderWay(todo) /\ CallsUnderWay(todo) = 0
  BY <1>1, NothingPending DEF IInv
<1>3. IsStack(dStack')
  BY <1>1 DEF IsStack
<1>4. Pending' = Pending
  BY <1>1 DEF Pending, Leaves, Work, Node
<1>5. Len(dStack) = 1
  BY <1>2
<1> QED
  BY <1>1, <1>3, <1>4, <1>5 DEF IInv

-----------------------------------------------------------------------------
LEMMA EveryStep ==
    ASSUME IInv, [Next]_vars
    PROVE  Quiet \/ Call \/ Leave \/ EnterMain \/ Exit
<1>1. CASE Step
  BY <1>1, VisitsAreQuiet, ExpressionsAreQuiet, StatementsAreQuiet, ExternalCallsAreQuiet,
     StopsAreQuiet DEF Step
<1> QED
  BY <1>1, StopsAreQuiet DEF Next

LEMMA InitHoldsIt == Init => IInv
<1> SUFFICES ASSUME Init
             PROVE  IInv
  OBVIOUS
<1> DEFINE inits == Tasks("init", program.globals)
           main == <<Task("main", 0)>>
<1>1. IsProgram(program)
  BY ProgramAssumption DEF Init
<1>2. inits \in Seq(Work)
  BY <1>1, TasksAreWork DEF IsProgram, Doing
<1>3. /\ inits \in Seq(Pending) /\ CallsUnderWay(inits) = 0
      /\ \A i \in DOMAIN inits : inits[i].do # "main"
  BY <1>2, WorkIsNoCall
<1>4. main \in Seq(Pending) /\ Len(main) = 1 /\ CallsUnderWay(main) = 0
  <2>1. main \in Seq(Pending) /\ Len(main) = 1
    BY DEF Pending
  <2>2. \A i \in DOMAIN main : main[i].do # "leave"
    BY DEF Task
  <2> QED
    BY <2>1, <2>2, NoCallsInOthers
<1>5. todo = inits \o main
  BY DEF Init
<1> HIDE DEF inits, main
<1>6. todo \in Seq(Pending) /\ CallsUnderWay(todo) = 0
  BY <1>3, <1>4, <1>5, CallsOfConcatenation
<1>7. ASSUME NEW i \in DOMAIN todo, todo[i].do = "main"
      PROVE  i = Len(todo)
  <2>1. /\ Len(inits) \in Nat /\ DOMAIN inits = 1 .. Len(inits)
        /\ Len(todo) = Len(inits) + 1 /\ DOMAIN todo = 1 .. Len(inits) + 1
        /\ \A k \in 1 .. Len(inits) : todo[k] = inits[k]
    BY <1>3, <1>4, <1>5, OneMore
  <2>2. i \in 1 .. Len(inits) \/ i = Len(inits) + 1
    BY <2>1
  <2> QED
    BY <1>3, <1>7, <2>1, <2>2
<1>8. IsStack(dStack) /\ Len(dStack) = 1
  <2>1. DOMAIN NewFrame = Fields
    BY DEF NewFrame, Fields
  <2>2. dStack \in Seq({NewFrame}) /\ Len(dStack) = 1 /\ DOMAIN dStack = {1} /\ dStack[1] = NewFrame
    BY DEF Init
  <2> QED
    BY <2>1, <2>2 DEF IsStack
<1> QED
  BY <1>1, <1>6, <1>7, <1>8 DEF IInv

THEOREM Inductive == Spec => []IInv
<1>1. Init => IInv
  BY InitHoldsIt
<1>2. IInv /\ [Next]_vars => IInv'
  BY EveryStep, QuietKeepsIt, CallEffect, LeaveEffect, EnterMainEffect, ExitEffect
<1> QED
  BY <1>1, <1>2, PTL DEF Spec

(* For every program, terminating or not: a call changes nothing of the    *)
(* frames below its own but, when it ends, the value of the call           *)
(* expression (callExpr, Environment.h, lines 516-561).                    *)
THEOREM CallersApartAlways == Spec => CallersApart
<1>1. IInv /\ [Next]_vars => FramesBelowKept
  <2> SUFFICES ASSUME IInv, [Next]_vars,
                      NEW i \in DOMAIN dStack, i < Len(dStack) \/ i < Len(dStack')
               PROVE  /\ dStack'[i].vars = dStack[i].vars
                      /\ \A n \in DOMAIN dStack[i].exprs :
                            \/ At("leave") /\ n = Current
                            \/ dStack'[i].exprs[n] = dStack[i].exprs[n]
    BY DEF FramesBelowKept
  <2>1. DOMAIN dStack = 1 .. Len(dStack) /\ Len(dStack) \in Nat
    BY DEF IInv, IsStack
  <2>2. CASE Quiet
    <3>1. Len(dStack') = Len(dStack)
      BY <2>2, TopReplaced DEF Quiet
    <3>2. dStack'[i] = dStack[i]
      BY <2>1, <2>2, <3>1, TopReplaced DEF Quiet
    <3> QED
      BY <3>2
  <2>3. CASE Call
    BY <2>3, CallEffect
  <2>4. CASE Leave
    <3>1. i < Len(dStack)
      BY <2>1, <2>4, LeaveEffect
    <3>2. i \in DOMAIN dStack'
      <4>1. DOMAIN dStack' = 1 .. Len(dStack')
        BY <2>4, LeaveEffect DEF IInv, IsStack
      <4> QED
        BY <2>1, <2>4, <3>1, <4>1, LeaveEffect
    <3>3. CASE i # Len(dStack')
      BY <2>4, <3>2, <3>3, LeaveEffect
    <3>4. CASE i = Len(dStack')
      <4>1. dStack'[i] = BindStmt(dStack[i], Current, Top.retVal) /\ At("leave")
        BY <2>4, <3>4, LeaveEffect DEF Leave
      <4>2. DOMAIN dStack[i] = Fields
        BY DEF IInv, IsStack
      <4>3. /\ dStack'[i].vars = dStack[i].vars
            /\ dStack'[i].exprs = Bound(dStack[i].exprs, Current, Top.retVal)
        BY <4>1, <4>2 DEF BindStmt, Fields
      <4> QED
        BY <4>1, <4>3 DEF Bound
    <3> QED
      BY <3>3, <3>4
  <2>5. CASE EnterMain \/ Exit
    <3>1. i \in 1 .. Len(dStack)
      BY <2>1
    <3>2. Len(dStack) = 1 /\ (Len(dStack') = 0 \/ Len(dStack') = 1)
      BY <2>5, EnterMainEffect, ExitEffect DEF Exit
    <3>3. i = 1
      <4>1. i \in 1 .. 1
        BY <3>1, <3>2
      <4> QED
        BY <4>1
    <3>4. i < Len(dStack) \/ i < Len(dStack')
      OBVIOUS
    <3>5. 1 < 1 \/ 1 < 0
      BY <3>2, <3>3, <3>4
    <3> QED
      BY <3>5
  <2> QED
    BY <2>2, <2>3, <2>4, <2>5, EveryStep
<1> QED
  BY <1>1, Inductive, PTL DEF Spec, CallersApart

-----------------------------------------------------------------------------
(***************************************************************************)
(* The interpreter as the heap's client: where the guest keeps to the      *)
(* integers, every step is one of the program that may pass any address to *)
(* any call (HeapClient), and everything it evaluates has a value.         *)
(***************************************************************************)
Client == INSTANCE HeapClient_proofs WITH
             owned <- << >>, Size <- Address, MaxSize <- AddressSpace - 1

LEMMA ClientSizes == AddressSpace - 1 \in Nat /\ Address \subseteq 0 .. AddressSpace - 1
BY AddressSpaceAssumption DEF Address

(* The heap's operators, in the interpreter and in its client.             *)
LEMMA SameTypes == HeapTypeOK <=> Client!HeapTypeOK
BY DEF HeapTypeOK, Client!HeapTypeOK, IsChunk, Client!IsChunk, Address, Client!Address,
       Word, Client!Word, IntBytes, Client!IntBytes

LEMMA SameCardinality == \A S : Cardinality(S) = Client!Cardinality(S)
<1>1. TAKE S
<1> QED
  BY DEF Cardinality, Client!Cardinality

LEMMA SameStop == \A how : Stop(how) <=> Client!Stop(how)
BY DEF Stop, Client!Stop

LEMMA SameAllocate ==
    ASSUME NEW size, Allocate(size)
    PROVE  Client!Allocate(size)
BY DEF Allocate, Client!Allocate, NewChunk, Client!NewChunk, Capacity, Client!Capacity,
       Length, Client!Length, IntBytes, Client!IntBytes

LEMMA SameAccess ==
    ASSUME NEW addr, HeapGet(addr) \/ AccessFails(addr) \/ \E val \in Value : HeapSet(addr, val)
    PROVE  Client!AccessCall(addr)
<1>1. /\ IntBytes = Client!IntBytes
      /\ \A id : Covers(id, addr) <=> Client!Covers(id, addr)
      /\ \A id : Offset(id, addr) = Client!Offset(id, addr)
  BY DEF Covers, Client!Covers, IntBytes, Client!IntBytes, Offset, Client!Offset
<1>2. StopsAt(addr) = Client!StopsAt(addr)
  BY <1>1 DEF StopsAt, Client!StopsAt
<1>3. \A id : Found(addr, id) <=> Client!Found(addr, id)
  BY <1>2, Zenon DEF Found, Client!Found
<1>4. /\ \A id : Accesses(addr, id) <=> Client!Accesses(addr, id)
      /\ AccessAborts(addr) <=> Client!AccessAborts(addr)
      /\ AccessUndefined(addr) <=> Client!AccessUndefined(addr)
  BY <1>1, <1>2, <1>3 DEF Accesses, Client!Accesses, AccessAborts, Client!AccessAborts,
                          AccessUndefined, Client!AccessUndefined
<1>5. CASE HeapGet(addr)
  BY <1>1, <1>4, <1>5 DEF HeapGet, Client!HeapGet, Client!AccessCall, ReadWord, Client!ReadWord
<1>6. CASE AccessFails(addr)
  BY <1>4, <1>6, SameStop DEF AccessFails, Client!AccessFails, Client!AccessCall
<1>7. ASSUME NEW val \in Value, HeapSet(addr, val)
      PROVE  Client!AccessCall(addr)
  <2>1. \A chunk, offset : WriteWord(chunk, offset, val) = Client!WriteWord(chunk, offset, val)
    BY <1>1 DEF WriteWord, Client!WriteWord
  <2>2. PICK id \in DOMAIN object :
           /\ Accesses(addr, id)
           /\ object' = [object EXCEPT ![id] = WriteWord(object[id], Offset(id, addr), val)]
    BY <1>7 DEF HeapSet
  <2>3. /\ Client!Accesses(addr, id)
        /\ WriteWord(object[id], Offset(id, addr), val)
              = Client!WriteWord(object[id], Client!Offset(id, addr), val)
    BY <1>1, <1>4, <2>1, <2>2
  <2>4. Client!HeapSet(addr, val)
    BY <1>7, <2>2, <2>3 DEF HeapSet, Client!HeapSet
  <2> QED
    BY <2>4 DEF Client!AccessCall
<1> QED
  BY <1>5, <1>6, <1>7

LEMMA SameRelease ==
    ASSUME NEW addr, ReleaseCall(addr)
    PROVE  Client!ReleaseCall(addr)
<1>1. BeginsAt(addr) = Client!BeginsAt(addr)
  BY DEF BeginsAt, Client!BeginsAt
<1>2. KeptSlots(addr) = Client!KeptSlots(addr)
  BY <1>1 DEF KeptSlots, Client!KeptSlots
<1>3. Kept(addr) = Client!Kept(addr)
  <2>1. ASSUME NEW n
        PROVE  Nth(KeptSlots(addr), n) = Client!Nth(KeptSlots(addr), n)
    <3>1. ASSUME NEW i
          PROVE  Rank(KeptSlots(addr), i) = Client!Rank(KeptSlots(addr), i)
      BY SameCardinality DEF Rank, Client!Rank
    <3> QED
      BY <3>1 DEF Nth, Client!Nth
  <2>2. Cardinality(KeptSlots(addr)) = Client!Cardinality(KeptSlots(addr))
    BY SameCardinality
  <2> QED
    BY <1>2, <2>1, <2>2 DEF Kept, Client!Kept
<1>4. AfterErase(addr) = Client!AfterErase(addr)
  BY <1>1, <1>3 DEF AfterErase, Client!AfterErase
<1>5. ReleaseDangles(addr) <=> Client!ReleaseDangles(addr)
  BY <1>1 DEF ReleaseDangles, Client!ReleaseDangles
<1>6. CASE Release(addr)
  BY <1>1, <1>4, <1>5, <1>6 DEF Client!ReleaseCall, Release, Client!Release
<1>7. CASE ReleaseNothing(addr)
  BY <1>1, <1>5, <1>7, SameStop
     DEF Client!ReleaseCall, ReleaseNothing, Client!ReleaseNothing, Front, Client!Front
<1>8. CASE ReleaseCrashes(addr)
  BY <1>5, <1>8, SameStop DEF Client!ReleaseCall, ReleaseCrashes, Client!ReleaseCrashes
<1> QED
  BY <1>6, <1>7, <1>8 DEF ReleaseCall

LEMMA SameClose ==
    ASSUME Close \/ CloseCrashes
    PROVE  Client!Exit
BY SameStop DEF Close, CloseCrashes, Client!Close, Client!CloseCrashes, Client!Exit

-----------------------------------------------------------------------------
(* Every value the frames, the globals and the streams hold is one, and    *)
(* what has a value is not a return statement.                             *)
TypedFrame(frame) ==
    /\ Frame(frame)
    /\ \A n \in DOMAIN frame.exprs : Node(n).kind # "return"

FramesTyped == \A i \in DOMAIN dStack : TypedFrame(dStack[i])

Room == capacity \in Nat \ {0} /\ Len(dStack) <= capacity

OthersTyped ==
    /\ \A x \in DOMAIN dStaticData : dStaticData[x] \in Value
    /\ \A d \in dying : d[2][2] \in Value
    /\ stdin \in Seq(Value) /\ stdout \in Seq(Value)

Typed == FramesTyped /\ Room /\ OthersTyped

TInv == HeapTypeOK /\ Typed

LEMMA UnsignedIsAddress ==
    ASSUME NEW val \in Int
    PROVE  Unsigned(val) \in Address
BY AddressSpaceAssumption DEF Unsigned, Address

LEMMA BoundIsTyped ==
    ASSUME NEW map, NEW key, NEW val \in Value, \A k \in DOMAIN map : map[k] \in Value
    PROVE  \A k \in DOMAIN Bound(map, key, val) : Bound(map, key, val)[k] \in Value
BY DEF Bound

LEMMA BindingIsTyped ==
    ASSUME NEW frame, TypedFrame(frame), NEW key, NEW val \in Value
    PROVE  /\ Node(key).kind # "return" => TypedFrame(BindStmt(frame, key, val))
           /\ TypedFrame(BindDecl(frame, key, val))
<1> DEFINE stmt == BindStmt(frame, key, val)
           decl == BindDecl(frame, key, val)
<1>1. /\ DOMAIN frame = {"vars", "exprs", "retVal", "hasRetVal"}
      /\ DOMAIN stmt = DOMAIN frame /\ DOMAIN decl = DOMAIN frame
  BY BindingKeepsFields DEF TypedFrame, Frame
<1>2. /\ stmt.vars = frame.vars /\ stmt.exprs = Bound(frame.exprs, key, val)
      /\ stmt.retVal = frame.retVal /\ stmt.hasRetVal = frame.hasRetVal
      /\ decl.vars = Bound(frame.vars, key, val) /\ decl.exprs = frame.exprs
      /\ decl.retVal = frame.retVal /\ decl.hasRetVal = frame.hasRetVal
  BY <1>1 DEF BindStmt, BindDecl
<1>3. /\ \A k \in DOMAIN Bound(frame.exprs, key, val) : Bound(frame.exprs, key, val)[k] \in Value
      /\ \A k \in DOMAIN Bound(frame.vars, key, val) : Bound(frame.vars, key, val)[k] \in Value
  BY BoundIsTyped DEF TypedFrame, Frame
<1>4. DOMAIN Bound(frame.exprs, key, val) = DOMAIN frame.exprs \cup {key}
  BY DEF Bound
<1> HIDE DEF stmt, decl
<1>5. Frame(stmt) /\ Frame(decl)
  BY <1>1, <1>2, <1>3 DEF TypedFrame, Frame
<1> QED
  BY <1>2, <1>4, <1>5 DEF TypedFrame, stmt, decl

LEMMA TopIsTyped ==
    ASSUME IInv, TInv, todo # << >>
    PROVE  /\ TypedFrame(Top)
           /\ \A n : Known(n) => Val(n) \in Value /\ Node(n).kind # "return"
<1>1. TypedFrame(Top)
  BY TopIsFrame DEF TInv, Typed, FramesTyped, Top
<1> QED
  BY <1>1 DEF TypedFrame, Frame, Known, Val

(* The operands of what is applied.                                        *)
LEMMA Operands ==
    ASSUME IInv, TInv, Ready, Node(Current).kind \notin Control \cup {"decl", "sizeof"},
           NEW i \in DOMAIN Node(Current).kids
    PROVE  Val(Kid(Current, i)) \in Value /\ Node(Kid(Current, i)).kind # "return"
<1>1. todo # << >> /\ ~At("global") /\ ReadsKnown(Current)
  BY DEF Ready, At
<1>2. ToSet(Node(Current).kids) = {Node(Current).kids[k] : k \in DOMAIN Node(Current).kids}
  BY DEF ToSet
<1>3. Kid(Current, i) \in ToSet(Node(Current).kids)
  BY <1>2 DEF Kid
<1>4. Node(Current).kids # << >>
  OBVIOUS
<1>5. Reads(Current) = ToSet(Node(Current).kids)
  BY <1>1, <1>4 DEF Reads
<1> QED
  BY <1>1, <1>3, <1>5, TopIsTyped DEF ReadsKnown

LEMMA OperandCount ==
    ASSUME IInv, Ready
    PROVE  /\ Current \in DOMAIN program.node
           /\ IsNode(program, Current)
           /\ Node(Current).kind \in OneOperand => 1 \in DOMAIN Node(Current).kids
           /\ Node(Current).kind \in TwoOperands =>
                 1 \in DOMAIN Node(Current).kids /\ 2 \in DOMAIN Node(Current).kids
<1>1. Current \in DOMAIN program.node
  BY CurrentIsNode DEF Ready, At
<1>2. IsNode(program, Current)
  BY <1>1 DEF IInv, IsProgram
<1>3. DOMAIN Node(Current).kids = 1 .. Len(Node(Current).kids)
  BY <1>1, NodesOfProgram
<1>4. /\ Node(Current).kind \in OneOperand => Len(Node(Current).kids) = 1
      /\ Node(Current).kind \in TwoOperands => Len(Node(Current).kids) = 2
  BY <1>2 DEF IsNode, Node
<1>5. ASSUME Node(Current).kind \in OneOperand
      PROVE  1 \in DOMAIN Node(Current).kids
  <2>1. Len(Node(Current).kids) = 1
    BY <1>4, <1>5
  <2> QED
    BY <1>3, <2>1
<1>6. ASSUME Node(Current).kind \in TwoOperands
      PROVE  1 \in DOMAIN Node(Current).kids /\ 2 \in DOMAIN Node(Current).kids
  <2>1. Len(Node(Current).kids) = 2
    BY <1>4, <1>6
  <2> QED
    BY <1>3, <2>1
<1> QED
  BY <1>1, <1>2, <1>5, <1>6

-----------------------------------------------------------------------------
(* What an expression computes.                                            *)
LEMMA QuotientIsInt ==
    ASSUME NEW a \in Int, NEW b \in Int, b # 0
    PROVE  Quotient(a, b) \in Int
<1>1. ASSUME NEW m \in Nat, NEW n \in Nat, n > 0
      PROVE  m \div n \in Int
  BY <1>1
<1>2. (IF a >= 0 THEN a ELSE -a) \in Nat /\ (IF b > 0 THEN b ELSE -b) \in Nat
  OBVIOUS
<1>3. (IF b > 0 THEN b ELSE -b) > 0
  OBVIOUS
<1>4. (IF a >= 0 THEN a ELSE -a) \div (IF b > 0 THEN b ELSE -b) \in Int
  BY <1>1, <1>2, <1>3
<1> QED
  BY <1>4 DEF Quotient

LEMMA BinaryIsInt ==
    ASSUME NEW a \in Int, NEW b \in Int, NEW op \in Operators, op = "/" => b # 0
    PROVE  Binary(op, a, b) \in Int
<1>1. op = "/" => Quotient(a, b) \in Int
  BY QuotientIsInt
<1>2. CASE op \in {"+", "p+i", "i+p", "-", "*", "/"}
  BY <1>1, <1>2 DEF Binary, IntBytes
<1>3. CASE op \in {"<", "<=", ">", ">=", "=="}
  BY <1>3 DEF Binary, Bool
<1> QED
  BY <1>2, <1>3 DEF Operators

LEMMA ResultIsValue ==
    ASSUME Value = Int, IInv, TInv, Evaluate
    PROVE  Result(Current) \in Value /\ Node(Current).kind # "return"
<1>1. /\ Ready /\ todo # << >>
      /\ \/ /\ Node(Current).kind \in Pure
            /\ ~UnknownOperator(Current) /\ ~DividesByZero(Current)
         \/ Node(Current).kind = "load"
  BY DEF Evaluate, Ready, At
<1>2. IsNode(program, Current)
  BY <1>1, OperandCount
<1>3. Node(Current).kind \notin Control \cup {"decl", "return"}
  BY <1>1 DEF Pure, Control, Loop
<1>4. CASE Node(Current).kind = "int"
  BY <1>2, <1>4 DEF Result, IsNode, Node
<1>5. CASE Node(Current).kind = "ref"
  <2>1. Has(Node(Current).var)
    BY <1>1, <1>5 DEF Ready, ReadsKnown
  <2>2. GetDeclVal(Node(Current).var) \in Value
    BY <1>1, <2>1, TopIsTyped DEF Has, GetDeclVal, TypedFrame, Frame, TInv, Typed, OthersTyped
  <2> QED
    BY <1>5, <2>2 DEF Result
<1>6. CASE Node(Current).kind = "sizeof"
  BY <1>6 DEF Result, IntBytes
<1>7. CASE Node(Current).kind \in {"binary", "subscript"}
  <2>1. Val(Kid(Current, 1)) \in Int /\ Val(Kid(Current, 2)) \in Int
    BY <1>1, <1>3, <1>7, OperandCount, Operands DEF TwoOperands
  <2>2. CASE Node(Current).kind = "binary"
    <3>1. Node(Current).op \in Operators
      BY <1>1, <2>2 DEF UnknownOperator
    <3>2. Node(Current).op = "/" => Val(Kid(Current, 2)) # 0
      BY <1>1, <2>2 DEF DividesByZero
    <3>3. Binary(Node(Current).op, Val(Kid(Current, 1)), Val(Kid(Current, 2))) \in Int
      BY <2>1, <3>1, <3>2, BinaryIsInt
    <3> QED
      BY <2>2, <3>3 DEF Result
  <2>3. CASE Node(Current).kind = "subscript"
    BY <2>1, <2>3 DEF Result, IntBytes
  <2> QED
    BY <1>7, <2>2, <2>3
<1>8. CASE Node(Current).kind \in {"minus", "deref", "paren", "cast", "load"}
  <2>1. Val(Kid(Current, 1)) \in Int
    BY <1>1, <1>3, <1>8, OperandCount, Operands DEF OneOperand
  <2> QED
    BY <1>8, <2>1 DEF Result
<1> QED
  BY <1>1, <1>3, <1>4, <1>5, <1>6, <1>7, <1>8 DEF Pure

-----------------------------------------------------------------------------
(* Every step is one of the heap's client, or none of the heap.            *)
LEMMA QuietHeap ==
    ASSUME \/ Visit \/ Skip \/ Test \/ Evaluate \/ AssignVariable \/ AssignNothing \/ Increment
           \/ Declare \/ Return \/ CallGet \/ CallPrint \/ Call \/ Leave \/ VisitGlobal \/ BindGlobal
           \/ EnterMain \/ Exit
    PROVE  UNCHANGED heapVars
BY DEF Visit, Skip, Test, Evaluate, AssignVariable, AssignNothing, Increment, Declare, Return,
       CallGet, CallPrint, Call, EnterBody, Leave, VisitGlobal, BindGlobal, EnterMain, Exit

LEMMA HeapStep ==
    ASSUME Value = Int, IInv, TInv, [Next]_vars
    PROVE  [Client!AnyNext]_(Client!vars)
<1>1. ASSUME UNCHANGED heapVars
      PROVE  UNCHANGED Client!vars
  BY <1>1 DEF heapVars, Client!vars
<1>2. ASSUME NEW addr \in Address, ReleaseCall(addr)
      PROVE  Client!AnyNext
  BY <1>2, SameRelease DEF Client!AnyNext, Client!Address, Address
<1>3. ASSUME NEW addr \in Address,
             HeapGet(addr) \/ AccessFails(addr) \/ \E val \in Value : HeapSet(addr, val)
      PROVE  Client!AnyNext
  BY <1>3, SameAccess DEF Client!AnyNext, Client!Address, Address
<1>4. ASSUME NEW size \in Address, Allocate(size)
      PROVE  Client!AnyNext
  BY <1>4, SameAllocate DEF Client!AnyNext
<1>5. ASSUME status = "running", Stop("aborted") \/ Stop("undefined")
      PROVE  Client!AnyNext
  BY <1>5, SameStop DEF Client!AnyNext, Client!Fails
<1>6. ASSUME NEW i \in DOMAIN Node(Current).kids, Ready,
             Node(Current).kind \notin Control \cup {"decl", "sizeof"}
      PROVE  Val(Kid(Current, i)) \in Int /\ Unsigned(Val(Kid(Current, i))) \in Address
  BY <1>6, Operands, UnsignedIsAddress
<1>7. CASE Load
  <2>1. Ready /\ Node(Current).kind = "load"
    BY <1>7 DEF Load, Loads
  <2>2. Unsigned(Val(Kid(Current, 1))) \in Address
    BY <1>6, <2>1, OperandCount DEF OneOperand, Control, Loop
  <2> QED
    BY <1>3, <1>7, <2>2 DEF Load
<1>8. CASE AssignMemory
  <2>1. Ready /\ Node(Current).kind = "assign"
    BY <1>8 DEF AssignMemory
  <2>2. Unsigned(Val(Kid(Current, 1))) \in Address /\ Val(Kid(Current, 2)) \in Value
    BY <1>6, <2>1, OperandCount DEF TwoOperands, Control, Loop
  <2> QED
    BY <1>3, <1>8, <2>2 DEF AssignMemory
<1>9. CASE DeclareArray
  <2>1. Ready /\ Node(Current).kind = "decl" /\ Node(Current).type = "array"
    BY <1>9 DEF DeclareArray
  <2>2. Node(Current).length \in Nat
    BY <2>1, OperandCount DEF IsNode, Node
  <2>3. Unsigned(Node(Current).length * IntBytes) \in Address
    BY <2>2, UnsignedIsAddress DEF IntBytes
  <2> QED
    BY <1>4, <1>9, <2>3 DEF DeclareArray
<1>10. ASSUME CallMalloc \/ CallFree
       PROVE  Client!AnyNext
  <2>1. Ready /\ Node(Current).kind = "call" /\ Node(Current).callee \in {"MALLOC", "FREE"}
    BY <1>10 DEF CallMalloc, CallFree, Calls
  <2>2. 1 \in DOMAIN Node(Current).kids
    <3>1. Len(Node(Current).kids) = 1
      BY <2>1, OperandCount DEF IsNode, Node, External, IInv, IsProgram
    <3>2. DOMAIN Node(Current).kids = 1 .. Len(Node(Current).kids)
      BY <2>1, OperandCount, NodesOfProgram
    <3> QED
      BY <3>1, <3>2
  <2>3. Unsigned(Val(Kid(Current, 1))) \in Address
    BY <1>6, <2>1, <2>2 DEF Control, Loop
  <2> QED
    BY <1>2, <1>4, <1>10, <2>3 DEF CallMalloc, CallFree
<1>11. CASE ReleaseArray
  <2>1. PICK d \in dying : ReleaseCall(Unsigned(d[2][2]))
    BY <1>11 DEF ReleaseArray
  <2>2. Unsigned(d[2][2]) \in Address
    BY UnsignedIsAddress DEF TInv, Typed, OthersTyped
  <2> QED
    BY <1>2, <2>1, <2>2
<1>12. ASSUME Running, Aborts \/ Divide
       PROVE  Client!AnyNext
  BY <1>5, <1>12 DEF Aborts, Divide, Running
<1>13. CASE CloseHeap
  BY <1>13, SameClose DEF CloseHeap, Client!AnyNext
<1>14. ASSUME Running, Step
       PROVE  [Client!AnyNext]_(Client!vars)
  BY <1>1, <1>7, <1>8, <1>9, <1>10, <1>12, <1>13, <1>14, QuietHeap DEF Step
<1>15. CASE UNCHANGED vars
  BY <1>1, <1>15 DEF vars
<1> QED
  BY <1>11, <1>14, <1>15 DEF Next

LEMMA HeapStaysTyped ==
    ASSUME Value = Int, IInv, TInv, [Next]_vars
    PROVE  HeapTypeOK'
<1>1. Client!TypeOK
  BY SameTypes DEF TInv, Client!TypeOK
<1>2. Client!TypeOK'
  BY <1>1, HeapStep, Client!AnyStepTypes, ClientSizes, AddressSpaceAssumption,
     MaxAllocationAssumption, NullAssumption
<1>3. Client!HeapTypeOK'
  BY <1>2 DEF Client!TypeOK
<1>4. HeapTypeOK' <=> Client!HeapTypeOK'
  BY DEF HeapTypeOK, Client!HeapTypeOK, IsChunk, Client!IsChunk, Address, Client!Address,
         Word, Client!Word, IntBytes, Client!IntBytes
<1> QED
  BY <1>3, <1>4

-----------------------------------------------------------------------------
(* What the heap answers.                                                  *)
LEMMA LoadedIsWord ==
    ASSUME HeapTypeOK, NEW addr \in Address, HeapGet(addr)
    PROVE  reply'[3] \in Word
<1>1. PICK id \in DOMAIN object :
         Accesses(addr, id) /\ reply' = <<"get", addr, ReadWord(object[id], Offset(id, addr))>>
  BY DEF HeapGet
<1>2. IsChunk(object[id]) /\ id # Null
  <2>1. id \in 1 .. allocated /\ allocated \in 0 .. MaxAllocation
    BY DEF HeapTypeOK
  <2>2. id \in 1 .. MaxAllocation
    BY <2>1, MaxAllocationAssumption
  <2> QED
    BY <2>2, NullAssumption DEF HeapTypeOK
<1>3. object[id].begin <= addr
  BY <1>1, <1>2 DEF Accesses, Found, StopsAt, Covers
<1> DEFINE offset == Offset(id, addr)
           room == object[id].capacity
<1>4. offset \in Nat /\ room \in Nat /\ offset + 4 <= room
  BY <1>1, <1>2, <1>3, AddressSpaceAssumption DEF Accesses, Offset, IsChunk, Address, IntBytes
<1>5. offset \div 4 \in 0 .. (room \div 4) - 1
  <2> HIDE DEF offset, room
  <2> QED
    BY <1>4
<1>6. ReadWord(object[id], offset) \in Word
  BY <1>2, <1>5 DEF ReadWord, IsChunk, IntBytes, Word
<1> QED
  BY <1>1, <1>6

LEMMA AllocatedIsAddress ==
    ASSUME HeapTypeOK, NEW size, Allocate(size)
    PROVE  reply'[3] \in Int
BY AddressSpaceAssumption DEF Allocate, HeapTypeOK, Address

-----------------------------------------------------------------------------
(* Steps that leave the frames below the top alone.                        *)
LEMMA FramesKept ==
    ASSUME TInv, program' = program, dStack' = dStack, capacity' = capacity
    PROVE  FramesTyped' /\ Room'
BY DEF TInv, Typed, FramesTyped, Room, TypedFrame, Frame, Node

LEMMA OthersKept ==
    ASSUME TInv, UNCHANGED <<dStaticData, dying, stdin, stdout>>
    PROVE  OthersTyped'
BY DEF TInv, Typed, OthersTyped

LEMMA TopBound ==
    ASSUME IInv, TInv, todo # << >>, program' = program, capacity' = capacity,
           NEW frame, TypedFrame(frame), ReplaceTop(frame)
    PROVE  FramesTyped' /\ Room'
<1>1. DOMAIN frame = Fields
  BY DEF TypedFrame, Frame, Fields
<1>2. /\ Len(dStack') = Len(dStack)
      /\ \A i \in DOMAIN dStack : i # Len(dStack) => dStack'[i] = dStack[i]
  BY <1>1, TopReplaced
<1>3. DOMAIN dStack' = DOMAIN dStack /\ dStack'[Len(dStack)] = frame
  BY TopIsFrame DEF ReplaceTop
<1>4. \A i \in DOMAIN dStack' : TypedFrame(dStack'[i])
  BY <1>2, <1>3 DEF TInv, Typed, FramesTyped
<1>5. FramesTyped'
  BY <1>4 DEF FramesTyped, TypedFrame, Frame, Node
<1> QED
  BY <1>2, <1>5 DEF TInv, Typed, Room

LEMMA VisitsKeepTypes ==
    ASSUME IInv, TInv,
           \/ Visit \/ Skip \/ Test \/ VisitGlobal \/ Aborts \/ Divide \/ CloseHeap
           \/ CallPrint \/ CallFree \/ ReleaseArray \/ UNCHANGED vars
    PROVE  Typed'
<1>1. program' = program /\ dStack' = dStack /\ capacity' = capacity
  BY DEF Visit, Skip, Test, VisitGlobal, Aborts, Divide, CloseHeap, CallPrint, CallFree,
         ReleaseArray, Done, vars, machineVars
<1>2. CASE CallPrint
  <2>1. Ready /\ Node(Current).kind = "call" /\ Node(Current).callee = "PRINT"
    BY <1>2 DEF CallPrint, Calls
  <2>2. 1 \in DOMAIN Node(Current).kids
    <3>1. Len(Node(Current).kids) = 1
      BY <2>1, OperandCount DEF IsNode, Node, External, IInv, IsProgram
    <3>2. DOMAIN Node(Current).kids = 1 .. Len(Node(Current).kids)
      BY <2>1, OperandCount, NodesOfProgram
    <3> QED
      BY <3>1, <3>2
  <2>3. Val(Kid(Current, 1)) \in Value
    BY <2>1, <2>2, Operands DEF Control, Loop
  <2>4. stdout' \in Seq(Value)
    BY <1>2, <2>3 DEF CallPrint, TInv, Typed, OthersTyped
  <2>5. OthersTyped'
    BY <1>2, <2>4 DEF CallPrint, Done, TInv, Typed, OthersTyped
  <2> QED
    BY <1>1, <2>5, FramesKept DEF Typed
<1>3. CASE ReleaseArray
  <2>1. OthersTyped'
    BY <1>3 DEF ReleaseArray, TInv, Typed, OthersTyped
  <2> QED
    BY <1>1, <2>1, FramesKept DEF Typed
<1>4. CASE UNCHANGED <<dStaticData, dying, stdin, stdout>>
  BY <1>1, <1>4, FramesKept, OthersKept DEF Typed
<1> QED
  BY <1>2, <1>3, <1>4 DEF Visit, Skip, Test, VisitGlobal, Aborts, Divide, CloseHeap, CallFree,
                          Done, vars, machineVars

LEMMA ExpressionsKeepTypes ==
    ASSUME Value = Int, IInv, TInv,
           Evaluate \/ Load \/ AssignVariable \/ AssignMemory \/ AssignNothing \/ Increment
    PROVE  Typed'
<1>1. /\ Ready /\ todo # << >> /\ program' = program /\ capacity' = capacity
      /\ UNCHANGED <<dying, stdin, stdout>>
  BY DEF Evaluate, Load, AssignVariable, AssignMemory, AssignNothing, Increment, Done, Ready, At
<1>2. TypedFrame(Top)
  BY <1>1, TopIsTyped
<1>3. CASE Evaluate
  <2>1. TypedFrame(BindStmt(Top, Current, Result(Current)))
    BY <1>2, <1>3, ResultIsValue, BindingIsTyped
  <2> QED
    BY <1>1, <1>3, <2>1, TopBound, OthersKept DEF Evaluate, Typed
<1>4. CASE Load
  <2>1. Node(Current).kind = "load"
    BY <1>4 DEF Load, Loads
  <2>2. Unsigned(Val(Kid(Current, 1))) \in Address
    BY <1>1, <2>1, OperandCount, Operands, UnsignedIsAddress DEF OneOperand, Control, Loop
  <2>3. CASE dStack' = dStack
    BY <1>1, <1>4, <2>3, FramesKept, OthersKept DEF Load, Typed
  <2>4. ASSUME HeapGet(Unsigned(Val(Kid(Current, 1)))),
               NEW val \in IF reply'[3] = Indeterminate THEN Garbage ELSE {reply'[3]},
               ReplaceTop(BindStmt(Top, Current, val))
        PROVE  Typed'
    <3>1. val \in Value
      BY <2>2, <2>4, LoadedIsWord, GarbageAssumption DEF Word, TInv
    <3>2. TypedFrame(BindStmt(Top, Current, val))
      BY <1>2, <2>1, <3>1, BindingIsTyped
    <3> QED
      BY <1>1, <1>4, <2>4, <3>2, TopBound, OthersKept DEF Load, Typed
  <2> QED
    BY <1>4, <2>3, <2>4 DEF Load
<1>5. ASSUME Node(Current).kind = "assign"
      PROVE  /\ Val(Kid(Current, 2)) \in Value
             /\ TypedFrame(BindStmt(Top, Current, Val(Kid(Current, 2))))
  <2>1. Val(Kid(Current, 2)) \in Value
    BY <1>1, <1>5, OperandCount, Operands DEF TwoOperands, Control, Loop
  <2> QED
    BY <1>2, <1>5, <2>1, BindingIsTyped
<1>6. CASE AssignVariable
  <2> DEFINE x == Node(Kid(Current, 1)).var
             val == Val(Kid(Current, 2))
             frame == BindStmt(Top, Current, val)
  <2>1. val \in Value /\ TypedFrame(frame)
    BY <1>5, <1>6 DEF AssignVariable
  <2>2. TypedFrame(BindDecl(frame, x, val))
    BY <2>1, BindingIsTyped
  <2>3. \/ ReplaceTop(BindDecl(frame, x, val)) /\ UNCHANGED dStaticData
        \/ ReplaceTop(frame) /\ dStaticData' = Bound(dStaticData, x, val)
    BY <1>6 DEF AssignVariable
  <2> HIDE DEF x, val, frame
  <2>4. FramesTyped' /\ Room'
    BY <1>1, <2>1, <2>2, <2>3, TopBound
  <2>5. OthersTyped'
    <3>1. \A k \in DOMAIN dStaticData' : dStaticData'[k] \in Value
      BY <2>1, <2>3, BoundIsTyped DEF TInv, Typed, OthersTyped
    <3> QED
      BY <1>1, <3>1 DEF TInv, Typed, OthersTyped
  <2> QED
    BY <2>4, <2>5 DEF Typed
<1>7. CASE AssignMemory
  <2>1. TypedFrame(BindStmt(Top, Current, Val(Kid(Current, 2))))
    BY <1>5, <1>7 DEF AssignMemory
  <2> QED
    BY <1>1, <1>7, <2>1, TopBound, OthersKept DEF AssignMemory, Typed
<1>8. CASE AssignNothing
  <2>1. TypedFrame(BindStmt(Top, Current, Val(Kid(Current, 2))))
    BY <1>5, <1>8 DEF AssignNothing
  <2> QED
    BY <1>1, <1>8, <2>1, TopBound, OthersKept DEF AssignNothing, Typed
<1>9. CASE Increment
  <2> DEFINE sub == Kid(Current, 1)
             val == Val(sub) + 1
             frame == BindStmt(BindStmt(Top, sub, val), Current, val)
  <2>1. Node(Current).kind = "++"
    BY <1>9 DEF Increment
  <2>2. Val(sub) \in Value /\ Node(sub).kind # "return"
    BY <1>1, <2>1, OperandCount, Operands DEF OneOperand, Control, Loop
  <2>3. val \in Value
    BY <2>2
  <2>4. ReplaceTop(frame) \/ ReplaceTop(BindDecl(frame, Node(sub).var, val))
    BY <1>9 DEF Increment
  <2> HIDE DEF sub, val
  <2>5. TypedFrame(BindStmt(Top, sub, val))
    BY <1>2, <2>2, <2>3, BindingIsTyped
  <2>6. TypedFrame(frame)
    BY <2>1, <2>3, <2>5, BindingIsTyped
  <2> HIDE DEF frame
  <2>7. TypedFrame(BindDecl(frame, Node(sub).var, val))
    BY <2>3, <2>6, BindingIsTyped
  <2>8. FramesTyped' /\ Room'
    BY <1>1, <2>4, <2>6, <2>7, TopBound
  <2> QED
    BY <1>1, <1>9, <2>8, OthersKept DEF Increment, Typed
<1> QED
  BY <1>3, <1>4, <1>6, <1>7, <1>8, <1>9

(* A return without a value is never applied: it has none to return.       *)
LEMMA StatementsKeepTypes ==
    ASSUME Value = Int, IInv, TInv, Declare \/ DeclareArray \/ Return \/ BindGlobal
    PROVE  Typed'
<1>1. /\ todo # << >> /\ program' = program /\ capacity' = capacity /\ ReadsKnown(Current)
      /\ UNCHANGED <<dying, stdin, stdout>>
  BY DEF Declare, DeclareArray, Return, BindGlobal, Done, Ready, At
<1>2. TypedFrame(Top)
  BY <1>1, TopIsTyped
<1>3. ASSUME NEW nodes \in Seq(DOMAIN program.node), nodes # << >>, Reads(Current) = ToSet(nodes)
      PROVE  Val(nodes[1]) \in Value
  <2>1. nodes[1] \in ToSet(nodes)
    BY <1>3 DEF ToSet
  <2> QED
    BY <1>1, <1>3, <2>1, TopIsTyped DEF ReadsKnown
<1>4. CASE Declare
  <2> DEFINE init == InitVisited(Current)
             val == IF init = << >> THEN 0 ELSE Val(init[1])
  <2>1. Ready /\ Node(Current).kind = "decl"
    BY <1>4 DEF Declare
  <2>2. init \in Seq(DOMAIN program.node)
    <3>1. Node(Current).kids \in Seq(DOMAIN program.node) /\ << >> \in Seq(DOMAIN program.node)
      BY <2>1, OperandCount, NodesOfProgram
    <3> QED
      BY <3>1 DEF InitVisited
  <2>3. Reads(Current) = ToSet(init)
    BY <2>1 DEF Reads, Ready, At, Control, Loop
  <2>4. val \in Value
    BY <1>3, <2>2, <2>3
  <2>5. ReplaceTop(BindDecl(Top, Node(Current).var, val))
    BY <1>4 DEF Declare
  <2> HIDE DEF val
  <2>6. TypedFrame(BindDecl(Top, Node(Current).var, val))
    BY <1>2, <2>4, BindingIsTyped
  <2> QED
    BY <1>1, <1>4, <2>5, <2>6, TopBound, OthersKept DEF Declare, Typed
<1>5. CASE DeclareArray
  <2>1. reply'[3] \in Value
    BY <1>5, AllocatedIsAddress DEF DeclareArray, TInv
  <2>2. TypedFrame(BindDecl(Top, Node(Current).var, reply'[3]))
    BY <1>2, <2>1, BindingIsTyped
  <2> QED
    BY <1>1, <1>5, <2>2, TopBound, OthersKept DEF DeclareArray, Typed
<1>6. CASE Return
  <2> DEFINE val == Val(Kid(Current, 1))
             frame == [Top EXCEPT !.retVal = val, !.hasRetVal = TRUE]
  <2>1. Ready /\ Node(Current).kind = "return"
    BY <1>6 DEF Return
  <2>2. Node(Current).kids # << >>
    <3> SUFFICES ASSUME Node(Current).kids = << >>
                 PROVE  FALSE
      OBVIOUS
    <3>1. Reads(Current) = {Current}
      BY <2>1 DEF Reads, Ready, At, Control, Loop
    <3>2. Known(Current)
      BY <1>1, <3>1 DEF ReadsKnown
    <3> QED
      BY <1>1, <2>1, <3>2, TopIsTyped
  <2>3. 1 \in DOMAIN Node(Current).kids
    BY <2>1, <2>2, OperandCount, NodesOfProgram
  <2>4. val \in Value
    BY <2>1, <2>3, Operands DEF Control, Loop
  <2>5. ReplaceTop(frame)
    BY <1>6 DEF Return
  <2> HIDE DEF val
  <2>6. TypedFrame(frame)
    BY <1>2, <2>4 DEF TypedFrame, Frame
  <2> HIDE DEF frame
  <2> QED
    BY <1>1, <1>6, <2>5, <2>6, TopBound, OthersKept DEF Return, Typed
<1>7. CASE BindGlobal
  <2> DEFINE kids == Node(Current).kids
             val == IF kids = << >> THEN 0 ELSE Val(kids[1])
  <2>1. At("global")
    BY <1>7 DEF BindGlobal
  <2>2. kids \in Seq(DOMAIN program.node)
    BY <2>1, CurrentIsNode, NodesOfProgram DEF At
  <2>3. Reads(Current) = ToSet(kids)
    BY <2>1 DEF Reads
  <2>4. val \in Value
    BY <1>3, <2>2, <2>3
  <2>5. dStaticData' = Bound(dStaticData, Node(Current).var, val)
    BY <1>7 DEF BindGlobal
  <2> HIDE DEF val
  <2>6. \A k \in DOMAIN dStaticData' : dStaticData'[k] \in Value
    BY <2>4, <2>5, BoundIsTyped DEF TInv, Typed, OthersTyped
  <2>7. OthersTyped'
    BY <1>1, <2>6 DEF TInv, Typed, OthersTyped
  <2> QED
    BY <1>1, <1>7, <2>7, FramesKept DEF BindGlobal, Typed
<1> QED
  BY <1>4, <1>5, <1>6, <1>7

LEMMA ExternalCallsKeepTypes ==
    ASSUME Value = Int, IInv, TInv, CallGet \/ CallMalloc
    PROVE  Typed'
<1>1. /\ todo # << >> /\ program' = program /\ capacity' = capacity /\ Node(Current).kind = "call"
      /\ UNCHANGED <<dStaticData, dying, stdout>>
  BY DEF CallGet, CallMalloc, Calls, Done, Ready, At
<1>2. TypedFrame(Top)
  BY <1>1, TopIsTyped
<1>3. ASSUME NEW val \in Value
      PROVE  TypedFrame(BindStmt(Top, Current, val))
  BY <1>1, <1>2, BindingIsTyped
<1>4. CASE CallGet
  <2>1. stdin \in Seq(Value)
    BY DEF TInv, Typed, OthersTyped
  <2>2. PICK val \in IF stdin = << >> THEN Garbage ELSE {Head(stdin)} :
           ReplaceTop(BindStmt(Top, Current, val))
    BY <1>4 DEF CallGet
  <2>3. val \in Value
    BY <2>1, <2>2, HeadAndTail, GarbageAssumption
  <2>4. stdin' \in Seq(Value)
    BY <1>4, <2>1, HeadAndTail DEF CallGet
  <2>5. OthersTyped'
    BY <1>1, <2>4 DEF TInv, Typed, OthersTyped
  <2> QED
    BY <1>1, <1>3, <2>2, <2>3, <2>5, TopBound DEF Typed
<1>5. CASE CallMalloc
  <2>1. reply'[3] \in Value
    BY <1>5, AllocatedIsAddress DEF CallMalloc, TInv
  <2> QED
    BY <1>1, <1>3, <1>5, <2>1, TopBound, OthersKept DEF CallMalloc, Done, Typed
<1> QED
  BY <1>4, <1>5

-----------------------------------------------------------------------------
(* Steps that enter or leave a function.                                   *)
LEMMA ArraysAreValues ==
    ASSUME NEW frame, TypedFrame(frame)
    PROVE  \A array \in Arrays(frame) : array[2] \in Value
BY DEF Arrays, TypedFrame, Frame

LEMMA NewFrameIsTyped ==
    ASSUME Value = Int
    PROVE  TypedFrame(NewFrame)
BY DEF NewFrame, TypedFrame, Frame

LEMMA ArgumentsAreValues ==
    ASSUME IInv, TInv, CallsFunction,
           NEW x \in DOMAIN Arguments(Node(Current).callee)
    PROVE  Arguments(Node(Current).callee)[x] \in Value
<1> DEFINE params == Parameters(Node(Current).callee)
           k == CHOOSE i \in DOMAIN params : params[i] = x
<1>1. Ready /\ Node(Current).kind = "call" /\ Node(Current).callee \in DOMAIN program.body
  BY DEF CallsFunction
<1>2. DOMAIN params = DOMAIN Node(Current).kids
  BY <1>1, OperandCount DEF IsNode, Node, External, IInv, IsProgram, Parameters
<1>3. x \in ToSet(params)
  BY DEF Arguments
<1>4. k \in DOMAIN params
  BY <1>3 DEF ToSet
<1> HIDE DEF k
<1>5. Val(Kid(Current, k)) \in Value
  BY <1>1, <1>2, <1>4, Operands DEF Control, Loop
<1> QED
  BY <1>3, <1>5 DEF Arguments, k

LEMMA CallKeepsTypes ==
    ASSUME Value = Int, IInv, TInv, Call
    PROVE  Typed'
<1> DEFINE frame == [NewFrame EXCEPT !.vars = Arguments(Node(Current).callee)]
           n == Len(dStack)
<1>1. /\ CallsFunction /\ program' = program /\ UNCHANGED <<dStaticData, stdin, stdout>>
      /\ dStack' = Append(dStack, frame)
      /\ \/ n < capacity /\ UNCHANGED <<capacity, dying>>
         \/ ~(n < capacity) /\ capacity' = 2 * capacity /\ Moved
  BY DEF Call, EnterBody
<1>2. TypedFrame(frame)
  <2> DEFINE args == Arguments(Node(Current).callee)
  <2>1. \A x \in DOMAIN args : args[x] \in Value
    BY <1>1, ArgumentsAreValues
  <2>2. /\ DOMAIN frame = {"vars", "exprs", "retVal", "hasRetVal"}
        /\ frame.vars = args /\ DOMAIN frame.exprs = {}
        /\ frame.retVal \in Value /\ frame.hasRetVal \in BOOLEAN
    BY DEF NewFrame
  <2> HIDE DEF args, frame
  <2> QED
    BY <2>1, <2>2 DEF TypedFrame, Frame
<1> HIDE DEF frame
<1>3. n \in Nat /\ DOMAIN dStack = 1 .. n
  BY <1>1, TopIsFrame DEF CallsFunction, Ready, At, n
<1>4. /\ DOMAIN dStack' = 1 .. n + 1 /\ dStack'[n + 1] = frame /\ Len(dStack') = n + 1
      /\ \A i \in 1 .. n : dStack'[i] = dStack[i]
  <2>1. PICK S : dStack \in Seq(S)
    BY DEF IInv, IsStack
  <2>2. dStack \in Seq(S \cup {frame})
    <3>1. n \in Nat /\ dStack \in [1 .. n -> S \cup {frame}]
      BY <2>1
    <3> QED
      BY <3>1
  <2> QED
    BY <1>1, <2>2
<1> HIDE DEF n
<1>5. FramesTyped'
  <2>1. \A i \in DOMAIN dStack' : i \in 1 .. n \/ i = n + 1
    BY <1>3, <1>4
  <2>2. \A i \in DOMAIN dStack' : TypedFrame(dStack'[i])
    BY <1>2, <1>3, <1>4, <2>1 DEF TInv, Typed, FramesTyped
  <2> QED
    BY <1>1, <2>2 DEF FramesTyped, TypedFrame, Frame, Node
<1>6. Room'
  <2>1. capacity \in Nat \ {0} /\ n <= capacity
    BY DEF TInv, Typed, Room, n
  <2>2. capacity' \in Nat \ {0} /\ n + 1 <= capacity'
    BY <1>1, <1>3, <2>1
  <2> QED
    BY <1>4, <2>2 DEF Room
<1>7. OthersTyped'
  <2>1. CASE Moved
    <3>1. \A i \in DOMAIN dStack : \A array \in Arrays(dStack[i]) : array[2] \in Value
      BY ArraysAreValues DEF TInv, Typed, FramesTyped
    <3>2. \A d \in dying' : d[2][2] \in Value
      BY <2>1, <3>1 DEF Moved
    <3> QED
      BY <1>1, <3>2 DEF TInv, Typed, OthersTyped
  <2>2. CASE dying' = dying
    BY <1>1, <2>2 DEF TInv, Typed, OthersTyped
  <2> QED
    BY <1>1, <2>1, <2>2
<1> QED
  BY <1>5, <1>6, <1>7 DEF Typed

LEMMA LeaveKeepsTypes ==
    ASSUME Value = Int, IInv, TInv, Leave
    PROVE  Typed'
<1> DEFINE n == Len(dStack')
<1>1. /\ todo # << >> /\ Head(todo).do = "leave" /\ program' = program
      /\ dying' = {Len(dStack)} \X Arrays(Top)
      /\ UNCHANGED <<capacity, dStaticData, stdin, stdout>>
  BY DEF Leave, At
<1>2. /\ n = Len(dStack) - 1 /\ Len(dStack) \in Nat \ {0} /\ DOMAIN dStack = 1 .. Len(dStack)
      /\ \A i \in DOMAIN dStack' : i # n => dStack'[i] = dStack[i]
      /\ dStack'[n] = BindStmt(dStack[n], Current, Top.retVal)
      /\ DOMAIN dStack' = 1 .. n
  BY <1>1, LeaveEffect, TopIsFrame DEF IInv, IsStack
<1> HIDE DEF n
<1>3. TypedFrame(Top) /\ Top.retVal \in Value
  BY <1>1, TopIsTyped DEF TypedFrame, Frame
<1>4. Node(Current).kind # "return"
  BY <1>1, CurrentIsNode
<1>5. ASSUME NEW i \in DOMAIN dStack'
      PROVE  TypedFrame(dStack'[i])
  <2>1. i \in DOMAIN dStack
    BY <1>2
  <2>2. TypedFrame(dStack[i])
    BY <2>1 DEF TInv, Typed, FramesTyped
  <2> QED
    BY <1>2, <1>3, <1>4, <2>2, BindingIsTyped
<1>6. FramesTyped'
  BY <1>1, <1>5 DEF FramesTyped, TypedFrame, Frame, Node
<1>7. Room'
  BY <1>1, <1>2 DEF TInv, Typed, Room, n
<1>8. OthersTyped'
  BY <1>1, <1>3, ArraysAreValues DEF TInv, Typed, OthersTyped
<1> QED
  BY <1>6, <1>7, <1>8 DEF Typed

LEMMA EntryAndExitKeepTypes ==
    ASSUME Value = Int, IInv, TInv, EnterMain \/ Exit
    PROVE  Typed'
<1>1. CASE EnterMain
  <2>1. /\ program' = program /\ dStack' = <<NewFrame>> /\ capacity' = capacity
        /\ UNCHANGED <<dStaticData, dying, stdin, stdout>>
    BY <1>1 DEF EnterMain
  <2>2. \A i \in DOMAIN dStack' : TypedFrame(dStack'[i])
    BY <2>1, NewFrameIsTyped
  <2>3. FramesTyped'
    BY <2>1, <2>2 DEF FramesTyped, TypedFrame, Frame, Node
  <2>4. Room'
    BY <2>1 DEF TInv, Typed, Room
  <2> QED
    BY <2>1, <2>3, <2>4, OthersKept DEF Typed
<1>2. CASE Exit
  <2>1. /\ program' = program /\ dStack' = << >> /\ capacity' = capacity
        /\ dying' = {Len(dStack)} \X Arrays(Top)
        /\ UNCHANGED <<dStaticData, stdin, stdout>>
    BY <1>2 DEF Exit
  <2>2. FramesTyped' /\ Room'
    BY <2>1 DEF TInv, Typed, FramesTyped, Room
  <2>3. TypedFrame(Top)
    <3>1. Len(dStack) = 1 /\ DOMAIN dStack = 1 .. Len(dStack)
      BY <1>2, ExitEffect DEF IInv, IsStack
    <3> QED
      BY <3>1 DEF Top, TInv, Typed, FramesTyped
  <2>4. OthersTyped'
    BY <2>1, <2>3, ArraysAreValues DEF TInv, Typed, OthersTyped
  <2> QED
    BY <2>2, <2>4 DEF Typed
<1> QED
  BY <1>1, <1>2

LEMMA StepKeepsTypes ==
    ASSUME Value = Int, IInv, TInv, [Next]_vars
    PROVE  TInv'
<1>1. Step => Typed'
  BY VisitsKeepTypes, ExpressionsKeepTypes, StatementsKeepTypes, ExternalCallsKeepTypes,
     CallKeepsTypes, LeaveKeepsTypes, EntryAndExitKeepTypes DEF Step
<1>2. Typed'
  BY <1>1, VisitsKeepTypes DEF Next
<1> QED
  BY <1>2, HeapStaysTyped DEF TInv

LEMMA InitIsTyped ==
    ASSUME Value = Int, Init
    PROVE  TInv
<1>1. HeapTypeOK
  BY AddressSpaceAssumption, MaxAllocationAssumption DEF Init, HeapInit, HeapTypeOK, Address
<1>2. FramesTyped
  BY NewFrameIsTyped DEF Init, FramesTyped
<1>3. Room
  BY ReserveAssumption DEF Init, Room
<1>4. OthersTyped
  <2>1. stdin \in Seq(Value)
    BY ProgramAssumption DEF Init, IsProgram
  <2> QED
    BY <2>1 DEF Init, OthersTyped
<1> QED
  BY <1>1, <1>2, <1>3, <1>4 DEF TInv, Typed

THEOREM TypesInductive ==
    ASSUME Value = Int
    PROVE  Spec => [](IInv /\ TInv)
<1>1. Init => TInv
  BY InitIsTyped
<1>2. IInv /\ TInv /\ [Next]_vars => TInv'
  BY StepKeepsTypes
<1> QED
  BY <1>1, <1>2, Inductive, PTL DEF Spec

(* The stack of frames is that of the calls under way and fits the vector, *)
(* and whatever is read, from the heap, the input or the frames, is an int *)
(* (Environment.h, lines 153-236), for every program.                      *)
THEOREM TypeCorrect ==
    ASSUME Value = Int
    PROVE  Spec => []TypeOK
<1>1. IInv /\ TInv => TypeOK
  <2> SUFFICES ASSUME IInv, TInv
               PROVE  TypeOK
    OBVIOUS
  <2>1. \A i \in DOMAIN dStack : Frame(dStack[i])
    BY DEF TInv, Typed, FramesTyped, TypedFrame
  <2>2. ASSUME NEW i \in DOMAIN todo
        PROVE  /\ todo[i].do \in {"init", "visit", "child", "apply", "test", "global", "main", "leave"}
               /\ todo[i].do # "main" => todo[i].node \in DOMAIN program.node
    <3>1. todo[i] \in Pending
      BY DEF IInv
    <3> QED
      BY <3>1 DEF Pending, Work, Leaves, Doing, Task
  <2>3. \A i \in DOMAIN stdout : stdout[i] \in Value
    BY DEF TInv, Typed, OthersTyped
  <2>4. todo # << >> => Len(dStack) = 1 + CallsUnderWay(todo)
    BY DEF IInv
  <2> QED
    BY <2>1, <2>2, <2>3, <2>4 DEF TInv, Typed, Room, OthersTyped, TypeOK
<1> QED
  BY <1>1, TypesInductive, PTL

(* The interpreter implements the program that may pass any address to any *)
(* call: whatever it interprets, it calls the heap with an address or size *)
(* of the guest's space, at most once in a step, and only while it runs.   *)
THEOREM InterpreterIsClient ==
    ASSUME Value = Int
    PROVE  Spec => Client!AnySpec
<1>1. Init => Client!Init
  BY DEF Init, HeapInit, Client!Init, Client!HeapInit
<1>2. IInv /\ TInv /\ [Next]_vars => [Client!AnyNext]_(Client!vars)
  BY HeapStep
<1> QED
  BY <1>1, <1>2, TypesInductive, PTL DEF Spec, Client!AnySpec

(* What the heap promises to any client it keeps to the interpreter: the   *)
(* vector of chunks never holds a pointer to a deleted one.                *)
THEOREM SlotsNeverDangle ==
    ASSUME Value = Int
    PROVE  Spec => []Client!NoDanglingSlot
BY InterpreterIsClient, Client!SlotsNeverDangle, ClientSizes, AddressSpaceAssumption,
   MaxAllocationAssumption, NullAssumption, PTL

-----------------------------------------------------------------------------
(***************************************************************************)
(* A program that keeps the rules: the arrays of its frames are live, each *)
(* in a chunk of its own, and the heap forgets no chunk.                   *)
(***************************************************************************)
Begins == {object[id].begin : id \in DOMAIN object}

(* No two arrays of the frames have the same address.                      *)
ArraysApart(stack) ==
    \A i, j \in DOMAIN stack : \A array \in Arrays(stack[i]), other \in Arrays(stack[j]) :
        array[2] = other[2] => i = j /\ array = other

(* The arrays of the frames, and those of the frame being destroyed.       *)
ApartIn(stack, rest, begins) ==
    /\ \A i \in DOMAIN stack : \A array \in Arrays(stack[i]) : array[2] \in begins
    /\ ArraysApart(stack)
    /\ \A d \in rest : d[2][2] \in begins
    /\ \A d, e \in rest : d[2][2] = e[2][2] => d = e
    /\ \A d \in rest : \A i \in DOMAIN stack : \A array \in Arrays(stack[i]) : array[2] # d[2][2]

OwnInv == Client!InOrder /\ ApartIn(dStack, dying, Begins)

LEMMA ApartNext ==
    ASSUME program' = program, Client!InOrder', ApartIn(dStack', dying', Begins')
    PROVE  OwnInv'
<1>1. ApartIn(dStack', dying', Begins') = ApartIn(dStack, dying, Begins)'
  BY DEF ApartIn, ArraysApart, Arrays
<1> QED
  BY <1>1 DEF OwnInv

(* What the heap keeps when no chunk is made or deleted.                   *)
LEMMA HeapQuiet ==
    ASSUME TInv, OwnInv,
           \/ UNCHANGED heapVars
           \/ \E addr : HeapGet(addr) \/ AccessFails(addr) \/ \E val \in Value : HeapSet(addr, val)
           \/ Stop("aborted") \/ Stop("undefined")
    PROVE  Client!InOrder' /\ Begins' = Begins
<1>1. \/ UNCHANGED Client!heapVars
      \/ \E addr : Client!AccessCall(addr)
      \/ \E how : how # "closed" /\ Client!Stop(how)
  BY SameAccess, SameStop DEF heapVars, Client!heapVars
<1>2. Client!HeapTypeOK
  BY SameTypes DEF TInv
<1>3. /\ Client!InOrder'
      /\ DOMAIN object' = DOMAIN object
      /\ \A id \in DOMAIN object : object'[id].begin = object[id].begin
  BY <1>1, <1>2, Client!OthersKeepOrder, ClientSizes, AddressSpaceAssumption,
     MaxAllocationAssumption, NullAssumption DEF OwnInv
<1> QED
  BY <1>3 DEF Begins

(* Binding values leaves the arrays of a frame as they are.                *)
LEMMA BindingKeepsArrays ==
    ASSUME NEW frame, DOMAIN frame = Fields, NEW key, NEW val
    PROVE  /\ Arrays(BindStmt(frame, key, val)) = Arrays(frame)
           /\ key \notin program.arrays => Arrays(BindDecl(frame, key, val)) = Arrays(frame)
           /\ Arrays(BindDecl(frame, key, val)) \subseteq Arrays(frame) \cup {<<key, val>>}
<1> DEFINE stmt == BindStmt(frame, key, val)
           decl == BindDecl(frame, key, val)
<1>1. stmt.vars = frame.vars /\ decl.vars = Bound(frame.vars, key, val)
  BY DEF BindStmt, BindDecl, Fields
<1> HIDE DEF stmt, decl
<1>2. Arrays(stmt) = Arrays(frame)
  BY <1>1 DEF Arrays
<1>3. /\ DOMAIN decl.vars = DOMAIN frame.vars \cup {key}
      /\ \A x \in DOMAIN decl.vars : decl.vars[x] = IF x = key THEN val ELSE frame.vars[x]
  BY <1>1 DEF Bound
<1>4. key \notin program.arrays => Arrays(decl) = Arrays(frame)
  <2> SUFFICES ASSUME key \notin program.arrays
               PROVE  Arrays(decl) = Arrays(frame)
    OBVIOUS
  <2>1. DOMAIN decl.vars \cap program.arrays = DOMAIN frame.vars \cap program.arrays
    BY <1>3
  <2>2. \A x \in DOMAIN frame.vars \cap program.arrays : decl.vars[x] = frame.vars[x]
    BY <1>3
  <2> QED
    BY <2>1, <2>2 DEF Arrays
<1>5. Arrays(decl) \subseteq Arrays(frame) \cup {<<key, val>>}
  BY <1>3 DEF Arrays
<1> QED
  BY <1>2, <1>4, <1>5 DEF stmt, decl

LEMMA TopKept ==
    ASSUME IInv, todo # << >>, NEW frame, DOMAIN frame = Fields, ReplaceTop(frame)
    PROVE  /\ DOMAIN dStack' = DOMAIN dStack
           /\ Len(dStack) \in DOMAIN dStack
           /\ dStack'[Len(dStack)] = frame
           /\ \A i \in DOMAIN dStack : i # Len(dStack) => dStack'[i] = dStack[i]
BY TopIsFrame, TopReplaced DEF ReplaceTop

(* A step that changes no arrays.                                          *)
SameArrays ==
    /\ program' = program /\ dying' = dying
    /\ DOMAIN dStack' = DOMAIN dStack
    /\ \A i \in DOMAIN dStack : Arrays(dStack'[i]) = Arrays(dStack[i])

LEMMA TopSameArrays ==
    ASSUME IInv, todo # << >>, program' = program, dying' = dying,
           NEW frame, DOMAIN frame = Fields, ReplaceTop(frame), Arrays(frame) = Arrays(Top)
    PROVE  SameArrays
BY TopKept DEF SameArrays, Top

LEMMA SameArraysApart ==
    ASSUME OwnInv, SameArrays, Client!InOrder', Begins \subseteq Begins'
    PROVE  OwnInv'
<1>1. ApartIn(dStack', dying', Begins')
  BY DEF OwnInv, ApartIn, ArraysApart, SameArrays
<1> QED
  BY <1>1, ApartNext DEF SameArrays

(* What is assigned to, incremented or declared as no array is none.       *)
LEMMA NoArray ==
    ASSUME IInv, Ready
    PROVE  /\ Node(Current).kind \in {"assign", "++"} /\ Node(Kid(Current, 1)).kind = "ref" =>
                 Node(Kid(Current, 1)).var \notin program.arrays
           /\ Node(Current).kind = "decl" /\ Node(Current).type # "array" =>
                 Node(Current).var \notin program.arrays
BY OperandCount DEF IsNode, Node, Kid

LEMMA TopFields ==
    ASSUME IInv, todo # << >>
    PROVE  DOMAIN Top = Fields
BY TopIsFrame

(* Most steps change no arrays.                                            *)
LEMMA VisitsSameArrays ==
    ASSUME Visit \/ Skip \/ Test \/ Aborts \/ Divide \/ CallPrint \/ CallFree \/ VisitGlobal
           \/ BindGlobal \/ CloseHeap \/ UNCHANGED vars
    PROVE  SameArrays
BY DEF SameArrays, Visit, Skip, Test, Aborts, Divide, CallPrint, CallFree, VisitGlobal, BindGlobal,
       CloseHeap, Done, vars, machineVars

LEMMA BindingSameArrays ==
    ASSUME IInv, todo # << >>, program' = program, dying' = dying,
           NEW n, NEW val, ReplaceTop(BindStmt(Top, n, val))
    PROVE  SameArrays
<1> DEFINE frame == BindStmt(Top, n, val)
<1>1. DOMAIN frame = Fields /\ Arrays(frame) = Arrays(Top)
  BY TopFields, BindingKeepsFields, BindingKeepsArrays
<1> HIDE DEF frame
<1>2. ReplaceTop(frame)
  BY DEF frame
<1> QED
  BY <1>1, <1>2, TopSameArrays

LEMMA ExpressionsSameArrays ==
    ASSUME IInv, Evaluate \/ Load \/ AssignMemory \/ AssignNothing \/ CallGet \/ CallMalloc
    PROVE  SameArrays
<1>1. todo # << >> /\ program' = program /\ dying' = dying
  BY DEF Evaluate, Load, AssignMemory, AssignNothing, CallGet, CallMalloc, Calls, Ready, At, Done
<1>2. dStack' = dStack \/ \E n, val : ReplaceTop(BindStmt(Top, n, val))
  BY DEF Evaluate, Load, AssignMemory, AssignNothing, CallGet, CallMalloc
<1>3. CASE dStack' = dStack
  BY <1>1, <1>3 DEF SameArrays
<1> QED
  BY <1>1, <1>2, <1>3, BindingSameArrays

LEMMA StatementsSameArrays ==
    ASSUME IInv, AssignVariable \/ Increment \/ Declare \/ Return
    PROVE  SameArrays
<1>1. Ready /\ todo # << >> /\ program' = program /\ dying' = dying
  BY DEF AssignVariable, Increment, Declare, Return, Ready, At, Done
<1>2. DOMAIN Top = Fields
  BY <1>1, TopFields
<1>3. CASE AssignVariable
  <2> DEFINE x == Node(Kid(Current, 1)).var
             val == Val(Kid(Current, 2))
             stmt == BindStmt(Top, Current, val)
  <2>1. x \notin program.arrays
    BY <1>1, <1>3, NoArray DEF AssignVariable
  <2>2. ReplaceTop(BindDecl(stmt, x, val)) \/ ReplaceTop(stmt)
    BY <1>3 DEF AssignVariable
  <2> HIDE DEF x, val
  <2>3. DOMAIN stmt = Fields /\ Arrays(stmt) = Arrays(Top)
    BY <1>2, BindingKeepsFields, BindingKeepsArrays
  <2> HIDE DEF stmt
  <2>4. DOMAIN BindDecl(stmt, x, val) = Fields /\ Arrays(BindDecl(stmt, x, val)) = Arrays(Top)
    BY <2>1, <2>3, BindingKeepsFields, BindingKeepsArrays
  <2> QED
    BY <1>1, <2>2, <2>3, <2>4, TopSameArrays
<1>4. CASE Increment
  <2> DEFINE sub == Kid(Current, 1)
             val == Val(sub) + 1
             first == BindStmt(Top, sub, val)
             stmt == BindStmt(first, Current, val)
  <2>1. Node(sub).kind = "ref" => Node(sub).var \notin program.arrays
    BY <1>1, <1>4, NoArray DEF Increment
  <2>2. ReplaceTop(IF Node(sub).kind = "ref" THEN BindDecl(stmt, Node(sub).var, val) ELSE stmt)
    BY <1>4 DEF Increment
  <2> HIDE DEF sub, val
  <2>3. DOMAIN first = Fields /\ Arrays(first) = Arrays(Top)
    BY <1>2, BindingKeepsFields, BindingKeepsArrays
  <2> HIDE DEF first
  <2>4. DOMAIN stmt = Fields /\ Arrays(stmt) = Arrays(Top)
    BY <2>3, BindingKeepsFields, BindingKeepsArrays
  <2> HIDE DEF stmt
  <2> DEFINE decl == BindDecl(stmt, Node(sub).var, val)
  <2>5. DOMAIN decl = Fields
    BY <2>4, BindingKeepsFields
  <2>6. Node(sub).kind = "ref" => Arrays(decl) = Arrays(Top)
    BY <2>1, <2>4, BindingKeepsArrays
  <2> HIDE DEF decl
  <2>7. CASE Node(sub).kind = "ref"
    <3>1. ReplaceTop(decl)
      BY <2>2, <2>7 DEF decl
    <3> QED
      BY <1>1, <2>5, <2>6, <2>7, <3>1, TopSameArrays
  <2>8. CASE Node(sub).kind # "ref"
    <3>1. ReplaceTop(stmt)
      BY <2>2, <2>8
    <3> QED
      BY <1>1, <2>4, <3>1, TopSameArrays
  <2> QED
    BY <2>7, <2>8
<1>5. CASE Declare
  <2>1. PICK val : ReplaceTop(BindDecl(Top, Node(Current).var, val))
    BY <1>5 DEF Declare
  <2>2. Node(Current).var \notin program.arrays
    BY <1>1, <1>5, NoArray DEF Declare
  <2> DEFINE decl == BindDecl(Top, Node(Current).var, val)
  <2>3. DOMAIN decl = Fields /\ Arrays(decl) = Arrays(Top)
    BY <1>2, <2>2, BindingKeepsFields, BindingKeepsArrays
  <2> HIDE DEF decl
  <2>4. ReplaceTop(decl)
    BY <2>1 DEF decl
  <2> QED
    BY <1>1, <2>3, <2>4, TopSameArrays
<1>6. CASE Return
  <2>1. PICK val : ReplaceTop([Top EXCEPT !.retVal = val, !.hasRetVal = TRUE])
    BY <1>6 DEF Return
  <2> DEFINE frame == [Top EXCEPT !.retVal = val, !.hasRetVal = TRUE]
  <2>2. DOMAIN frame = Fields /\ frame.vars = Top.vars
    BY <1>2 DEF Fields
  <2> HIDE DEF frame
  <2>3. Arrays(frame) = Arrays(Top)
    BY <2>2 DEF Arrays
  <2>4. ReplaceTop(frame)
    BY <2>1 DEF frame
  <2> QED
    BY <1>1, <2>2, <2>3, <2>4, TopSameArrays
<1> QED
  BY <1>3, <1>4, <1>5, <1>6

-----------------------------------------------------------------------------
(* Chunks made and deleted.                                                *)
LEMMA AllocatedInOrder ==
    ASSUME TInv, OwnInv, NEW size \in Nat, Fits(size), Allocate(size)
    PROVE  /\ Client!InOrder'
           /\ Begins' = Begins \cup {reply'[3]} /\ reply'[3] \notin Begins
<1>1. Client!HeapTypeOK /\ Client!Allocate(size)
  BY SameTypes, SameAllocate DEF TInv
<1>2. /\ Client!Capacity(size) > 0
      /\ addressAccumulator + Client!Capacity(size) < AddressSpace
  BY DEF Fits, Capacity, Client!Capacity, Length, Client!Length
<1>3. Client!InOrder'
  BY <1>1, <1>2, Client!AllocateKeepsOrder, ClientSizes, AddressSpaceAssumption,
     MaxAllocationAssumption, NullAssumption DEF OwnInv
<1>4. /\ DOMAIN object' = DOMAIN object \cup {allocated'}
      /\ allocated' \notin DOMAIN object
      /\ \A id \in DOMAIN object : object'[id] = object[id]
      /\ object'[allocated'].begin = addressAccumulator
  BY <1>1, Client!NewSlot, ClientSizes, AddressSpaceAssumption,
     MaxAllocationAssumption, NullAssumption DEF OwnInv, Client!InOrder
<1>5. reply'[3] = addressAccumulator
  BY DEF Allocate
<1>6. addressAccumulator \notin Begins
  <2>1. \A id \in DOMAIN object : /\ object[id].begin < addressAccumulator
                                 /\ object[id].begin \in Nat /\ addressAccumulator \in Nat
    BY AddressSpaceAssumption
       DEF OwnInv, Client!InOrder, Client!BeginsDiffer, TInv, HeapTypeOK, IsChunk, Address
  <2> QED
    BY <2>1 DEF Begins
<1> QED
  BY <1>3, <1>4, <1>5, <1>6 DEF Begins

LEMMA ReleasedInOrder ==
    ASSUME TInv, OwnInv, NEW addr \in Begins, ReleaseCall(addr)
    PROVE  Client!InOrder' /\ Begins' = Begins \ {addr}
<1>1. PICK id \in DOMAIN object : object[id].begin = addr
  BY DEF Begins
<1>2. Client!HeapTypeOK /\ Client!ReleaseCall(object[id].begin)
  BY <1>1, SameTypes, SameRelease DEF TInv
<1>3. /\ Client!InOrder'
      /\ DOMAIN object' = DOMAIN object \ {id}
      /\ \A other \in DOMAIN object' : object'[other] = object[other]
  BY <1>2, Client!ReleaseKeepsOrder, ClientSizes, AddressSpaceAssumption,
     MaxAllocationAssumption, NullAssumption DEF OwnInv
<1>4. \A other \in DOMAIN object : object[other].begin = addr => other = id
  BY <1>1 DEF OwnInv, Client!InOrder, Client!BeginsDiffer
<1> QED
  BY <1>1, <1>3, <1>4 DEF Begins

LEMMA BeginsAreAddresses ==
    ASSUME TInv, NEW addr \in Begins
    PROVE  Unsigned(addr) = addr
<1>1. addr \in Address
  BY DEF Begins, TInv, HeapTypeOK, IsChunk
<1> QED
  BY <1>1, AddressSpaceAssumption DEF Unsigned, Address

(* One lemma for each kind of step.                                        *)
LEMMA QuietStepsKeepApart ==
    ASSUME Value = Int, IInv, TInv, OwnInv,
           \/ Visit \/ Skip \/ Test \/ Aborts \/ Divide \/ CallPrint \/ VisitGlobal \/ BindGlobal
           \/ Evaluate \/ Load \/ AssignMemory \/ AssignNothing \/ CallGet
           \/ AssignVariable \/ Increment \/ Declare \/ Return \/ UNCHANGED vars
    PROVE  OwnInv'
<1>1. SameArrays
  BY VisitsSameArrays, ExpressionsSameArrays, StatementsSameArrays
<1>2. \/ UNCHANGED heapVars
      \/ \E addr : HeapGet(addr) \/ AccessFails(addr) \/ \E val \in Value : HeapSet(addr, val)
      \/ Stop("aborted") \/ Stop("undefined")
  <2>1. CASE UNCHANGED vars
    BY <2>1 DEF vars
  <2>2. CASE Aborts \/ Divide
    BY <2>2 DEF Aborts, Divide
  <2>3. CASE Load
    BY <2>3 DEF Load
  <2>4. CASE AssignMemory
    <3>1. Ready /\ Node(Current).kind = "assign"
      BY <2>4 DEF AssignMemory
    <3>2. Val(Kid(Current, 2)) \in Value
      BY <3>1, Operands, OperandCount DEF TwoOperands, Control, Loop
    <3> QED
      BY <2>4, <3>2 DEF AssignMemory
  <2> QED
    BY <2>1, <2>2, <2>3, <2>4, QuietHeap
<1> QED
  BY <1>1, <1>2, HeapQuiet, SameArraysApart

LEMMA MallocKeepsApart ==
    ASSUME Value = Int, IInv, TInv, OwnInv, AllocationsFit, CallMalloc
    PROVE  OwnInv'
<1> DEFINE size == Unsigned(Val(Kid(Current, 1)))
<1>1. Calls("MALLOC") /\ Allocate(size) /\ Fits(size)
  BY DEF CallMalloc, AllocationsFit
<1>2. size \in Nat
  <2>1. Ready /\ Node(Current).kind = "call" /\ Node(Current).callee = "MALLOC"
    BY <1>1 DEF Calls
  <2>2. Len(Node(Current).kids) = 1
    BY <2>1, OperandCount DEF IsNode, Node, External, IInv, IsProgram
  <2>3. 1 \in DOMAIN Node(Current).kids
    BY <2>1, <2>2, OperandCount, NodesOfProgram
  <2>4. Val(Kid(Current, 1)) \in Int
    BY <2>1, <2>3, Operands DEF Control, Loop
  <2> QED
    BY <2>4, UnsignedIsAddress, AddressSpaceAssumption DEF Address
<1> HIDE DEF size
<1>3. Client!InOrder' /\ Begins \subseteq Begins'
  BY <1>1, <1>2, AllocatedInOrder
<1> QED
  BY <1>3, ExpressionsSameArrays, SameArraysApart

LEMMA DeclareKeepsApart ==
    ASSUME Value = Int, IInv, TInv, OwnInv, AllocationsFit, DeclareArray
    PROVE  OwnInv'
<1> DEFINE size == Unsigned(Node(Current).length * IntBytes)
           frame == BindDecl(Top, Node(Current).var, reply'[3])
<1>1. /\ Ready /\ Node(Current).kind = "decl" /\ Node(Current).type = "array"
      /\ Allocate(size) /\ Fits(size) /\ ReplaceTop(frame)
      /\ program' = program /\ dying' = dying
  BY DEF DeclareArray, AllocationsFit, Done
<1>2. size \in Nat
  <2>1. Node(Current).length \in Nat
    BY <1>1, OperandCount DEF IsNode, Node
  <2> QED
    BY <2>1, UnsignedIsAddress, AddressSpaceAssumption DEF Address, IntBytes
<1> HIDE DEF size
<1>3. /\ Client!InOrder'
      /\ Begins' = Begins \cup {reply'[3]} /\ reply'[3] \notin Begins
  BY <1>1, <1>2, AllocatedInOrder
<1>4. todo # << >> /\ DOMAIN Top = Fields
  BY <1>1, TopFields DEF Ready, At
<1> DEFINE declared == <<Node(Current).var, reply'[3]>>
<1>5. DOMAIN frame = Fields /\ Arrays(frame) \subseteq Arrays(Top) \cup {declared}
  BY <1>4, BindingKeepsFields, BindingKeepsArrays
<1>6. declared[2] = reply'[3]
  OBVIOUS
<1> HIDE DEF frame, declared
<1>7. /\ DOMAIN dStack' = DOMAIN dStack /\ Len(dStack) \in DOMAIN dStack
      /\ dStack'[Len(dStack)] = frame
      /\ \A i \in DOMAIN dStack : i # Len(dStack) => dStack'[i] = dStack[i]
  BY <1>1, <1>4, <1>5, TopKept
<1>8. \A i \in DOMAIN dStack : \A array \in Arrays(dStack'[i]) :
         \/ array \in Arrays(dStack[i])
         \/ array = declared /\ i = Len(dStack)
  BY <1>5, <1>7 DEF Top
<1>9. /\ \A i \in DOMAIN dStack : \A array \in Arrays(dStack[i]) : array[2] # reply'[3]
      /\ \A d \in dying : d[2][2] # reply'[3]
  BY <1>3 DEF OwnInv, ApartIn
<1>10. ApartIn(dStack', dying', Begins')
  <2>1. \A i \in DOMAIN dStack : \A array \in Arrays(dStack'[i]) : array[2] \in Begins'
    BY <1>3, <1>6, <1>8 DEF OwnInv, ApartIn
  <2>2. ArraysApart(dStack')
    <3>1. ArraysApart(dStack)
      BY DEF OwnInv, ApartIn
    <3> SUFFICES ASSUME NEW i \in DOMAIN dStack, NEW j \in DOMAIN dStack,
                        NEW array \in Arrays(dStack'[i]), NEW other \in Arrays(dStack'[j]),
                        array[2] = other[2]
                 PROVE  i = j /\ array = other
      BY <1>7 DEF ArraysApart
    <3>2. CASE array \in Arrays(dStack[i]) /\ other \in Arrays(dStack[j])
      BY <3>1, <3>2 DEF ArraysApart
    <3>3. CASE array = declared /\ i = Len(dStack) /\ other = declared /\ j = Len(dStack)
      BY <3>3
    <3> QED
      BY <1>6, <1>8, <1>9, <3>2, <3>3
  <2>3. \A d \in dying : \A i \in DOMAIN dStack : \A array \in Arrays(dStack'[i]) :
           array[2] # d[2][2]
    BY <1>6, <1>8, <1>9 DEF OwnInv, ApartIn
  <2>4. /\ \A d \in dying : d[2][2] \in Begins'
        /\ \A d, e \in dying : d[2][2] = e[2][2] => d = e
    BY <1>3 DEF OwnInv, ApartIn
  <2> QED
    BY <1>1, <1>7, <2>1, <2>2, <2>3, <2>4 DEF ApartIn
<1> QED
  BY <1>1, <1>3, <1>10, ApartNext

LEMMA FreeKeepsApart ==
    ASSUME TInv, IInv, OwnInv, dying = {}, FreesLiveBlocks, CallFree
    PROVE  OwnInv'
<1> DEFINE addr == Unsigned(Val(Kid(Current, 1)))
<1>1. Calls("FREE") /\ ReleaseCall(addr)
  BY DEF CallFree
<1>2. /\ addr \in Begins
      /\ \A i \in DOMAIN dStack : \A array \in Arrays(dStack[i]) : array[2] # addr
  BY <1>1 DEF FreesLiveBlocks, Begins
<1> HIDE DEF addr
<1>3. Client!InOrder' /\ Begins' = Begins \ {addr}
  BY <1>1, <1>2, ReleasedInOrder
<1>4. SameArrays
  BY VisitsSameArrays
<1>5. ApartIn(dStack', dying', Begins')
  BY <1>2, <1>3, <1>4 DEF OwnInv, ApartIn, ArraysApart, SameArrays
<1> QED
  BY <1>3, <1>4, <1>5, ApartNext DEF SameArrays

LEMMA DestructorKeepsApart ==
    ASSUME TInv, OwnInv, ReleaseArray
    PROVE  OwnInv'
<1>1. PICK d \in dying : ReleaseCall(Unsigned(d[2][2])) /\ dying' = dying \ {d}
  BY DEF ReleaseArray
<1> DEFINE addr == d[2][2]
<1>2. addr \in Begins /\ Unsigned(addr) = addr
  BY BeginsAreAddresses DEF OwnInv, ApartIn
<1>3. Client!InOrder' /\ Begins' = Begins \ {addr}
  BY <1>1, <1>2, ReleasedInOrder
<1>4. program' = program /\ dStack' = dStack
  BY DEF ReleaseArray
<1>5. ApartIn(dStack', dying', Begins')
  <2>1. \A e \in dying' : e \in dying /\ e[2][2] # addr
    BY <1>1 DEF OwnInv, ApartIn
  <2> QED
    BY <1>1, <1>3, <1>4, <2>1 DEF OwnInv, ApartIn, ArraysApart
<1> QED
  BY <1>3, <1>4, <1>5, ApartNext

(* A new frame has no array, and no array moves.                           *)
LEMMA CallKeepsApart ==
    ASSUME IInv, TInv, OwnInv, dying = {}, MovesNoArrays, Call
    PROVE  OwnInv'
<1> DEFINE f == Node(Current).callee
           frame == [NewFrame EXCEPT !.vars = Arguments(f)]
           n == Len(dStack)
<1>1. /\ CallsFunction /\ program' = program /\ UNCHANGED heapVars
      /\ dStack' = Append(dStack, frame)
      /\ \/ n < capacity /\ dying' = dying
         \/ ~(n < capacity) /\ Moved
  BY DEF Call, EnterBody
<1>2. Arrays(frame) = {}
  <2>1. f \in DOMAIN program.body
    BY <1>1 DEF CallsFunction
  <2>2. \A k \in DOMAIN Parameters(f) : Parameters(f)[k] \notin program.arrays
    BY <2>1 DEF IInv, IsProgram, Parameters
  <2>3. frame.vars = Arguments(f) /\ DOMAIN Arguments(f) = ToSet(Parameters(f))
    BY DEF NewFrame, Arguments
  <2>4. DOMAIN frame.vars \cap program.arrays = {}
    BY <2>2, <2>3 DEF ToSet
  <2> HIDE DEF frame, f
  <2> QED
    BY <2>4 DEF Arrays
<1> HIDE DEF frame, f
<1>3. n \in Nat /\ DOMAIN dStack = 1 .. n
  BY <1>1, TopIsFrame DEF CallsFunction, Ready, At
<1>4. /\ DOMAIN dStack' = 1 .. n + 1 /\ dStack'[n + 1] = frame
      /\ \A i \in 1 .. n : dStack'[i] = dStack[i]
  <2>1. PICK S : dStack \in Seq(S)
    BY DEF IInv, IsStack
  <2>2. dStack \in Seq(S \cup {frame})
    <3>1. dStack \in [1 .. n -> S \cup {frame}]
      BY <1>3, <2>1
    <3> QED
      BY <1>3, <3>1
  <2> QED
    BY <1>1, <2>2
<1>5. dying' = {}
  <2>1. CASE n < capacity
    BY <1>1, <2>1
  <2>2. CASE ~(n < capacity)
    <3>1. n = capacity
      <4>1. n <= capacity /\ capacity \in Nat
        BY DEF TInv, Typed, Room
      <4> HIDE DEF n
      <4> QED
        BY <1>3, <2>2, <4>1
    <3>2. \A i \in DOMAIN dStack : Arrays(dStack[i]) = {}
      BY <1>1, <3>1 DEF MovesNoArrays
    <3> QED
      BY <1>1, <2>2, <3>2 DEF Moved
  <2> QED
    BY <2>1, <2>2
<1> HIDE DEF n
<1>6. Client!InOrder' /\ Begins' = Begins
  BY <1>1, HeapQuiet
<1>7. ApartIn(dStack', dying', Begins')
  <2>1. \A i \in DOMAIN dStack' :
           \/ i \in DOMAIN dStack /\ dStack'[i] = dStack[i]
           \/ i = n + 1 /\ Arrays(dStack'[i]) = {}
    BY <1>2, <1>3, <1>4
  <2>2. \A i \in DOMAIN dStack' : \A array \in Arrays(dStack'[i]) : array[2] \in Begins
    BY <2>1 DEF OwnInv, ApartIn
  <2>3. ArraysApart(dStack')
    BY <2>1 DEF OwnInv, ApartIn, ArraysApart
  <2> QED
    BY <1>5, <1>6, <2>2, <2>3 DEF ApartIn
<1> QED
  BY <1>1, <1>6, <1>7, ApartNext

(* The arrays of the frame left are released, and are in no other.         *)
LEMMA LeaveKeepsApart ==
    ASSUME IInv, TInv, OwnInv, Leave
    PROVE  OwnInv'
<1> DEFINE n == Len(dStack')
           last == Len(dStack)
<1>1. /\ todo # << >> /\ program' = program /\ UNCHANGED heapVars
      /\ dying' = {last} \X Arrays(Top)
  BY DEF Leave, At
<1>2. /\ n = last - 1 /\ last \in Nat \ {0} /\ DOMAIN dStack = 1 .. last /\ DOMAIN dStack' = 1 .. n
      /\ \A i \in DOMAIN dStack' : i # n => dStack'[i] = dStack[i]
      /\ dStack'[n] = BindStmt(dStack[n], Current, Top.retVal)
  BY <1>1, LeaveEffect, TopIsFrame DEF IInv, IsStack
<1> HIDE DEF n
<1>3. \A i \in DOMAIN dStack' : i \in DOMAIN dStack /\ i # last
  BY <1>2
<1>4. \A i \in DOMAIN dStack' : Arrays(dStack'[i]) = Arrays(dStack[i])
  <2> SUFFICES ASSUME NEW i \in DOMAIN dStack'
               PROVE  Arrays(dStack'[i]) = Arrays(dStack[i])
    OBVIOUS
  <2>1. DOMAIN dStack[i] = Fields
    BY <1>3 DEF IInv, IsStack
  <2> QED
    BY <1>2, <2>1, BindingKeepsArrays
<1>5. Client!InOrder' /\ Begins' = Begins
  BY <1>1, HeapQuiet
<1>6. /\ last \in DOMAIN dStack
      /\ \A d \in dying' : d = <<last, d[2]>> /\ d[2] \in Arrays(dStack[last])
  BY <1>1, <1>2 DEF Top
<1> HIDE DEF last
<1>7. ApartIn(dStack', dying', Begins')
  <2>1. ArraysApart(dStack)
    BY DEF OwnInv, ApartIn
  <2>2. ArraysApart(dStack')
    BY <1>3, <1>4, <2>1 DEF ArraysApart
  <2>3. \A d, e \in dying' : d[2][2] = e[2][2] => d = e
    BY <1>6, <2>1 DEF ArraysApart
  <2>4. \A d \in dying' : \A i \in DOMAIN dStack' : \A array \in Arrays(dStack'[i]) :
           array[2] # d[2][2]
    BY <1>3, <1>4, <1>6, <2>1 DEF ArraysApart
  <2> QED
    BY <1>3, <1>4, <1>5, <1>6, <2>2, <2>3, <2>4 DEF OwnInv, ApartIn
<1> QED
  BY <1>1, <1>5, <1>7, ApartNext

LEMMA EntryAndExitKeepApart ==
    ASSUME IInv, TInv, OwnInv, dying = {}, EnterMain \/ Exit \/ CloseHeap
    PROVE  OwnInv'
<1>1. CASE EnterMain
  <2>1. program' = program /\ dStack' = <<NewFrame>> /\ dying' = {} /\ UNCHANGED heapVars
    BY <1>1 DEF EnterMain
  <2>2. Arrays(NewFrame) = {}
    BY DEF Arrays, NewFrame
  <2>3. Client!InOrder' /\ Begins' = Begins
    BY <2>1, HeapQuiet
  <2>4. DOMAIN dStack' = {1} /\ dStack'[1] = NewFrame
    BY <2>1
  <2>5. ApartIn(dStack', dying', Begins')
    BY <2>1, <2>2, <2>4 DEF ApartIn, ArraysApart
  <2> QED
    BY <2>1, <2>3, <2>5, ApartNext
<1>2. CASE Exit
  <2>1. /\ program' = program /\ dStack' = << >> /\ UNCHANGED heapVars
        /\ dying' = {Len(dStack)} \X Arrays(Top)
    BY <1>2 DEF Exit
  <2>2. /\ \A d \in dying' : d[2][2] \in Begins
        /\ \A d, e \in dying' : d[2][2] = e[2][2] => d = e
    <3>1. Len(dStack) = 1 /\ DOMAIN dStack = 1 .. Len(dStack)
      BY <1>2, ExitEffect DEF IInv, IsStack
    <3>2. \A d \in dying' : d = <<Len(dStack), d[2]>> /\ d[2] \in Arrays(dStack[1])
      BY <2>1, <3>1 DEF Top
    <3> QED
      BY <3>1, <3>2 DEF OwnInv, ApartIn, ArraysApart
  <2>3. Client!InOrder' /\ Begins' = Begins
    BY <2>1, HeapQuiet
  <2>4. DOMAIN dStack' = {}
    BY <2>1
  <2>5. ApartIn(dStack', dying', Begins')
    BY <2>2, <2>3, <2>4 DEF ApartIn, ArraysApart
  <2> QED
    BY <2>1, <2>3, <2>5, ApartNext
<1>3. CASE CloseHeap
  <2>1. /\ Close \/ CloseCrashes
        /\ program' = program /\ dStack' = << >> /\ dying' = {}
    BY <1>3 DEF CloseHeap, machineVars
  <2>2. Client!Close \/ Client!CloseCrashes
    BY <2>1, SameClose DEF Client!Exit
  <2>3. Client!InOrder'
    BY <2>2, Client!ExitKeepsOrder, ClientSizes, AddressSpaceAssumption,
       MaxAllocationAssumption, NullAssumption DEF OwnInv
  <2>4. DOMAIN dStack' = {}
    BY <2>1
  <2>5. ApartIn(dStack', dying', Begins')
    BY <2>1, <2>4 DEF ApartIn, ArraysApart
  <2> QED
    BY <2>1, <2>3, <2>5, ApartNext
<1> QED
  BY <1>1, <1>2, <1>3

LEMMA StepKeepsApart ==
    ASSUME Value = Int, IInv, TInv, program.proper => OwnInv, RulesKept, [Next]_vars
    PROVE  (program.proper => OwnInv)'
<1>1. program' = program
  BY DEF Next, Step, vars, machineVars, Visit, Skip, Test, Aborts, Evaluate, Divide, Load,
         AssignVariable, AssignMemory, AssignNothing, Increment, Declare, DeclareArray, Return, CallGet,
         CallPrint, CallMalloc, CallFree, Call, EnterBody, Leave, VisitGlobal, BindGlobal, EnterMain, Exit,
         CloseHeap, ReleaseArray, Done
<1>2. ASSUME program.proper
      PROVE  OwnInv'
  <2>1. OwnInv
    BY <1>2
  <2>2. ASSUME Running, dying = {}, Step
        PROVE  OwnInv'
    <3>1. AllocationsFit /\ FreesLiveBlocks /\ MovesNoArrays
      BY <1>2, <2>2 DEF RulesKept
    <3> QED
      BY <2>1, <2>2, <3>1, QuietStepsKeepApart, MallocKeepsApart, DeclareKeepsApart, FreeKeepsApart,
         CallKeepsApart, LeaveKeepsApart, EntryAndExitKeepApart DEF Step
  <2>3. CASE ReleaseArray
    BY <2>1, <2>3, DestructorKeepsApart
  <2>4. CASE UNCHANGED vars
    BY <2>1, <2>4, QuietStepsKeepApart
  <2> QED
    BY <2>2, <2>3, <2>4 DEF Next
<1> QED
  BY <1>1, <1>2

LEMMA InitIsApart ==
    ASSUME Init
    PROVE  OwnInv
<1>1. DOMAIN object = {} /\ DOMAIN chunks = {} /\ status = "running"
  BY DEF Init, HeapInit
<1>2. Client!InOrder
  BY <1>1 DEF Client!InOrder, Client!OneSlotEach, Client!BeginsDiffer, Client!EmptyWhenClosed
<1>3. Arrays(NewFrame) = {}
  BY DEF Arrays, NewFrame
<1>4. DOMAIN dStack = {1} /\ dStack[1] = NewFrame /\ dying = {}
  BY DEF Init
<1> QED
  BY <1>2, <1>3, <1>4 DEF OwnInv, ApartIn, ArraysApart

(* While the program keeps the rules, the heap is in order and the arrays  *)
(* of the frames are apart: what ~StackFrame (166-176) relies on when it   *)
(* releases the arrays that were declared in the frame (446-449).          *)
THEOREM OwnInductive ==
    ASSUME Value = Int
    PROVE  Spec /\ []RulesKept => [](program.proper => OwnInv)
<1>1. Init => (program.proper => OwnInv)
  BY InitIsApart
<1>2. IInv /\ TInv /\ (program.proper => OwnInv) /\ RulesKept /\ [Next]_vars
         => (program.proper => OwnInv)'
  BY StepKeepsApart
<1> QED
  BY <1>1, <1>2, TypesInductive, PTL DEF Spec

(* An array lives as long as its frame, in a chunk of its own: for every   *)
(* program that, when it asks the heap, keeps the rules (RulesKept),       *)
(* whatever it computes, loads and stores (Environment.h, 166-176, 446).   *)
THEOREM ArraysLiveAlways ==
    ASSUME Value = Int
    PROVE  Spec /\ []RulesKept => []ArraysLive
<1>1. (program.proper => OwnInv) => ArraysLive
  <2> SUFFICES ASSUME OwnInv
               PROVE  ArraysLive
    BY DEF ArraysLive
  <2>1. ASSUME NEW addr \in Begins
        PROVE  \E id \in ToSet(chunks) \cap DOMAIN object : object[id].begin = addr
    <3>1. PICK id \in DOMAIN object : object[id].begin = addr
      BY DEF Begins
    <3>2. id \in ToSet(chunks)
      BY DEF OwnInv, Client!InOrder, Client!OneSlotEach, ToSet
    <3> QED
      BY <3>1, <3>2
  <2> QED
    BY <2>1 DEF ArraysLive, OwnInv, ApartIn, ArraysApart
<1> QED
  BY <1>1, OwnInductive, PTL

(* When such a program has ended, every chunk was deleted, those of arrays *)
(* a loop declared again included (Environment.h, 110-117 and 449).        *)
THEOREM NothingLeaksAlways ==
    ASSUME Value = Int
    PROVE  Spec /\ []RulesKept => []NothingLeaks
<1>1. (program.proper => OwnInv) => NothingLeaks
  BY DEF OwnInv, Client!InOrder, Client!EmptyWhenClosed, NothingLeaks
<1> QED
  BY <1>1, OwnInductive, PTL
=============================================================================
