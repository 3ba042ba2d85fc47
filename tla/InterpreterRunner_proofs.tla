----------------------- MODULE InterpreterRunner_proofs -----------------------
(***************************************************************************)
(* Proofs about InterpreterRunner, for every set of descriptors,           *)
(* inferences, outputs and labels.  What is known of the Interpreter comes *)
(* from Interpreter_proofs, through the instance IP.                       *)
(***************************************************************************)
EXTENDS InterpreterRunner, FiniteSetTheorems, WellFoundedInduction, TLAPS

IP == INSTANCE Interpreter_proofs

-----------------------------------------------------------------------------
\* The definitions of the two instances of Interpreter, the one main() is written
\* with and the one the lemmas are about, are the same.
LEMMA SameNext == Interp!Next <=> IP!Next
BY DEF Interp!Step, Interp!OpenDevice, Interp!OpenModel, Interp!NewNetworkBuffer,
       Interp!FillNetworkBuffer, Interp!NewNetwork, Interp!CheckVela, Interp!NewArena,
       Interp!ResizeArena, Interp!DestroyMember, Interp!DestroyDevice, Interp!Created,
       Interp!CreateFails, Interp!WaitReturns, Interp!WaitTimesOut, Interp!CheckStatus,
       Interp!LibraryStep, Interp!Goto, Interp!DestroyedNext, Interp!Declared, Interp!Client,
       Interp!Destroy, Interp!GetCounters, Interp!SetInput, Interp!SetPmuCycleCounters,
       Interp!Invoke, Interp!WaitThrows, Interp!Firmware, Interp!Start, Interp!Complete,
       Interp!Done, Interp!Next, Interp!Ended, Interp!vars, Interp!libVars, Interp!callVars,
       Interp!arenaVars, Interp!NoInput, Interp!Partial, Interp!Unread, Interp!Lib!Library,
       Interp!Lib!BufferCreate, Interp!Lib!BufferMap, Interp!Lib!BufferMapFails,
       Interp!Lib!BufferClose, Interp!Lib!NetworkCreate, Interp!Lib!NetworkInfo,
       Interp!Lib!NetworkInfoFails, Interp!Lib!NetworkClose, Interp!Lib!ArenaResize,
       Interp!Lib!InferenceOverflow, Interp!Lib!InferenceCreate, Interp!Lib!Destroy,
       Interp!Lib!DestroyFails, Interp!Lib!Released, Interp!Lib!DeviceCtor,
       Interp!Lib!NewBuffer, Interp!Lib!NewNetwork, Interp!Lib!NewInferenceInArena,
       Interp!Lib!Reset, Interp!Lib!Enter, Interp!Lib!Open, Interp!Lib!LowestFree,
       Interp!Lib!Kind, Interp!Lib!Close, Interp!Lib!Throw, Interp!Lib!Return,
       Interp!Lib!Terminate, Interp!Lib!Constructing, Interp!Lib!Garbage, Interp!Lib!Objects,
       Interp!Lib!NoArgs, Interp!Lib!NoFd, Interp!Lib!IfmCount, Interp!Lib!objVars,
       Interp!Lib!callVars,
       IP!Step, IP!OpenDevice, IP!OpenModel, IP!NewNetworkBuffer, IP!FillNetworkBuffer, IP!NewNetwork,
       IP!CheckVela, IP!NewArena, IP!ResizeArena, IP!DestroyMember, IP!DestroyDevice,
       IP!Created, IP!CreateFails, IP!WaitReturns, IP!WaitTimesOut, IP!CheckStatus,
       IP!LibraryStep, IP!Goto, IP!DestroyedNext, IP!Declared, IP!Client, IP!Destroy,
       IP!GetCounters, IP!SetInput, IP!SetPmuCycleCounters, IP!Invoke, IP!WaitThrows,
       IP!Firmware, IP!Start, IP!Complete, IP!Done, IP!Next, IP!Ended, IP!vars, IP!libVars,
       IP!callVars, IP!arenaVars, IP!NoInput, IP!Partial, IP!Unread, IP!Lib!Library,
       IP!Lib!BufferCreate, IP!Lib!BufferMap, IP!Lib!BufferMapFails, IP!Lib!BufferClose,
       IP!Lib!NetworkCreate, IP!Lib!NetworkInfo, IP!Lib!NetworkInfoFails, IP!Lib!NetworkClose,
       IP!Lib!ArenaResize, IP!Lib!InferenceOverflow, IP!Lib!InferenceCreate, IP!Lib!Destroy,
       IP!Lib!DestroyFails, IP!Lib!Released, IP!Lib!DeviceCtor, IP!Lib!NewBuffer,
       IP!Lib!NewNetwork, IP!Lib!NewInferenceInArena, IP!Lib!Reset, IP!Lib!Enter, IP!Lib!Open,
       IP!Lib!LowestFree, IP!Lib!Kind, IP!Lib!Close, IP!Lib!Throw, IP!Lib!Return,
       IP!Lib!Terminate, IP!Lib!Constructing, IP!Lib!Garbage, IP!Lib!Objects, IP!Lib!NoArgs,
       IP!Lib!NoFd, IP!Lib!IfmCount, IP!Lib!objVars, IP!Lib!callVars

\* So are their initial states.
LEMMA SameInit == Interp!Init <=> IP!Init
BY DEF Interp!Init, Interp!NoInput, Interp!Unread, Interp!Lib!Init, Interp!Lib!Objects, Interp!Lib!NoArgs,
       Interp!Lib!NoFd,
       IP!Init, IP!NoInput, IP!Unread, IP!Lib!Init, IP!Lib!Objects, IP!Lib!NoArgs, IP!Lib!NoFd

-----------------------------------------------------------------------------
\* The options are flags.
OptionTypes == options \in [negative : BOOLEAN, events : BOOLEAN, cycles : BOOLEAN]

\* Every step of main() is a step of the Interpreter that its client may cause, or
\* leaves the Interpreter alone.
LEMMA InterpreterAllows == OptionTypes /\ [Next]_vars => [Interp!Next]_(Interp!vars)
<1> SUFFICES ASSUME OptionTypes, [Next]_vars, Interp!vars' # Interp!vars PROVE Interp!Next
  OBVIOUS
<1>1. interpVars' # interpVars
  BY DEF Interp!vars, Interp!libVars, Interp!callVars, Interp!arenaVars,
         interpVars, libVars, callVars, arenaVars
<1>2. CASE Construct \/ Invoking \/ Destroying
  BY <1>2 DEF Construct, Invoking, Destroying, Call, Interp!Next
<1>3. CASE SetPmuCycleCounters \/ GetInputFromFile
  <2>1. CASE Interp!SetPmuCycleCounters(options.cycles)
    <3>1. options.cycles \in BOOLEAN
      BY DEF OptionTypes
    <3> QED  BY <2>1, <3>1 DEF Interp!Next, Interp!Client
  <2>2. CASE Interp!SetInput(1)
    BY <2>2, RunnerAssumption DEF RunnerAssumption, Interp!InterpreterAssumption, Interp!Next, Interp!Client
  <2> QED  BY <1>1, <1>3, <2>1, <2>2 DEF SetPmuCycleCounters, GetInputFromFile
<1>4. CASE Invoke \/ Leave \/ ReadCounters
  BY <1>1, <1>4 DEF Invoke, Leave, ReadCounters, Interp!Next, Interp!Client
<1>5. CASE InvokeThrows \/ Firmware
  BY <1>5 DEF InvokeThrows, Firmware, Interp!Next
<1> QED
  BY <1>1, <1>2, <1>3, <1>4, <1>5
     DEF Next, Runner, Done, vars, ParseArguments, ReadLabelsFile, ConstructTerminates, GetInputFails,
         GetResults, GetResultsFails, GetResultsCrashes, PrintResults, PrintCrashes

-----------------------------------------------------------------------------
\* Where main() is and where the Interpreter is.  Invoke() is called once, so that
\* nothing else runs when it begins.
Phase ==
    /\ main \in {"arguments", "labels"} => at = "device"
    /\ main = "construct" => at \in {"device", "capabilities", "networkBuffer", "fill", "network",
                                     "vela", "arena", "resize", "unwind"}
    /\ main \in {"configure", "fill", "call", "results", "print", "counters", "return", "throw"} =>
          at = "ready"
    /\ main = "invoke" => at \in {"create", "wait", "status"} /\ ~overlap
    /\ main \in {"destroy", "unwind"} => at = "unwind"
    /\ code # "none" => main = "done"

\* No inference exists before main() calls Invoke().
BeforeInvoke ==
    main \in {"arguments", "labels", "construct", "configure", "fill", "call"} =>
       \A i \in Inferences : status[i] = "none"

\* Once Invoke() has returned, its inference has answered and no other one runs, up
\* to the end of a process that succeeds.
Answered(i) == status[i] = "OK" /\ job[i] = asked /\ output = asked
AfterInvoke ==
    /\ main \in {"results", "print", "counters"} =>
          inference # NoObj /\ inference \in Inferences /\ Answered(inference)
    /\ main \in {"results", "print", "counters", "return", "destroy"} \/ code = "0" =>
          (\E i \in Inferences : Answered(i)) /\ \A i \in Inferences : status[i] # "RUNNING"

NoCrash == at # "crashed"

\* The results are those of the tensor that was read.
Report ==
    \/ main # "print" /\ tensor = NoTensor /\ results = <<>>
    \/ /\ tensor \in Outputs
       /\ \/ tensor.tensors > 1 /\ results = BoundingBoxes(tensor)
          \/ tensor.tensors = 1 /\ ~HasNaN(tensor) /\ results = TopN(tensor)
          \/ tensor.tensors = 1 /\ HasNaN(tensor) /\ results \in Unordered(tensor)

\* The other variables of main().
OwnTypes == /\ main \in Mains
            /\ labels \in LabelCounts \cup {0}
            /\ code \in {"none", "0", "1", "terminate", "abort", "crash"}

-----------------------------------------------------------------------------
\* The library constructs an Inference only inside Invoke().
LEMMA Creating == IP!IInv /\ pc = "InferenceCreate" => at = "create"
<1> SUFFICES ASSUME IP!IInv, pc = "InferenceCreate" PROVE at = "create"
  OBVIOUS
<1>1. obj \in Inferences
  BY DEF IP!IInv, IP!LP!IInv, IP!LP!CallState
<1>2. obj \in IP!New
  BY DEF IP!IInv, IP!Calling, IP!Making
<1> QED  BY <1>1, <1>2, RunnerAssumption DEF RunnerAssumption, Interp!InterpreterAssumption, IP!New

\* Inside a call of the Interpreter the arena and the firmware's jobs are left
\* alone, and only the constructor of an Inference creates one in the kernel.
LEMMA CallKeeps ==
    ASSUME IP!IInv, Call
    PROVE  UNCHANGED <<input, output, job, asked, overlap>> /\ (at # "create" => status' = status)
<1> USE DEF Interp!Goto, Interp!callVars, Interp!arenaVars
<1>1. CASE Interp!LibraryStep
  BY <1>1, Creating DEF Interp!LibraryStep
<1>2. CASE Interp!OpenDevice \/ Interp!OpenModel \/ Interp!NewNetworkBuffer \/ Interp!FillNetworkBuffer
           \/ Interp!NewNetwork \/ Interp!CheckVela \/ Interp!NewArena \/ Interp!ResizeArena
  BY <1>2 DEF Interp!OpenDevice, Interp!OpenModel, Interp!NewNetworkBuffer, Interp!FillNetworkBuffer,
              Interp!NewNetwork, Interp!CheckVela, Interp!NewArena, Interp!ResizeArena
<1>3. CASE (\E o \in Interp!Lib!Objects : Interp!DestroyMember(o)) \/ Interp!DestroyDevice
  BY <1>3 DEF Interp!DestroyMember, Interp!DestroyDevice
<1>4. CASE Interp!Created \/ Interp!CreateFails \/ Interp!WaitReturns \/ Interp!WaitTimesOut
           \/ Interp!CheckStatus
  BY <1>4 DEF Interp!Created, Interp!CreateFails, Interp!WaitReturns, Interp!WaitTimesOut,
              Interp!CheckStatus
<1> QED  BY <1>1, <1>2, <1>3, <1>4 DEF Call, Interp!Step

\* The constructor ends in "ready" or by an exception, Invoke() in "ready", the
\* destructor in "gone"; each may end the process.
LEMMA CallPlaces ==
    ASSUME Call
    PROVE  /\ at \in {"device", "capabilities", "networkBuffer", "fill", "network", "vela", "arena",
                      "resize"} =>
                 at' \in {"device", "capabilities", "networkBuffer", "fill", "network", "vela",
                          "arena", "resize", "unwind", "ready", "gone", "terminated"}
           /\ at = "unwind" => at' \in {"unwind", "gone", "terminated"}
           /\ at \in {"create", "wait", "status"} =>
                 at' \in {"create", "wait", "status", "ready", "terminated"}
<1> USE DEF Interp!Goto
<1>1. CASE Interp!LibraryStep
  BY <1>1 DEF Interp!LibraryStep
<1>2. CASE Interp!OpenDevice \/ Interp!OpenModel \/ Interp!NewNetworkBuffer \/ Interp!FillNetworkBuffer
           \/ Interp!NewNetwork \/ Interp!CheckVela \/ Interp!NewArena \/ Interp!ResizeArena
  BY <1>2 DEF Interp!OpenDevice, Interp!OpenModel, Interp!NewNetworkBuffer, Interp!FillNetworkBuffer,
              Interp!NewNetwork, Interp!CheckVela, Interp!NewArena, Interp!ResizeArena
<1>3. CASE (\E o \in Interp!Lib!Objects : Interp!DestroyMember(o)) \/ Interp!DestroyDevice
  BY <1>3 DEF Interp!DestroyMember, Interp!DestroyDevice
<1>4. CASE Interp!Created \/ Interp!CreateFails \/ Interp!WaitReturns \/ Interp!WaitTimesOut
           \/ Interp!CheckStatus
  BY <1>4 DEF Interp!Created, Interp!CreateFails, Interp!WaitReturns, Interp!WaitTimesOut,
              Interp!CheckStatus
<1> QED  BY <1>1, <1>2, <1>3, <1>4 DEF Call, Interp!Step

\* The firmware moves only an inference that runs.
LEMMA FirmwareKeeps ==
    ASSUME Firmware
    PROVE  /\ \E i \in Inferences : status[i] = "RUNNING"
           /\ UNCHANGED <<at, overlap, main, runnerVars, code>> /\ main # "done"
BY DEF Firmware, Interp!Firmware, Interp!Start, Interp!Complete, Interp!callVars

-----------------------------------------------------------------------------
\* Every set of numbers has a least one.
LEMMA Least ==
    ASSUME NEW S, S \subseteq Nat, S # {}
    PROVE  \E n \in S : \A m \in S : n <= m
<1>1. PICK n \in S : \A m \in S : ~(<<m, n>> \in OpToRel(<, Nat))
  <2> HIDE DEF OpToRel
  <2>1. IsWellFoundedOn(OpToRel(<, Nat), Nat)
    BY NatLessThanWellFounded
  <2> QED  BY <2>1, WFMin
<1>2. \A m \in S : ~(m < n)
  BY <1>1 DEF OpToRel
<1> QED  BY <1>2

\* A set of numbers that holds 0 and with every number the next one holds all: the
\* least number outside of it could be neither.
LEMMA Induction ==
    ASSUME NEW S, 0 \in S, \A n \in Nat : n \in S => n + 1 \in S
    PROVE  Nat \subseteq S
<1> SUFFICES ASSUME Nat \ S # {} PROVE FALSE
  OBVIOUS
<1>1. PICK n \in Nat \ S : \A m \in Nat \ S : n <= m
  <2> DEFINE T == Nat \ S
  <2>1. T \subseteq Nat /\ T # {}
    OBVIOUS
  <2> HIDE DEF T
  <2>2. \E n \in T : \A m \in T : n <= m
    BY <2>1, Least
  <2> QED  BY <2>2 DEF T
<1> QED  BY <1>1

\* One element of the output enters getTopN()'s queue, if it is a result, and the
\* smallest leaves it when it has become too long.
Result(t, i) == [class |-> i - 1, score |-> Value(t, i)]
Entered(t, q, i) == q \cup {r \in {Result(t, i)} : r.score >= Threshold}
Kept(q, size) == IF Cardinality(q) > size THEN {r \in q : \E s \in q : Smaller(s, r)} ELSE q
IsQueue(f, t, size, n) ==
    f = [i \in 0..n |-> IF i = 0 THEN {} ELSE Kept(Entered(t, f[i - 1], i), size)]

\* For every number of elements there is such a queue.
LEMMA QueueExists ==
    ASSUME NEW t, NEW size, NEW n \in Nat
    PROVE  \E f : IsQueue(f, t, size, n)
<1> DEFINE S == {m \in Nat : \E f : IsQueue(f, t, size, m)}
<1>1. 0 \in S
  <2>1. IsQueue([i \in 0..0 |-> {}], t, size, 0)
    BY DEF IsQueue
  <2> QED  BY <2>1
<1>2. ASSUME NEW m \in Nat, m \in S PROVE m + 1 \in S
  <2>1. PICK f : IsQueue(f, t, size, m)
    BY <1>2
  <2> DEFINE g == [i \in 0..(m + 1) |-> IF i = m + 1 THEN Kept(Entered(t, f[m], m + 1), size) ELSE f[i]]
  <2>2. \A i \in 0..(m + 1) : g[i] = IF i = 0 THEN {} ELSE Kept(Entered(t, g[i - 1], i), size)
    <3> SUFFICES ASSUME NEW i \in 0..(m + 1)
                 PROVE  g[i] = IF i = 0 THEN {} ELSE Kept(Entered(t, g[i - 1], i), size)
      OBVIOUS
    <3> HIDE DEF Kept, Entered
    <3>1. f = [j \in 0..m |-> IF j = 0 THEN {} ELSE Kept(Entered(t, f[j - 1], j), size)]
      BY <2>1 DEF IsQueue
    <3>2. CASE i = m + 1
      <4>1. i # 0 /\ i - 1 = m /\ i - 1 \in 0..(m + 1) /\ i - 1 # m + 1
        BY <3>2
      <4>2. g[i - 1] = f[m]
        BY <4>1
      <4> QED  BY <3>2, <4>1, <4>2
    <3>3. CASE i # m + 1
      <4>1. i \in 0..m /\ g[i] = f[i]
        BY <3>3
      <4>2. i # 0 => i - 1 \in 0..m /\ i - 1 # m + 1 /\ i - 1 \in 0..(m + 1)
        BY <3>3
      <4>3. i # 0 => g[i - 1] = f[i - 1]
        BY <4>2
      <4>4. f[i] = IF i = 0 THEN {} ELSE Kept(Entered(t, f[i - 1], i), size)
        BY <3>1, <4>1
      <4> HIDE DEF g
      <4> QED  BY <4>1, <4>3, <4>4
    <3> QED  BY <3>2, <3>3
  <2>3. IsQueue(g, t, size, m + 1)
    <3> HIDE DEF Kept, Entered
    <3>1. g = [i \in 0..(m + 1) |-> g[i]]
      OBVIOUS
    <3> HIDE DEF g
    <3> QED  BY <2>2, <3>1, Zenon DEF IsQueue
  <2> HIDE DEF g
  <2> QED  BY <2>3
<1> HIDE DEF S
<1>3. Nat \subseteq S
  BY <1>1, <1>2, Induction
<1> QED  BY <1>3 DEF S

\* What is left in it is the last of such queues.
LEMMA BestIsQueue ==
    ASSUME NEW t, NEW size, Len(t.data) \in Nat
    PROVE  \E f : IsQueue(f, t, size, Len(t.data)) /\ Best(t, size) = f[Len(t.data)]
<1> DEFINE Q == CHOOSE f : IsQueue(f, t, size, Len(t.data))
<1>1. Best(t, size) = Q[Len(t.data)]
  BY DEF Best, IsQueue, Kept, Entered, Result
<1>2. IsQueue(Q, t, size, Len(t.data))
  <2>1. \E f : IsQueue(f, t, size, Len(t.data))
    BY QueueExists
  <2> QED  BY <2>1, Zenon
<1> QED  BY <1>1, <1>2, Zenon

-----------------------------------------------------------------------------
\* Results of getTopN() are ordered by value, those of one value by class.
Results == [class : Nat, score : Nat]

LEMMA Order ==
    /\ \A r, s \in Results : r = s \/ Smaller(r, s) \/ Smaller(s, r)
    /\ \A r, s \in Results : Smaller(r, s) => ~Smaller(s, r) /\ r # s
    /\ \A r, s, u \in Results : Smaller(r, s) /\ Smaller(s, u) => Smaller(r, u)
BY DEF Results, Smaller

\* One of them is the smallest.
LEMMA Smallest ==
    ASSUME NEW q, q \subseteq Results, q # {}
    PROVE  \E r \in q : \A s \in q : s = r \/ Smaller(r, s)
<1> DEFINE Scores == {r.score : r \in q}
<1>1. PICK n \in Scores : \A m \in Scores : n <= m
  <2>1. Scores \subseteq Nat /\ Scores # {}
    BY DEF Results
  <2> HIDE DEF Scores
  <2> QED  BY <2>1, Least
<1> DEFINE Classes == {r.class : r \in {s \in q : s.score = n}}
<1>2. PICK k \in Classes : \A m \in Classes : k <= m
  <2>1. Classes \subseteq Nat /\ Classes # {}
    BY DEF Results
  <2> HIDE DEF Classes
  <2> QED  BY <2>1, Least
<1>3. PICK r \in q : r.score = n /\ r.class = k
  BY <1>2
<1>4. ASSUME NEW s \in q PROVE s = r \/ Smaller(r, s)
  <2>1. r \in Results /\ s \in Results
    OBVIOUS
  <2>2. n <= s.score
    BY <1>1
  <2>3. s.score = n => k <= s.class
    BY <1>2
  <2> QED  BY <1>3, <2>1, <2>2, <2>3 DEF Smaller, Results
<1> QED  BY <1>4

-----------------------------------------------------------------------------
\* The queue holds the greatest of the results that have come, as many as it may.
Greatest(q, all, size) ==
    /\ q \subseteq all /\ IsFiniteSet(q) /\ Cardinality(q) <= size
    /\ Cardinality(q) = size \/ q = all
    /\ \A r \in all \ q, s \in q : Smaller(r, s)

LEMMA StaysGreatest ==
    ASSUME NEW size \in Nat, NEW all, all \subseteq Results, NEW x \in Results \ all,
           NEW q, Greatest(q, all, size)
    PROVE  Greatest(Kept(q \cup {x}, size), all \cup {x}, size)
<1> DEFINE p == q \cup {x}
<1>1. IsFiniteSet(q) /\ Cardinality(q) \in Nat /\ x \notin q
  BY FS_CardinalityType DEF Greatest
<1>2. IsFiniteSet(p) /\ Cardinality(p) = Cardinality(q) + 1 /\ p # {} /\ p \subseteq Results
  BY <1>1, FS_AddElement DEF Greatest
<1>3. CASE Cardinality(p) <= size
  <2>1. Kept(p, size) = p
    BY <1>1, <1>2, <1>3 DEF Kept
  <2>2. q = all
    BY <1>1, <1>2, <1>3 DEF Greatest
  <2> QED  BY <1>2, <1>3, <2>1, <2>2 DEF Greatest
<1>4. CASE Cardinality(p) > size
  <2>1. Cardinality(q) = size
    BY <1>1, <1>2, <1>4 DEF Greatest
  <2>2. PICK r \in p : \A s \in p : s = r \/ Smaller(r, s)
    BY <1>2, Smallest
  <2>3. Kept(p, size) = p \ {r}
    BY <1>2, <1>4, <2>2, Order DEF Kept
  <2>4. IsFiniteSet(p \ {r}) /\ Cardinality(p \ {r}) = size
    <3> HIDE DEF p
    <3>1. /\ IsFiniteSet(p \ {r})
          /\ Cardinality(p \ {r}) = IF r \in p THEN Cardinality(p) - 1 ELSE Cardinality(p)
      BY <1>2, FS_RemoveElement
    <3> QED  BY <1>1, <1>2, <2>1, <2>2, <3>1
  <2>5. ASSUME NEW u \in (all \cup {x}) \ (p \ {r}), NEW s \in p \ {r} PROVE Smaller(u, s)
    <3>1. CASE u = r
      BY <2>2, <3>1
    <3>2. CASE u # r
      <4>1. u \in all \ q
        BY <2>5, <3>2
      <4>2. CASE s \in q
        BY <4>1, <4>2 DEF Greatest
      <4>3. CASE s = x
        <5>1. r \in q /\ Smaller(r, s)
          BY <2>2, <4>3
        <5>2. Smaller(u, r)
          BY <4>1, <5>1 DEF Greatest
        <5>3. u \in Results /\ r \in Results /\ s \in Results
          BY <1>2, <4>1
        <5> QED  BY <5>1, <5>2, <5>3, Order
      <4> QED  BY <4>2, <4>3
    <3> QED  BY <3>1, <3>2
  <2> HIDE DEF p
  <2>6. p \ {r} \subseteq all \cup {x}
    BY DEF p, Greatest
  <2> QED  BY <2>3, <2>4, <2>5, <2>6 DEF Greatest, p
<1> QED  BY <1>1, <1>2, <1>3, <1>4

\* The results among the first n classes.
Above(t, n) == {i \in 1..n : Value(t, i) >= Threshold}
All(t, n) == {Result(t, i) : i \in Above(t, n)}

LEMMA BestAreGreatest ==
    ASSUME NEW t, t.data \in Seq(Int), NEW size \in Nat, Threshold \in Nat
    PROVE  /\ Greatest(Best(t, size), All(t, Len(t.data)), size)
           /\ All(t, Len(t.data)) \subseteq Results
<1> DEFINE N == Len(t.data)
<1>1. N \in Nat /\ \A i \in 1..N : Value(t, i) \in Int
  BY DEF Value
<1>2. PICK f : IsQueue(f, t, size, N) /\ Best(t, size) = f[N]
  BY <1>1, BestIsQueue
<1> HIDE DEF N
<1>3. \A n \in 0..N : All(t, n) \subseteq Results
  BY <1>1 DEF All, Above, Result, Results
<1> DEFINE S == {n \in Nat : n <= N => Greatest(f[n], All(t, n), size)}
<1>4. 0 \in S
  <2>1. f[0] = {}
    BY <1>1, <1>2 DEF IsQueue
  <2>2. All(t, 0) = {}
    BY DEF All, Above
  <2>3. Greatest({}, {}, size)
    BY FS_EmptySet DEF Greatest
  <2> QED  BY <2>1, <2>2, <2>3
<1>5. ASSUME NEW n \in Nat, n \in S PROVE n + 1 \in S
  <2> SUFFICES ASSUME n + 1 <= N PROVE Greatest(f[n + 1], All(t, n + 1), size)
    OBVIOUS
  <2>1. Greatest(f[n], All(t, n), size) /\ All(t, n) \subseteq Results
    BY <1>1, <1>3, <1>5
  <2>2. f[n + 1] = Kept(Entered(t, f[n], n + 1), size)
    <3> HIDE DEF Kept, Entered
    <3>1. n + 1 \in 0..N /\ n + 1 # 0 /\ (n + 1) - 1 = n
      BY <1>1
    <3> QED  BY <1>2, <3>1 DEF IsQueue
  <2>3. Result(t, n + 1) \notin All(t, n)
    <3> SUFFICES ASSUME NEW i \in 1..n, Result(t, n + 1) = Result(t, i) PROVE FALSE
      BY DEF All, Above
    <3>1. (n + 1) - 1 = i - 1
      BY DEF Result
    <3> QED  BY <3>1
  <2>4. CASE Value(t, n + 1) >= Threshold
    <3>1. All(t, n + 1) = All(t, n) \cup {Result(t, n + 1)}
      BY <2>4 DEF All, Above
    <3>2. Entered(t, f[n], n + 1) = f[n] \cup {Result(t, n + 1)}
      BY <2>4 DEF Entered, Result
    <3>3. Result(t, n + 1) \in Results
      BY <1>1, <2>4 DEF Result, Results
    <3> QED  BY <2>1, <2>2, <2>3, <3>1, <3>2, <3>3, StaysGreatest
  <2>5. CASE ~(Value(t, n + 1) >= Threshold)
    <3>1. All(t, n + 1) = All(t, n)
      BY <2>5 DEF All, Above
    <3>2. Entered(t, f[n], n + 1) = f[n]
      BY <2>5 DEF Entered, Result
    <3>3. Kept(f[n], size) = f[n]
      BY <2>1, FS_CardinalityType DEF Kept, Greatest
    <3> QED  BY <2>1, <2>2, <3>1, <3>2, <3>3
  <2> QED  BY <2>4, <2>5
<1> HIDE DEF S
<1>6. N \in S
  BY <1>1, <1>4, <1>5, Induction
<1> QED  BY <1>1, <1>2, <1>3, <1>6 DEF S, N

-----------------------------------------------------------------------------
\* A finite set of results can be put in order, the greatest first.
IsDescending(s, q) ==
    /\ s \in [1..Cardinality(q) -> q]
    /\ \A i, j \in DOMAIN s : i < j => Smaller(s[j], s[i])

LEMMA OrderExists ==
    ASSUME NEW q, q \subseteq Results, IsFiniteSet(q)
    PROVE  \E s : IsDescending(s, q)
<1> DEFINE S == {n \in Nat : \A p \in SUBSET Results :
                    IsFiniteSet(p) /\ Cardinality(p) = n => \E s : IsDescending(s, p)}
<1>1. 0 \in S
  <2> SUFFICES ASSUME NEW p, IsFiniteSet(p), Cardinality(p) = 0 PROVE \E s : IsDescending(s, p)
    OBVIOUS
  <2>1. p = {}
    BY FS_EmptySet
  <2>2. IsDescending([i \in 1..0 |-> i], p)
    BY <2>1 DEF IsDescending
  <2> QED  BY <2>2
<1>2. ASSUME NEW n \in Nat, n \in S PROVE n + 1 \in S
  <2> SUFFICES ASSUME NEW p \in SUBSET Results, IsFiniteSet(p), Cardinality(p) = n + 1
               PROVE  \E s : IsDescending(s, p)
    OBVIOUS
  <2>1. p # {}
    BY FS_EmptySet
  <2>2. PICK r \in p : \A u \in p : u = r \/ Smaller(r, u)
    BY <2>1, Smallest
  <2>3. IsFiniteSet(p \ {r}) /\ Cardinality(p \ {r}) = n
    <3>1. /\ IsFiniteSet(p \ {r})
          /\ Cardinality(p \ {r}) = IF r \in p THEN Cardinality(p) - 1 ELSE Cardinality(p)
      BY FS_RemoveElement
    <3> QED  BY <3>1
  <2>4. PICK s : IsDescending(s, p \ {r})
    BY <1>2, <2>3
  <2> DEFINE t == [i \in 1..(n + 1) |-> IF i = n + 1 THEN r ELSE s[i]]
  <2>5. s \in [1..n -> p \ {r}] /\ \A i, j \in 1..n : i < j => Smaller(s[j], s[i])
    BY <2>3, <2>4 DEF IsDescending
  <2>6. IsDescending(t, p)
    BY <2>2, <2>5 DEF IsDescending
  <2> HIDE DEF t
  <2> QED  BY <2>6
<1> HIDE DEF S
<1>3. Cardinality(q) \in S
  BY <1>1, <1>2, Induction, FS_CardinalityType
<1> QED  BY <1>3 DEF S

LEMMA DescendingOrder ==
    ASSUME NEW q, q \subseteq Results, IsFiniteSet(q)
    PROVE  /\ IsDescending(Descending(q), q)
           /\ \A r \in q : \E j \in 1..Cardinality(q) : Descending(q)[j] = r
<1> DEFINE s == Descending(q)
           n == Cardinality(q)
<1>1. IsDescending(s, q)
  <2>1. \E u \in [1..n -> q] : \A i, j \in DOMAIN u : i < j => Smaller(u[j], u[i])
    BY OrderExists DEF IsDescending
  <2> HIDE DEF n
  <2>2. s \in [1..n -> q] /\ \A i, j \in DOMAIN s : i < j => Smaller(s[j], s[i])
    BY <2>1, Zenon DEF Descending, n
  <2> QED  BY <2>2 DEF IsDescending, n
<1>2. n \in Nat
  BY FS_CardinalityType
<1> HIDE DEF s
<1>3. s \in Injection(1..n, q)
  <2>1. s \in [1..n -> q]
    BY <1>1 DEF IsDescending
  <2>2. ASSUME NEW i \in 1..n, NEW j \in 1..n, i < j PROVE s[i] # s[j]
    <3>1. Smaller(s[j], s[i])
      BY <1>1, <2>1, <2>2 DEF IsDescending
    <3>2. s[i] \in Results /\ s[j] \in Results
      BY <2>1
    <3> QED  BY <3>1, <3>2, Order
  <2>3. \A i, j \in 1..n : s[i] = s[j] => i = j
    BY <1>2, <2>2
  <2> QED  BY <2>1, <2>3 DEF Injection, IsInjective
<1>4. Cardinality(1..n) = n
  BY <1>2, FS_Interval
<1>5. s \in Surjection(1..n, q)
  BY <1>3, <1>4, FS_Injection
<1> QED  BY <1>1, <1>5 DEF Surjection, s

-----------------------------------------------------------------------------
\* The classes whose results are greater than that of class i, the order TopRanked
\* speaks of.
Greater(t, i) ==
    {k \in Above(t, Len(t.data)) : \/ Value(t, k) > Value(t, i)
                                   \/ Value(t, k) = Value(t, i) /\ k > i}

\* The j-th of the results that are put in order is that of a class with j - 1
\* greater ones; a class whose result is missing has at least as many as were asked for.
LEMMA Ranks ==
    ASSUME NEW t, t.data \in Seq(Int), TopSize \in Nat, Threshold \in Nat,
           NEW i \in Above(t, Len(t.data))
    PROVE  LET s == TopN(t)
               n == Cardinality(Best(t, TopSize))
           IN  /\ \A j \in 1..n : s[j] = Result(t, i) => Cardinality(Greater(t, i)) = j - 1
               /\ (\A j \in 1..n : s[j] # Result(t, i)) => Cardinality(Greater(t, i)) >= TopSize
<1> DEFINE N == Len(t.data)
           q == Best(t, TopSize)
           s == TopN(t)
           n == Cardinality(q)
           all == All(t, N)
           F(m) == [j \in 1..m |-> s[j].class + 1]
<1>1. N \in Nat /\ \A k \in 1..N : Value(t, k) \in Int
  BY DEF Value
<1>2. Greatest(q, all, TopSize) /\ all \subseteq Results
  BY BestAreGreatest
<1>3. n \in Nat /\ IsFiniteSet(q) /\ q \subseteq Results /\ q \subseteq all
  BY <1>2, FS_CardinalityType DEF Greatest
<1>4. IsDescending(s, q) /\ \A r \in q : \E j \in 1..n : s[j] = r
  BY <1>3, DescendingOrder DEF TopN
<1> HIDE DEF N, q, s
<1>5. s \in [1..n -> q] /\ \A j, k \in 1..n : j < k => Smaller(s[k], s[j])
  BY <1>4 DEF IsDescending
<1>6. \A k \in Above(t, N) : Result(t, k).class + 1 = k /\ Result(t, k).score = Value(t, k) /\ k \in 1..N
  BY <1>1 DEF Above, Result
<1>7. \A j \in 1..n : s[j].class + 1 \in Above(t, N) /\ s[j] = Result(t, s[j].class + 1)
  <2> SUFFICES ASSUME NEW j \in 1..n
               PROVE  s[j].class + 1 \in Above(t, N) /\ s[j] = Result(t, s[j].class + 1)
    OBVIOUS
  <2>1. s[j] \in all
    BY <1>3, <1>5
  <2>2. PICK k \in Above(t, N) : s[j] = Result(t, k)
    BY <2>1 DEF All
  <2> QED  BY <1>6, <2>2
<1>8. \A k \in Above(t, N) : k \in Greater(t, i) <=> Smaller(Result(t, i), Result(t, k))
  <2> SUFFICES ASSUME NEW k \in Above(t, N)
               PROVE  k \in Greater(t, i) <=> Smaller(Result(t, i), Result(t, k))
    OBVIOUS
  <2>1. i \in Above(t, N)
    BY DEF N
  <2>2. k \in 1..N /\ i \in 1..N /\ Value(t, k) \in Int /\ Value(t, i) \in Int
    BY <1>1, <1>6, <2>1
  <2> QED  BY <2>2 DEF Greater, Smaller, Result, N
<1>9. ASSUME NEW m \in Nat, m <= n, \A j \in 1..m : Smaller(Result(t, i), s[j])
      PROVE  F(m) \in Injection(1..m, Greater(t, i))
  <2>1. \A j \in 1..m : j \in 1..n
    BY <1>3, <1>9
  <2>2. \A j \in 1..m : s[j].class + 1 \in Greater(t, i)
    BY <1>7, <1>8, <1>9, <2>1
  <2>3. ASSUME NEW j \in 1..m, NEW k \in 1..m, s[j].class + 1 = s[k].class + 1 PROVE j = k
    <3>1. s[j] = s[k]
      BY <1>7, <2>1, <2>3
    <3>2. s[j] \in Results /\ j \in 1..n /\ k \in 1..n
      BY <1>3, <1>5, <2>1
    <3>3. ~(j < k) /\ ~(k < j)
      BY <1>5, <3>1, <3>2, Order
    <3> QED  BY <3>3
  <2> QED  BY <2>2, <2>3 DEF Injection, IsInjective
<1>10. IsFiniteSet(Greater(t, i)) /\ Cardinality(Greater(t, i)) \in Nat
  <2>1. Greater(t, i) \in SUBSET (1..N)
    BY DEF Greater, Above, N
  <2>2. IsFiniteSet(1..N)
    BY <1>1, FS_Interval
  <2> QED  BY <2>1, <2>2, FS_Subset, FS_CardinalityType
<1>11. ASSUME NEW j \in 1..n, s[j] = Result(t, i) PROVE Cardinality(Greater(t, i)) = j - 1
  <2>1. j - 1 \in Nat /\ j - 1 <= n
    BY <1>3
  <2>2. \A k \in 1..(j - 1) : Smaller(Result(t, i), s[k])
    BY <1>3, <1>5, <1>11
  <2>3. F(j - 1) \in Injection(1..(j - 1), Greater(t, i))
    BY <1>9, <2>1, <2>2
  <2>4. ASSUME NEW k \in Greater(t, i) PROVE \E l \in 1..(j - 1) : s[l].class + 1 = k
    <3>1. k \in Above(t, N) /\ Smaller(s[j], Result(t, k))
      BY <1>8, <1>11, <2>4 DEF Greater, N
    <3>2. Result(t, k) \in all /\ s[j] \in q /\ s[j] \in Results /\ Result(t, k) \in Results
      BY <1>2, <1>3, <1>5, <3>1 DEF All
    <3>3. Result(t, k) \in q
      <4>1. Result(t, k) \notin q => Smaller(Result(t, k), s[j])
        BY <1>2, <3>2 DEF Greatest
      <4> QED  BY <3>1, <3>2, <4>1, Order
    <3>4. PICK l \in 1..n : s[l] = Result(t, k)
      BY <1>4, <3>3
    <3>5. ~(j < l) /\ l # j
      BY <1>5, <3>1, <3>2, <3>4, Order
    <3> QED  BY <1>3, <1>6, <3>1, <3>4, <3>5
  <2>5. F(j - 1) \in Surjection(1..(j - 1), Greater(t, i))
    BY <2>3, <2>4 DEF Surjection, Injection
  <2> HIDE DEF F
  <2>6. ExistsBijection(1..(j - 1), Greater(t, i))
    BY <2>3, <2>5 DEF ExistsBijection, Bijection
  <2> QED  BY <2>1, <2>6, FS_CountingElements
<1>12. ASSUME \A j \in 1..n : s[j] # Result(t, i) PROVE Cardinality(Greater(t, i)) >= TopSize
  <2>1. Result(t, i) \in all /\ Result(t, i) \notin q
    BY <1>4, <1>12 DEF All, N
  <2>2. n = TopSize
    BY <1>2, <2>1 DEF Greatest
  <2>3. \A j \in 1..n : Smaller(Result(t, i), s[j])
    BY <1>2, <1>5, <2>1 DEF Greatest
  <2>4. F(n) \in Injection(1..n, Greater(t, i))
    BY <1>3, <1>9, <2>3
  <2> HIDE DEF F, n
  <2>5. Cardinality(1..n) <= Cardinality(Greater(t, i)) /\ Cardinality(1..n) = n
    BY <1>3, <1>10, <2>4, FS_Injection, FS_Interval
  <2> QED  BY <1>3, <1>10, <2>2, <2>5
<1> QED  BY <1>11, <1>12 DEF s, q

\* The results of a classification are ranked, whatever the output.
LEMMA TopNRanked ==
    ASSUME NEW t, t.data \in Seq(Int), TopSize \in Nat, Threshold \in Nat,
           NEW i \in DOMAIN t.data, NEW j \in 1..TopSize
    PROVE  (j \in DOMAIN TopN(t) /\ TopN(t)[j] = Result(t, i))
              <=> (i \in Above(t, Len(t.data)) /\ 1 + Cardinality(Greater(t, i)) = j)
<1> DEFINE N == Len(t.data)
           q == Best(t, TopSize)
           s == TopN(t)
           n == Cardinality(q)
<1>1. Greatest(q, All(t, N), TopSize) /\ All(t, N) \subseteq Results
  BY BestAreGreatest
<1>2. n \in Nat /\ n <= TopSize /\ IsFiniteSet(q) /\ q \subseteq Results /\ q \subseteq All(t, N)
  BY <1>1, FS_CardinalityType DEF Greatest
<1>3. IsDescending(s, q)
  BY <1>2, DescendingOrder DEF TopN
<1>4. s \in [1..n -> q]
  BY <1>3 DEF IsDescending
<1> HIDE DEF N, q, s
<1>5. ASSUME j \in DOMAIN s, s[j] = Result(t, i)
      PROVE  i \in Above(t, N) /\ 1 + Cardinality(Greater(t, i)) = j
  <2>1. j \in 1..n /\ s[j] \in All(t, N)
    BY <1>2, <1>4, <1>5
  <2>2. PICK k \in Above(t, N) : Result(t, i) = Result(t, k)
    BY <1>5, <2>1 DEF All
  <2>3. i \in Nat /\ k \in Nat
    BY DEF Above
  <2>4. i = k
    BY <2>2, <2>3 DEF Result
  <2>5. i \in Above(t, N)
    BY <2>2, <2>4
  <2>6. Cardinality(Greater(t, i)) = j - 1
    BY <1>5, <2>1, <2>5, Ranks DEF N, s, q
  <2> QED  BY <2>1, <2>5, <2>6
<1>6. ASSUME i \in Above(t, N), 1 + Cardinality(Greater(t, i)) = j
      PROVE  j \in DOMAIN s /\ s[j] = Result(t, i)
  <2>1. Cardinality(Greater(t, i)) \in Nat
    <3>1. Greater(t, i) \in SUBSET (1..N)
      BY DEF Greater, Above, N
    <3>2. N \in Nat
      BY DEF N
    <3>3. IsFiniteSet(1..N)
      BY <3>2, FS_Interval
    <3> QED  BY <3>1, <3>3, FS_Subset, FS_CardinalityType
  <2>2. ~(Cardinality(Greater(t, i)) >= TopSize)
    BY <1>6, <2>1
  <2>3. PICK k \in 1..n : s[k] = Result(t, i)
    BY <1>6, <2>2, Ranks DEF N, s, q
  <2>4. Cardinality(Greater(t, i)) = k - 1
    BY <1>6, <2>3, Ranks DEF N, s, q
  <2>5. k = j
    BY <1>2, <1>6, <2>4
  <2> QED  BY <1>4, <2>3, <2>5
<1> QED  BY <1>5, <1>6 DEF N, s

\* They are results, and no more than were asked for.
LEMMA TopNType ==
    ASSUME NEW t, t.data \in Seq(Int), TopSize \in Nat, Threshold \in Nat
    PROVE  TopN(t) \in Seq(Results) /\ Len(TopN(t)) <= TopSize
<1> DEFINE q == Best(t, TopSize)
           s == TopN(t)
           n == Cardinality(q)
<1>1. Greatest(q, All(t, Len(t.data)), TopSize) /\ All(t, Len(t.data)) \subseteq Results
  BY BestAreGreatest
<1>2. n \in Nat /\ n <= TopSize /\ IsFiniteSet(q) /\ q \subseteq Results
  BY <1>1, FS_CardinalityType DEF Greatest
<1>3. IsDescending(s, q)
  BY <1>2, DescendingOrder DEF TopN
<1> HIDE DEF q, s
<1>4. s \in [1..n -> q]
  BY <1>3 DEF IsDescending
<1> HIDE DEF n
<1>5. s \in [1..n -> Results]
  BY <1>2, <1>4
<1>6. s \in Seq(Results) /\ Len(s) = n
  BY <1>2, <1>5
<1> QED  BY <1>2, <1>6 DEF s

\* A classification without NaN is one of integers.
LEMMA Numbers ==
    ASSUME NEW t \in Outputs, t.tensors = 1, ~HasNaN(t)
    PROVE  t.data \in Seq(Int)
<1>1. CASE t.type = "float"
  <2>1. t.data \in Seq(Int \cup {NaN})
    BY <1>1, OutputAssumption DEF OutputAssumption
  <2>2. \A i \in 1..Len(t.data) : t.data[i] \in Int
    BY <2>1 DEF HasNaN
  <2> QED  BY <2>1, <2>2
<1>2. CASE t.type # "float"
  BY <1>2, OutputAssumption DEF OutputAssumption
<1> QED  BY <1>1, <1>2

\* What is printed: also NaN.
Printed == [class : Nat, score : Int \cup {NaN}]

LEMMA BoxesType ==
    ASSUME NEW t, t.data \in Seq(Printed), t.count \in 0..Len(t.data), TopSize \in Nat
    PROVE  BoundingBoxes(t) \in Seq(Printed) /\ Len(BoundingBoxes(t)) <= TopSize
<1> DEFINE m == IF t.count < TopSize THEN t.count ELSE TopSize
<1>1. m \in 0..Len(t.data) /\ m <= TopSize
  OBVIOUS
<1> HIDE DEF m
<1>2. SubSeq(t.data, 1, m) \in Seq(Printed) /\ Len(SubSeq(t.data, 1, m)) = m
  BY <1>1
<1> QED  BY <1>1, <1>2 DEF BoundingBoxes, m

\* With NaN any entries are left, but no more of them.
LEMMA UnorderedType ==
    ASSUME NEW t, t.data \in Seq(Int \cup {NaN}), t.type = "int8" => t.data \in Seq(Int),
           TopSize \in Nat, NEW s \in Unordered(t)
    PROVE  s \in Seq(Printed) /\ Len(s) <= TopSize
<1> DEFINE N == Len(t.data)
           Passing == {k \in DOMAIN t.data : t.data[k] = NaN \/ Value(t, k) >= Threshold}
           Entry == [i \in Passing |-> [class |-> i - 1, score |-> Value(t, i)]]
           entries == {[class |-> i - 1, score |-> Value(t, i)] : i \in Passing}
           size == IF Cardinality(entries) < TopSize THEN Cardinality(entries) ELSE TopSize
<1>1. N \in Nat /\ DOMAIN t.data = 1..N
  OBVIOUS
<1>2. \A i \in DOMAIN t.data : Value(t, i) \in Int \cup {NaN}
  <2>1. CASE t.type = "int8"
    BY <2>1 DEF Value
  <2>2. CASE t.type # "int8"
    BY <2>2 DEF Value
  <2> QED  BY <2>1, <2>2
<1>3. \A i \in Passing : [class |-> i - 1, score |-> Value(t, i)] \in Printed
  BY <1>1, <1>2 DEF Printed
<1>4. IsFiniteSet(Passing)
  <2>1. Passing \in SUBSET (1..N)
    BY <1>1
  <2>2. IsFiniteSet(1..N)
    BY <1>1, FS_Interval
  <2> HIDE DEF Passing
  <2> QED  BY <2>1, <2>2, FS_Subset
<1>5. Entry \in Surjection(Passing, entries)
  BY DEF Surjection
<1> HIDE DEF N, Passing, Entry
<1>6. entries \subseteq Printed
  BY <1>3
<1>7. s \in [1..size -> entries]
  BY DEF Unordered, Passing
<1> HIDE DEF entries
<1>8. Cardinality(entries) \in Nat
  BY <1>4, <1>5, FS_Surjection, FS_CardinalityType
<1>9. size \in Nat /\ size <= TopSize
  BY <1>8
<1> HIDE DEF size
<1>10. s \in [1..size -> Printed]
  BY <1>6, <1>7
<1> QED  BY <1>9, <1>10

-----------------------------------------------------------------------------
\* The inductive invariant.  IP!IInv is the one of the Interpreter: it says what
\* Invoke() leaves behind.
IInv == /\ IP!IInv /\ OptionTypes /\ Phase /\ BeforeInvoke /\ AfterInvoke /\ NoCrash
        /\ Report /\ OwnTypes

LEMMA InitIInv == Init => IInv
<1> SUFFICES ASSUME Init PROVE IInv
  OBVIOUS
<1>1. IP!IInv
  BY SameInit, IP!InitIInv, RunnerAssumption
     DEF Init, RunnerAssumption, Interp!InterpreterAssumption, IP!InterpreterAssumption
<1>2. at = "device" /\ \A i \in Inferences : status[i] = "none"
  BY DEF Init, Interp!Init
<1>3. OptionTypes
  BY DEF Init, OptionTypes
<1> QED
  BY <1>1, <1>2, <1>3 DEF Init, IInv, Phase, BeforeInvoke, AfterInvoke, NoCrash, Report, OwnTypes, Mains

\* The Interpreter's part, by the Interpreter's own proof.
LEMMA InterpreterStep == IP!IInv /\ OptionTypes /\ [Next]_vars => IP!IInv'
<1>1. IP!IInv /\ [IP!Next]_(IP!vars) => IP!IInv'
  BY IP!Inductive, RunnerAssumption
     DEF RunnerAssumption, Interp!InterpreterAssumption, IP!InterpreterAssumption
<1>2. [Interp!Next]_(Interp!vars) <=> [IP!Next]_(IP!vars)
  BY SameNext
     DEF Interp!vars, Interp!libVars, Interp!callVars, Interp!arenaVars,
         IP!vars, IP!libVars, IP!callVars, IP!arenaVars
<1> QED  BY <1>1, <1>2, InterpreterAllows

LEMMA OptionStep == OptionTypes /\ [Next]_vars => OptionTypes'
BY DEF OptionTypes, Next, Runner, Done, vars, runnerVars, ParseArguments, ReadLabelsFile, Construct,
       Call, ConstructTerminates, SetPmuCycleCounters, GetInputFromFile, GetInputFails, Invoke, Invoking,
       InvokeThrows, GetResults, GetResultsFails, GetResultsCrashes, PrintResults, PrintCrashes, ReadCounters, Leave,
       Destroying, Firmware

\* When Invoke() begins nothing runs.
LEMMA NoOverlap ==
    ASSUME BeforeInvoke, Invoke
    PROVE  at' = "create" /\ ~overlap'
<1>1. \A i \in Inferences : status[i] # "RUNNING"
  BY DEF BeforeInvoke, Invoke
<1>2. PICK i \in Inferences : Interp!Invoke(i, FALSE)
  BY DEF Invoke
<1>3. overlap' = \E j \in Inferences : status[j] = "RUNNING"
  BY Zenon, <1>2 DEF Interp!Invoke
<1>4. ~overlap'
  BY Zenon, <1>1, <1>3
<1> QED  BY <1>2, <1>4 DEF Interp!Invoke

\* main() and the Interpreter move together.
LEMMA PhaseStep ==
    ASSUME IP!IInv, Phase, BeforeInvoke, AfterInvoke, [Next]_vars
    PROVE  Phase'
<1> USE DEF Phase, Continue, End
<1>1. CASE ParseArguments \/ ReadLabelsFile \/ ConstructTerminates \/ GetInputFails
  BY <1>1 DEF ParseArguments, ReadLabelsFile, ConstructTerminates, GetInputFails, interpVars, callVars
<1>2. CASE Construct
  <2>1. Call
    BY <1>2 DEF Construct
  <2> QED  BY <1>2, <2>1, CallPlaces DEF Construct
<1>3. CASE SetPmuCycleCounters \/ GetInputFromFile
  BY <1>3 DEF SetPmuCycleCounters, GetInputFromFile, Interp!SetPmuCycleCounters, Interp!SetInput,
              interpVars, callVars
<1>4. CASE Invoke
  BY <1>4, NoOverlap DEF Invoke
<1>5. CASE Invoking
  <2>1. Call
    BY <1>5 DEF Invoking
  <2>2. overlap' = overlap
    BY <2>1, CallKeeps
  <2> QED  BY <1>5, <2>1, <2>2, CallPlaces DEF Invoking, AfterFailedInvoke
<1>6. CASE InvokeThrows
  BY <1>6 DEF InvokeThrows, Interp!WaitThrows, AfterFailedInvoke
<1>7. CASE GetResults \/ GetResultsFails \/ GetResultsCrashes \/ PrintResults \/ PrintCrashes
  BY <1>7 DEF GetResults, GetResultsFails, GetResultsCrashes, PrintResults, PrintCrashes, interpVars, callVars
<1>8. CASE ReadCounters
  BY <1>8 DEF ReadCounters, interpVars, callVars
<1>9. CASE Leave
  BY <1>9 DEF Leave, Interp!Destroy, Interp!Goto
<1>10. CASE Destroying
  <2>1. Call
    BY <1>10 DEF Destroying
  <2> QED  BY <1>10, <2>1, CallPlaces DEF Destroying
<1>11. CASE Firmware
  BY <1>11, FirmwareKeeps
<1>12. CASE UNCHANGED vars
  BY <1>12 DEF vars, interpVars, callVars
<1> QED
  BY <1>1, <1>2, <1>3, <1>4, <1>5, <1>6, <1>7, <1>8, <1>9, <1>10, <1>11, <1>12 DEF Next, Runner, Done

\* No inference is created before Invoke().
LEMMA BeforeStep ==
    ASSUME IP!IInv, Phase, BeforeInvoke, [Next]_vars
    PROVE  BeforeInvoke'
<1> USE DEF BeforeInvoke, Continue, End
<1>1. CASE ParseArguments \/ ReadLabelsFile \/ ConstructTerminates \/ GetInputFails
  BY <1>1 DEF ParseArguments, ReadLabelsFile, ConstructTerminates, GetInputFails, interpVars
<1>2. CASE Construct
  <2>1. Call /\ main = "construct"
    BY <1>2 DEF Construct
  <2>2. status' = status
    BY <2>1, CallKeeps DEF Phase
  <2> QED  BY <2>1, <2>2
<1>3. CASE SetPmuCycleCounters \/ GetInputFromFile
  BY <1>3 DEF SetPmuCycleCounters, GetInputFromFile, Interp!SetPmuCycleCounters, Interp!SetInput,
              interpVars
<1>4. CASE Invoke \/ Invoking \/ InvokeThrows
  BY <1>4 DEF Invoke, Invoking, InvokeThrows, AfterFailedInvoke
<1>5. CASE GetResults \/ GetResultsFails \/ GetResultsCrashes \/ PrintResults \/ PrintCrashes \/ ReadCounters \/ Leave
  BY <1>5 DEF GetResults, GetResultsFails, GetResultsCrashes, PrintResults, PrintCrashes, ReadCounters, Leave
<1>6. CASE Destroying
  BY <1>6 DEF Destroying
<1>7. CASE Firmware
  BY <1>7, FirmwareKeeps
<1>8. CASE UNCHANGED vars
  BY <1>8 DEF vars, interpVars
<1> QED
  BY <1>1, <1>2, <1>3, <1>4, <1>5, <1>6, <1>7, <1>8 DEF Next, Runner, Done

\* An Invoke() that returns has got its answer: nothing else ran when it began, so
\* the Interpreter's invariant says the output is the one of its input.  Nothing
\* touches the arena after it.
LEMMA AfterStep ==
    ASSUME IP!IInv, IP!IInv', Phase, Phase', AfterInvoke, [Next]_vars
    PROVE  AfterInvoke'
<1> USE DEF AfterInvoke, Answered, Continue, End
<1>1. CASE \/ ParseArguments \/ ReadLabelsFile \/ ConstructTerminates
           \/ SetPmuCycleCounters \/ GetInputFromFile \/ GetInputFails \/ Invoke \/ InvokeThrows
  BY <1>1 DEF ParseArguments, ReadLabelsFile, ConstructTerminates, SetPmuCycleCounters, Phase,
              GetInputFromFile, GetInputFails, Invoke, InvokeThrows, AfterFailedInvoke
<1>2. CASE Construct
  BY <1>2 DEF Construct, Phase
<1>3. CASE Invoking
  <2>1. CASE main' # "results"
    BY <1>3, <2>1 DEF Invoking, AfterFailedInvoke, Phase
  <2>2. CASE main' = "results"
    <3>1. at' = "ready" /\ ok' /\ Call /\ main = "invoke"
      BY <1>3, <2>2 DEF Invoking, AfterFailedInvoke
    <3>2. ~overlap'
      <4>1. ~overlap
        BY <3>1 DEF Phase
      <4>2. overlap' = overlap
        BY <3>1, CallKeeps
      <4> QED  BY Zenon, <4>1, <4>2
    <3>3. /\ inference' # NoObj /\ inference' \in Inferences \cup {NoObj}
          /\ IP!Answered(inference)' /\ \A i \in Inferences : ~IP!Running(i)'
      BY <3>1, <3>2 DEF IP!IInv, IP!Fresh, IP!OwnTypes
    <3> QED  BY <3>3 DEF IP!Answered, IP!Running
  <2> QED  BY <2>1, <2>2
<1>4. CASE GetResults \/ GetResultsFails \/ GetResultsCrashes \/ PrintResults \/ PrintCrashes
  BY <1>4 DEF GetResults, GetResultsFails, GetResultsCrashes, PrintResults, PrintCrashes, interpVars, callVars, arenaVars,
              Phase
<1>5. CASE ReadCounters
  BY <1>5 DEF ReadCounters, interpVars, callVars, arenaVars, Phase
<1>6. CASE Leave
  BY <1>6 DEF Leave, Interp!Destroy, Interp!Goto, Interp!callVars, Interp!arenaVars, Phase
<1>7. CASE Destroying
  <2>1. Call /\ at # "create"
    BY <1>7 DEF Destroying, Phase
  <2>2. UNCHANGED <<output, job, asked, status>>
    BY <2>1, CallKeeps
  <2> QED  BY <1>7, <2>2 DEF Destroying, Phase
<1>8. CASE Firmware
  BY <1>8, FirmwareKeeps DEF Phase
<1>9. CASE UNCHANGED vars
  BY <1>9 DEF vars, interpVars, callVars, arenaVars
<1> QED
  BY <1>1, <1>2, <1>3, <1>4, <1>5, <1>6, <1>7, <1>8, <1>9 DEF Next, Runner, Done

\* The counters are read after an Invoke() that succeeded.
LEMMA CrashStep ==
    ASSUME Phase, AfterInvoke, NoCrash, [Next]_vars
    PROVE  NoCrash'
<1> USE DEF NoCrash, Phase, Continue, End
<1>1. CASE ParseArguments \/ ReadLabelsFile \/ ConstructTerminates \/ GetInputFails
  BY <1>1 DEF ParseArguments, ReadLabelsFile, ConstructTerminates, GetInputFails, interpVars
<1>2. CASE Construct \/ Invoking \/ Destroying
  <2>1. Call
    BY <1>2 DEF Construct, Invoking, Destroying
  <2> QED  BY <1>2, <2>1, CallPlaces DEF Construct, Invoking, Destroying
<1>3. CASE SetPmuCycleCounters \/ GetInputFromFile \/ Invoke \/ InvokeThrows \/ Leave
  BY <1>3 DEF SetPmuCycleCounters, GetInputFromFile, Invoke, InvokeThrows, Leave,
              Interp!SetPmuCycleCounters, Interp!SetInput, Interp!Invoke, Interp!WaitThrows,
              Interp!Destroy, Interp!Goto, interpVars
<1>4. CASE GetResults \/ GetResultsFails \/ GetResultsCrashes \/ PrintResults \/ PrintCrashes
  BY <1>4 DEF GetResults, GetResultsFails, GetResultsCrashes, PrintResults, PrintCrashes, interpVars
<1>5. CASE ReadCounters
  BY <1>5 DEF ReadCounters, AfterInvoke, interpVars
<1>6. CASE Firmware
  BY <1>6, FirmwareKeeps
<1>7. CASE UNCHANGED vars
  BY <1>7 DEF vars, interpVars
<1> QED
  BY <1>1, <1>2, <1>3, <1>4, <1>5, <1>6, <1>7 DEF Next, Runner, Done

\* The tensor is read and the results are taken from it in one step.
LEMMA ReportStep == Report /\ [Next]_vars => Report'
<1> SUFFICES ASSUME Report, [Next]_vars PROVE Report'
  OBVIOUS
<1> USE DEF Report, Continue, End
<1>1. CASE GetResults
  BY <1>1 DEF GetResults
<1>2. CASE PrintResults
  BY <1>2 DEF PrintResults
<1>3. CASE UNCHANGED <<tensor, results>> /\ (main' = "print" => main = "print")
  BY <1>3
<1> QED
  BY <1>1, <1>2, <1>3
     DEF Next, Runner, Done, vars, runnerVars, ParseArguments, ReadLabelsFile, Construct, Call,
         ConstructTerminates, SetPmuCycleCounters, GetInputFromFile, GetInputFails, Invoke, Invoking,
         AfterFailedInvoke, InvokeThrows, GetResultsFails, GetResultsCrashes, PrintCrashes, ReadCounters, Leave,
         Destroying, Firmware

LEMMA OwnStep == OwnTypes /\ [Next]_vars => OwnTypes'
<1> SUFFICES ASSUME OwnTypes, [Next]_vars PROVE OwnTypes'
  OBVIOUS
<1> USE DEF OwnTypes, Mains, Continue, End
<1>1. CASE ParseArguments \/ ReadLabelsFile \/ ConstructTerminates \/ GetInputFails \/ Leave
  BY <1>1 DEF ParseArguments, ReadLabelsFile, ConstructTerminates, GetInputFails, Leave, runnerVars
<1>2. CASE Construct \/ Invoking \/ Destroying
  BY <1>2 DEF Construct, Invoking, Destroying, Call, AfterFailedInvoke, runnerVars
<1>3. CASE SetPmuCycleCounters \/ GetInputFromFile \/ Invoke \/ InvokeThrows
  BY <1>3 DEF SetPmuCycleCounters, GetInputFromFile, Invoke, InvokeThrows, AfterFailedInvoke, runnerVars
<1>4. CASE GetResults \/ GetResultsFails \/ GetResultsCrashes \/ PrintResults \/ PrintCrashes \/ ReadCounters
  BY <1>4 DEF GetResults, GetResultsFails, GetResultsCrashes, PrintResults, PrintCrashes, ReadCounters, runnerVars
<1>5. CASE Firmware \/ UNCHANGED vars
  BY <1>5 DEF Firmware, vars, runnerVars
<1> QED  BY <1>1, <1>2, <1>3, <1>4, <1>5 DEF Next, Runner, Done

LEMMA Inductive == IInv /\ [Next]_vars => IInv'
<1> SUFFICES ASSUME IInv, [Next]_vars PROVE IInv'
  OBVIOUS
<1>1. /\ IP!IInv /\ OptionTypes /\ Phase /\ BeforeInvoke /\ AfterInvoke /\ NoCrash
      /\ Report /\ OwnTypes
  BY DEF IInv
<1>2. IP!IInv'
  BY <1>1, InterpreterStep
<1>3. Phase'
  BY <1>1, PhaseStep
<1> QED
  BY <1>1, <1>2, <1>3, OptionStep, BeforeStep, AfterStep, CrashStep, ReportStep, OwnStep DEF IInv

\* Hence all parts hold in every state of every behaviour.
LEMMA Invariance == Spec => []IInv
BY InitIInv, Inductive, PTL DEF Spec

-----------------------------------------------------------------------------
\* main() is a correct client of the Interpreter: each of its steps is one that the
\* Interpreter allows its client, a step of a call it is in, or leaves it alone.
THEOREM ImplementsClient == Spec => InterpreterClient
<1>1. Init => Interp!Init
  BY DEF Init
<1>2. IInv /\ [Next]_vars => [Interp!Next]_(Interp!vars)
  BY InterpreterAllows DEF IInv
<1> QED  BY <1>1, <1>2, Invariance, PTL DEF Spec, InterpreterClient, Interp!Spec

\* Results are printed, and the process exits with 0, only when the firmware has
\* computed the output completely from this process's own input: for any number
\* of inferences and whatever the firmware does.
THEOREM OwnOutput == Spec => []ReportsOwnOutput
<1>1. IInv => ReportsOwnOutput
  BY DEF IInv, AfterInvoke, Answered, ReportsOwnOutput
<1> QED  BY <1>1, Invariance, PTL

\* The counters are never read without an Inference, and those that are read are of
\* the inference that computed the printed results, after it has ended: for any number
\* of inferences, whatever Invoke(), the firmware and a late answer do.
THEOREM OwnCounters == Spec => []CountersAreOwn
<1>1. IInv => CountersAreOwn
  BY DEF IInv, NoCrash, AfterInvoke, Answered, CountersAreOwn
<1> QED  BY <1>1, Invariance, PTL

\* So main() has all that is proved of the Interpreter: above all, whichever way
\* the process leaves the constructor or the try block, once the Interpreter is
\* gone nothing is open and nothing mapped.
THEOREM InterpreterPromises ==
    Spec => [](Interp!TypeOK /\ Interp!ArenaExclusive /\ Interp!FreshOutput /\ Interp!GoneIsClean)
<1>1. IP!InterpreterAssumption
  BY RunnerAssumption DEF RunnerAssumption, Interp!InterpreterAssumption, IP!InterpreterAssumption
<1>2. Interp!Init => IP!Init
  BY SameInit
<1>3. [Interp!Next]_(Interp!vars) => [IP!Next]_(IP!vars)
  BY SameNext
     DEF Interp!vars, Interp!libVars, Interp!callVars, Interp!arenaVars,
         IP!vars, IP!libVars, IP!callVars, IP!arenaVars
<1>4. Interp!Spec => IP!Spec
  BY <1>2, <1>3, PTL DEF Interp!Spec, IP!Spec
<1>5. IP!Spec => [](IP!TypeOK /\ IP!ArenaExclusive /\ IP!FreshOutput /\ IP!GoneIsClean)
  <2>1. IP!Spec => []IP!TypeOK
    BY <1>1, IP!TypeCorrect DEF IP!InterpreterAssumption
  <2>2. IP!Spec => []IP!ArenaExclusive
    BY <1>1, IP!ArenaOwned DEF IP!InterpreterAssumption
  <2>3. IP!Spec => []IP!FreshOutput
    BY <1>1, IP!OutputIsFresh DEF IP!InterpreterAssumption
  <2>4. IP!Spec => []IP!GoneIsClean
    BY <1>1, IP!GoneClean DEF IP!InterpreterAssumption
  <2> QED  BY <2>1, <2>2, <2>3, <2>4, PTL
<1>6. IP!TypeOK => Interp!TypeOK
  BY DEF IP!TypeOK, IP!Lib!TypeOK, IP!Lib!Objects, IP!Lib!Kinds, IP!Lib!NoFd, IP!Lib!Locations,
         IP!Places, IP!Tensors, IP!NoInput, IP!Partial, IP!Unread,
         Interp!TypeOK, Interp!Lib!TypeOK, Interp!Lib!Objects, Interp!Lib!Kinds, Interp!Lib!NoFd,
         Interp!Lib!Locations, Interp!Places, Interp!Tensors, Interp!NoInput, Interp!Partial, Interp!Unread
<1>7. /\ IP!ArenaExclusive => Interp!ArenaExclusive
      /\ IP!FreshOutput => Interp!FreshOutput
      /\ IP!GoneIsClean => Interp!GoneIsClean
  BY DEF IP!ArenaExclusive, IP!FreshOutput, IP!GoneIsClean, IP!Ended,
         Interp!ArenaExclusive, Interp!FreshOutput, Interp!GoneIsClean, Interp!Ended
<1> QED  BY <1>4, <1>5, <1>6, <1>7, ImplementsClient, PTL DEF InterpreterClient

\* Every variable of the program keeps its type: above all there are never more than
\* TopSize results, and each is a class and a value, with NaN as well.
THEOREM TypeCorrect == Spec => []TypeOK
<1>1. IInv /\ Interp!TypeOK => TypeOK
  <2> SUFFICES ASSUME IInv, Interp!TypeOK PROVE TypeOK
    OBVIOUS
  <2>1. results \in Seq(Printed) /\ Len(results) <= TopSize
    <3>1. CASE results = <<>>
      BY <3>1, OutputAssumption DEF OutputAssumption
    <3>2. CASE tensor \in Outputs /\ tensor.tensors > 1 /\ results = BoundingBoxes(tensor)
      BY <3>2, OutputAssumption, BoxesType DEF OutputAssumption, Printed
    <3>3. CASE tensor \in Outputs /\ tensor.tensors = 1 /\ ~HasNaN(tensor) /\ results = TopN(tensor)
      <4>1. results \in Seq(Results) /\ Len(results) <= TopSize
        BY <3>3, Numbers, OutputAssumption, TopNType DEF OutputAssumption
      <4>2. Results \subseteq Printed
        BY DEF Results, Printed
      <4> QED  BY <4>1, <4>2
    <3>4. CASE tensor \in Outputs /\ tensor.tensors = 1 /\ results \in Unordered(tensor)
      <4>1. /\ tensor.data \in Seq(Int \cup {NaN})
            /\ tensor.type = "int8" => tensor.data \in Seq(Int)
        <5>1. CASE tensor.type = "float"
          BY <3>4, <5>1, OutputAssumption DEF OutputAssumption
        <5>2. CASE tensor.type # "float"
          <6>1. tensor.data \in Seq(Int)
            BY <3>4, <5>2, OutputAssumption DEF OutputAssumption
          <6> QED  BY <6>1
        <5> QED  BY <5>1, <5>2
      <4> QED  BY <3>4, <4>1, UnorderedType, OutputAssumption DEF OutputAssumption
    <3> QED  BY <3>1, <3>2, <3>3, <3>4 DEF IInv, Report
  <2>2. \A j \in DOMAIN results : results[j] \in Printed
    BY <2>1
  <2> QED  BY <2>1, <2>2 DEF IInv, OwnTypes, OptionTypes, Report, Printed, TypeOK
<1> QED  BY <1>1, Invariance, InterpreterPromises, PTL

\* Whatever numbers the firmware leaves in the output, the printed results of a
\* classification are the TopSize greatest that reach the threshold, in order.
THEOREM RankedTop == Spec => []TopRanked
<1>1. IInv => TopRanked
  <2> SUFFICES ASSUME IInv, main = "print", tensor.tensors = 1, ~HasNaN(tensor) PROVE TopRanked
    BY DEF TopRanked
  <2>1. tensor \in Outputs /\ results = TopN(tensor)
    BY DEF IInv, Report
  <2>2. tensor.data \in Seq(Int)
    BY <2>1, Numbers
  <2>3. {i \in DOMAIN tensor.data : Value(tensor, i) >= Threshold} = Above(tensor, Len(tensor.data))
    BY <2>2 DEF Above
  <2>4. \A i \in DOMAIN tensor.data, j \in 1..TopSize :
           (j \in DOMAIN results /\ results[j] = Result(tensor, i))
              <=> (i \in Above(tensor, Len(tensor.data)) /\ 1 + Cardinality(Greater(tensor, i)) = j)
    BY <2>1, <2>2, OutputAssumption, TopNRanked DEF OutputAssumption
  <2> QED  BY <2>3, <2>4 DEF TopRanked, Result, Greater
<1> QED  BY <1>1, Invariance, PTL

=============================================================================
