-------------------------- MODULE Interpreter_proofs --------------------------
(***************************************************************************)
(* Proofs about Interpreter, for every set of descriptors and inferences.  *)
(* The library's part of the invariant is the one of DriverLibrary_proofs, *)
(* whose lemmas are used through the instance LP.                          *)
(***************************************************************************)
EXTENDS Interpreter, FiniteSetTheorems, TLAPS

LP == INSTANCE DriverLibrary_proofs WITH
         Buffers <- {networkBuffer, arenaBuffer}, Networks <- {network}

-----------------------------------------------------------------------------
\* The library of the Interpreter meets the assumptions of DriverLibrary.
LEMMA LibraryAssumptions == LP!FdAssumption /\ LP!ObjectAssumption /\ LP!CountAssumption
<1>1. LP!FdAssumption /\ LP!ObjectAssumption
  BY InterpreterAssumption
     DEF InterpreterAssumption, LP!FdAssumption, LP!ObjectAssumption, LP!Objects
<1>2. IsFiniteSet({networkBuffer} \cup {arenaBuffer})
  <2>1. IsFiniteSet({networkBuffer})
    BY FS_Singleton
  <2> QED  BY <2>1, FS_AddElement
<1>3. {networkBuffer} \cup {arenaBuffer} = {networkBuffer, arenaBuffer}
  OBVIOUS
<1>4. LP!IsFiniteSet({networkBuffer, arenaBuffer}) <=> IsFiniteSet({networkBuffer, arenaBuffer})
  BY DEF IsFiniteSet, LP!IsFiniteSet
<1> QED
  BY <1>1, <1>2, <1>3, <1>4, InterpreterAssumption DEF InterpreterAssumption, LP!CountAssumption

\* The definitions of the two instances of DriverLibrary, the one the Interpreter
\* is written with and the one the lemmas are about, are the same.
LEMMA SameLibrary == Lib!Library <=> LP!Library
BY DEF Lib!Library, Lib!BufferCreate, Lib!BufferMap, Lib!BufferMapFails, Lib!BufferClose,
       Lib!NetworkCreate, Lib!NetworkInfo, Lib!NetworkInfoFails, Lib!NetworkClose, Lib!ArenaResize,
       Lib!InferenceOverflow, Lib!InferenceCreate, Lib!Destroy, Lib!DestroyFails, Lib!Released,
       Lib!Open, Lib!LowestFree, Lib!Kind, Lib!Close, Lib!Throw, Lib!Return, Lib!Terminate,
       Lib!Constructing, Lib!Garbage, Lib!Objects, Lib!NoArgs, Lib!NoFd, Lib!IfmCount,
       Lib!objVars, Lib!callVars,
       LP!Library, LP!BufferCreate, LP!BufferMap, LP!BufferMapFails, LP!BufferClose,
       LP!NetworkCreate, LP!NetworkInfo, LP!NetworkInfoFails, LP!NetworkClose, LP!ArenaResize,
       LP!InferenceOverflow, LP!InferenceCreate, LP!Destroy, LP!DestroyFails, LP!Released,
       LP!Open, LP!LowestFree, LP!Kind, LP!Close, LP!Throw, LP!Return, LP!Terminate,
       LP!Constructing, LP!Garbage, LP!Objects, LP!NoArgs, LP!NoFd, LP!IfmCount,
       LP!objVars, LP!callVars

\* So are its client's steps ...
LEMMA SameClient == Lib!Client <=> LP!Client
BY DEF Lib!Client, Lib!DeviceCtor, Lib!DeviceDtor, Lib!NewBuffer, Lib!NewNetwork, Lib!NewInference,
       Lib!NewInferenceInArena, Lib!TooManyCounters, Lib!Get, Lib!Reset, Lib!Enter, Lib!Open,
       Lib!LowestFree, Lib!Kind, Lib!Close, Lib!NoFd, Lib!NoArgs, Lib!Objects,
       LP!Client, LP!DeviceCtor, LP!DeviceDtor, LP!NewBuffer, LP!NewNetwork, LP!NewInference,
       LP!NewInferenceInArena, LP!TooManyCounters, LP!Get, LP!Reset, LP!Enter, LP!Open,
       LP!LowestFree, LP!Kind, LP!Close, LP!NoFd, LP!NoArgs, LP!Objects,
       Lib!Cardinality, LP!Cardinality

\* ... and its type invariant.
LEMMA SameTypes == Lib!TypeOK <=> LP!TypeOK
BY DEF Lib!TypeOK, Lib!Objects, Lib!Kinds, Lib!NoFd, Lib!Locations,
       LP!TypeOK, LP!Objects, LP!Kinds, LP!NoFd, LP!Locations

\* The invariant of the library holds when the Interpreter is constructed ...
LEMMA LibraryInit == Lib!Init => LP!IInv
<1>1. Lib!Init <=> LP!Init
  BY DEF Lib!Init, Lib!Objects, Lib!NoArgs, Lib!NoFd, LP!Init, LP!Objects, LP!NoArgs, LP!NoFd
<1> QED
  BY <1>1, LibraryAssumptions, LP!InitIInv
     DEF LP!FdAssumption, LP!ObjectAssumption, LP!CountAssumption

\* A step is one of the library in one instance exactly if it is in the other.
LEMMA SameNext == [Lib!Next]_(Lib!vars) <=> [LP!Next]_(LP!vars)
BY SameLibrary, SameClient
   DEF Lib!Next, Lib!Terminated, Lib!vars, LP!Next, LP!Terminated, LP!vars

\* ... and is kept by every step that the library allows.
LEMMA LibraryInductive == LP!IInv /\ [Lib!Next]_(Lib!vars) => LP!IInv'
<1>1. LP!IInv /\ [LP!Next]_(LP!vars) => LP!IInv'
  BY LibraryAssumptions, LP!Inductive
     DEF LP!FdAssumption, LP!ObjectAssumption, LP!CountAssumption
<1> QED  BY <1>1, SameNext

-----------------------------------------------------------------------------
\* The members the Interpreter has at a place, in the order of construction.
Own == {inference} \ {NoObj}
Members == {Dev, networkBuffer, arenaBuffer, network} \cup Own

Base == IF at \in {"capabilities", "networkBuffer", "fill"} THEN {Dev}
        ELSE IF at \in {"network", "vela"} THEN {Dev, networkBuffer}
        ELSE IF at \in {"arena", "resize"} THEN {Dev, networkBuffer, network}
        ELSE IF at \in {"ready", "crashed", "create", "wait", "status"} THEN Members
        ELSE {}

\* What may be under construction at a place.
New == IF at = "fill" THEN {networkBuffer}
       ELSE IF at = "vela" THEN {network}
       ELSE IF at = "resize" THEN {arenaBuffer}
       ELSE IF at = "create" THEN Inferences \ Own
       ELSE {}

\* Places in the constructors of the library that the Interpreter uses.
Making == {"BufferCreate", "BufferMap", "BufferClose", "NetworkCreate", "NetworkInfo",
           "NetworkClose", "InferenceCreate"}

\* The Interpreter holds the members of its place, and one more when a constructor
\* has just returned; the library is inside a call only where the Interpreter
\* called it.
Holding ==
    /\ encl = NoObj /\ inference \in Inferences \cup {NoObj}
    /\ at \notin {"terminated", "unwind"} =>
          held = Base \/ (pc = "client" /\ exc = "none" /\ \E o \in New : held = Base \cup {o})
    /\ at = "unwind" => Dev \in held /\ held \subseteq Members
    /\ at = "create" /\ pc = "client" /\ exc = "none" => held # Base
    /\ at \in {"wait", "status"} => inference # NoObj
    /\ at \in {"device", "capabilities", "networkBuffer", "fill", "network", "vela", "arena",
               "resize", "crashed"} => inference = NoObj

Calling ==
    /\ pc \in Making \cup {"client", "Release", "terminated"}
    /\ pc \in Making => obj \in New
    /\ pc = "Release" => \/ at \in {"fill", "vela", "resize", "create"} /\ exc # "none"
                         \/ at \in {"wait", "unwind"}
    /\ pc = "terminated" => at = "terminated"

-----------------------------------------------------------------------------
\* What a step of the library does to the call it is a step of: the constructor
\* goes on, it returns the object, it throws, or destructors run.
GoesOn == /\ pc \in Making /\ pc' \in Making \ {"InferenceCreate"}
          /\ UNCHANGED <<obj, live, held, exc>>
Returns == /\ pc \in Making /\ pc' = "client" /\ exc' = "none"
           /\ live' = live \cup {obj} /\ held' = held \cup {obj}
Throws == /\ pc \in Making /\ pc' = "Release" /\ exc' # "none"
          /\ obj \notin live /\ UNCHANGED <<live, held>>
Releases == /\ pc = "Release" /\ pc' \in {"Release", "client"}
            /\ UNCHANGED <<held, exc>>
Dies == pc = "Release" /\ pc' = "terminated" /\ held' = {}

\* There is no other kind of step: a shared object whose destructor throws ends
\* the process, and no arena is constructed inside an Inference.
LEMMA LibraryEffect ==
    ASSUME LP!IInv, encl = NoObj, pc \in Making \cup {"client", "Release", "terminated"}, Lib!Library
    PROVE  encl' = NoObj /\ (GoesOn \/ Returns \/ Throws \/ Releases \/ Dies)
<1> USE DEF GoesOn, Returns, Throws, Releases, Dies, Making
<1>1. pc \in Making => obj \notin live
  <2>1. LP!ObjectAssumption
    BY LibraryAssumptions
  <2> QED  BY <2>1 DEF LP!IInv, LP!CallState, LP!Constructing, LP!ObjectAssumption, LP!Objects
<1>2. CASE Lib!BufferCreate \/ Lib!NetworkCreate
  BY <1>1, <1>2 DEF Lib!BufferCreate, Lib!NetworkCreate, Lib!Throw, Lib!objVars, Lib!callVars
<1>3. CASE Lib!BufferMap
  BY <1>3 DEF Lib!BufferMap, Lib!Return, Lib!callVars
<1>4. CASE Lib!NetworkInfo
  BY <1>4 DEF Lib!NetworkInfo, Lib!Return, Lib!callVars
<1>5. CASE Lib!BufferMapFails \/ Lib!NetworkInfoFails
  BY <1>5 DEF Lib!BufferMapFails, Lib!NetworkInfoFails, Lib!objVars, Lib!callVars
<1>6. CASE Lib!BufferClose \/ Lib!NetworkClose
  BY <1>1, <1>6 DEF Lib!BufferClose, Lib!NetworkClose, Lib!Throw, Lib!objVars, Lib!callVars
<1>7. CASE Lib!InferenceOverflow \/ Lib!InferenceCreate
  BY <1>1, <1>7 DEF Lib!InferenceOverflow, Lib!InferenceCreate, Lib!Throw, Lib!Return,
      Lib!objVars, Lib!callVars
<1>8. CASE (\E o \in Lib!Objects : Lib!Destroy(o)) \/ Lib!Released
  BY <1>8 DEF Lib!Destroy, Lib!Released, Lib!objVars, Lib!callVars
<1>9. CASE Lib!DestroyFails
  BY <1>9 DEF Lib!DestroyFails, Lib!Terminate
<1>10. ~Lib!ArenaResize
  BY DEF Lib!ArenaResize
<1> QED
  BY <1>2, <1>3, <1>4, <1>5, <1>6, <1>7, <1>8, <1>9, <1>10 DEF Lib!Library

\* The Device is declared first, so it is destroyed last.
LEMMA DeclaredOrder ==
    /\ Declared(Dev) = 1 /\ Declared(networkBuffer) = 2 /\ Declared(arenaBuffer) = 3
    /\ Declared(network) = 4 /\ \A i \in Inferences : Declared(i) = 5
<1> USE InterpreterAssumption DEF Declared, InterpreterAssumption
<1>1. Declared(Dev) = 1
  BY Zenon
<1>2. Declared(networkBuffer) = 2
  BY Zenon
<1>3. Declared(arenaBuffer) = 3
  BY Zenon
<1>4. Declared(network) = 4
  BY Zenon
<1>5. \A i \in Inferences : Declared(i) = 5
  BY Zenon
<1> HIDE DEF Declared
<1> QED  BY <1>1, <1>2, <1>3, <1>4, <1>5

\* When it is the Device's turn, the Interpreter holds nothing else.
LEMMA LastMember ==
    ASSUME Holding, at = "unwind", DestroyedNext(Dev)
    PROVE  held = {Dev}
<1>1. held \subseteq {Dev, networkBuffer, arenaBuffer, network} \cup Inferences
  BY DEF Holding, Members, Own
<1>2. Dev \in held /\ \A o \in held : Declared(o) <= 1
  BY DeclaredOrder DEF DestroyedNext
<1> QED  BY <1>1, <1>2, DeclaredOrder

\* Every step of the Interpreter is one the library allows its client, or none.
LEMMA LibraryAllows ==
    ASSUME LP!IInv, Holding, Calling, [Next]_vars
    PROVE  [Lib!Next]_(Lib!vars)
<1> SUFFICES ASSUME libVars' # libVars PROVE Lib!Next
  BY DEF libVars, Lib!vars
<1>1. held \subseteq live
  BY DEF LP!IInv, LP!ReferencedIsLive
<1>2. ASSUME NEW i \in Inferences, NEW f, Invoke(i, f) PROVE Lib!Client
  <2>1. network \in held /\ arenaBuffer \in held
    BY <1>2 DEF Invoke, Holding, Base, Members
  <2> QED  BY <1>2, <2>1 DEF Invoke, Lib!Client
<1>3. ASSUME OpenDevice PROVE Lib!Client
  BY <1>3 DEF OpenDevice, Lib!Client
<1>4. ASSUME NewNetworkBuffer \/ NewArena PROVE Lib!Client
  BY <1>4 DEF NewNetworkBuffer, NewArena, Lib!Client
<1>5. ASSUME NewNetwork PROVE Lib!Client
  <2>1. networkBuffer \in held
    BY <1>5 DEF NewNetwork, Holding, Base
  <2> QED  BY <1>5, <2>1 DEF NewNetwork, Lib!Client
<1>6. ASSUME NEW o \in Lib!Objects, DestroyMember(o) PROVE Lib!Client
  BY <1>6 DEF DestroyMember, Lib!Client
<1>7. ASSUME DestroyDevice PROVE Lib!Client
  <2>1. held = {Dev}
    BY <1>7, LastMember DEF DestroyDevice
  <2>2. live = {Dev}
    BY <1>1, <1>7, <2>1, LibraryAssumptions, LP!AllDropped
       DEF DestroyDevice, LP!NothingLeftBehind, LP!FdAssumption, LP!ObjectAssumption, LP!CountAssumption
  <2>3. Lib!DeviceDtor
    BY <1>7, <2>1, <2>2 DEF DestroyDevice, Lib!DeviceDtor
  <2> QED  BY <2>3 DEF Lib!Client
<1>8. ASSUME Created PROVE Lib!Client
  <2>1. Lib!Reset(inference) /\ inference # NoObj
    BY <1>8 DEF Created
  <2>2. inference \in Lib!Objects
    BY <2>1 DEF Lib!Reset, LP!IInv, LP!TypeOK, LP!Objects, Lib!Objects
  <2> QED  BY <2>1, <2>2 DEF Lib!Client
<1>9. libVars' = libVars \/ Lib!Client \/ LibraryStep
  BY <1>2, <1>3, <1>4, <1>5, <1>6, <1>7, <1>8
     DEF Next, Client, Step, Firmware, Done, Destroy, GetCounters, SetInput, SetPmuCycleCounters,
         OpenModel, FillNetworkBuffer, CheckVela, ResizeArena, CreateFails, WaitReturns, WaitTimesOut,
         CheckStatus, WaitThrows, Start, Complete, vars
<1> QED  BY <1>9 DEF LibraryStep, Lib!Next

\* The places, the members and the calls fit together in every state.
LEMMA HoldingStep ==
    ASSUME LP!IInv, Holding, Calling, [Next]_vars
    PROVE  Holding' /\ Calling'
<1> USE InterpreterAssumption
    DEF Holding, Calling, Base, New, Members, Own, Making, Goto, libVars, InterpreterAssumption
<1>1. CASE OpenDevice
  BY <1>1 DEF OpenDevice, Lib!DeviceCtor
<1>2. CASE OpenModel
  BY <1>2 DEF OpenModel
<1>3. CASE NewNetworkBuffer
  BY <1>3 DEF NewNetworkBuffer, Lib!NewBuffer, Lib!Enter
<1>4. CASE FillNetworkBuffer
  BY <1>4 DEF FillNetworkBuffer
<1>5. CASE NewNetwork
  BY <1>5 DEF NewNetwork, Lib!NewNetwork, Lib!Enter
<1>6. CASE CheckVela
  BY <1>6 DEF CheckVela
<1>7. CASE NewArena
  BY <1>7 DEF NewArena, Lib!NewBuffer, Lib!Enter
<1>8. CASE ResizeArena
  BY <1>8 DEF ResizeArena
<1>9. ASSUME NEW o \in Lib!Objects, DestroyMember(o) PROVE Holding' /\ Calling'
  BY <1>9 DEF DestroyMember, Lib!Reset
<1>10. CASE DestroyDevice
  BY <1>10, LastMember DEF DestroyDevice
<1>11. CASE Created
  BY <1>11 DEF Created, Lib!Reset
<1>12. CASE CreateFails \/ WaitReturns \/ Destroy \/ GetCounters
  BY <1>12 DEF CreateFails, WaitReturns, Destroy, GetCounters
<1>13. CASE WaitTimesOut \/ WaitThrows \/ CheckStatus
  BY <1>13 DEF WaitTimesOut, WaitThrows, CheckStatus
<1>14. ASSUME NEW d, NEW c, SetInput(d) \/ SetPmuCycleCounters(c) PROVE Holding' /\ Calling'
  BY <1>14 DEF SetInput, SetPmuCycleCounters
<1>15. ASSUME NEW i \in Inferences, NEW f, Invoke(i, f) PROVE Holding' /\ Calling'
  <2>1. held \subseteq live
    BY DEF LP!IInv, LP!ReferencedIsLive
  <2> QED  BY <1>15, <2>1 DEF Invoke, Lib!NewInferenceInArena, Lib!Enter
<1>16. ASSUME NEW i, Start(i) \/ Complete(i) PROVE Holding' /\ Calling'
  BY <1>16 DEF Start, Complete
<1>17. CASE UNCHANGED vars
  BY <1>17 DEF vars
<1>18. CASE LibraryStep
  <2>1. encl' = NoObj /\ (GoesOn \/ Returns \/ Throws \/ Releases \/ Dies)
    BY <1>18, LibraryEffect DEF LibraryStep
  <2>2. inference' = inference /\ at' = IF pc' = "terminated" THEN "terminated" ELSE at
    BY <1>18 DEF LibraryStep
  <2>3. CASE GoesOn \/ Throws
    BY <2>1, <2>2, <2>3 DEF GoesOn, Throws
  <2>4. CASE Returns
    BY <2>1, <2>2, <2>4 DEF Returns
  <2>5. CASE Releases \/ Dies
    BY <2>1, <2>2, <2>5 DEF Releases, Dies
  <2> QED  BY <2>1, <2>3, <2>4, <2>5
<1> QED
  BY <1>1, <1>2, <1>3, <1>4, <1>5, <1>6, <1>7, <1>8, <1>9, <1>10, <1>11, <1>12, <1>13, <1>14, <1>15,
     <1>16, <1>17, <1>18 DEF Next, Client, Step, Firmware, Done

-----------------------------------------------------------------------------
\* The Interpreter's own state keeps its types.
OwnTypes ==
    /\ at \in Places /\ inference \in Inferences \cup {NoObj}
    /\ enableCycleCounter \subseteq BOOLEAN
    /\ {forever, ok, overlap, cycle_count} \subseteq BOOLEAN /\ asked \in Tensors
    /\ status \in [Inferences -> {"none", "RUNNING", "OK", "ERROR", "REJECTED"}]
    /\ input \in Tensors /\ output \in Tensors \cup {Partial}
    /\ job \in [Inferences -> Tensors \cup {Unread}]
    /\ abandoned \subseteq Inferences

\* No step of the Interpreter, its client or the firmware leaves the types.
LEMMA TypeStep ==
    ASSUME OwnTypes, Holding, Calling, [Next]_vars
    PROVE  OwnTypes'
<1> USE InterpreterAssumption
    DEF OwnTypes, Holding, Goto, Places, Tensors, NoInput, Partial, Unread, callVars, arenaVars,
        InterpreterAssumption
<1>1. ASSUME NEW S \in SUBSET Places, Goto(S) PROVE OwnTypes'
  BY <1>1
<1>2. CASE OpenDevice \/ OpenModel \/ NewNetworkBuffer \/ FillNetworkBuffer \/ NewNetwork \/ CheckVela
  BY <1>1, <1>2 DEF OpenDevice, OpenModel, NewNetworkBuffer, FillNetworkBuffer, NewNetwork, CheckVela
<1>3. CASE NewArena \/ ResizeArena \/ Destroy \/ DestroyDevice \/ GetCounters \/ CreateFails \/ WaitReturns
  BY <1>1, <1>3
     DEF NewArena, ResizeArena, Destroy, DestroyDevice, GetCounters, CreateFails, WaitReturns
<1>4. ASSUME NEW o \in Lib!Objects, DestroyMember(o) PROVE OwnTypes'
  BY <1>1, <1>4 DEF DestroyMember
<1>5. CASE Created
  BY <1>5 DEF Created
<1>6. CASE WaitTimesOut \/ WaitThrows
  BY <1>6 DEF WaitTimesOut, WaitThrows
<1>7. CASE CheckStatus
  <2>1. ok' \in BOOLEAN
    BY Zenon, <1>7 DEF CheckStatus
  <2> QED  BY <1>7, <2>1 DEF CheckStatus
<1>8. ASSUME NEW d \in 1..MaxInput, SetInput(d) PROVE OwnTypes'
  BY <1>8 DEF SetInput
<1>9. ASSUME NEW c \in BOOLEAN, SetPmuCycleCounters(c) PROVE OwnTypes'
  BY <1>9 DEF SetPmuCycleCounters
<1>10. ASSUME NEW i \in Inferences, NEW f \in BOOLEAN, Invoke(i, f) PROVE OwnTypes'
  <2>1. overlap' \in BOOLEAN
    BY Zenon, <1>10 DEF Invoke
  <2> QED  BY <1>10, <2>1 DEF Invoke
<1>11. ASSUME NEW i \in Inferences, Start(i) \/ Complete(i) PROVE OwnTypes'
  <2>1. CASE Start(i)
    BY <2>1 DEF Start
  <2>2. CASE Complete(i)
    BY <2>2 DEF Complete
  <2> QED  BY <1>11, <2>1, <2>2
<1>12. CASE LibraryStep
  BY <1>12 DEF LibraryStep
<1>13. CASE UNCHANGED vars
  BY <1>13 DEF vars
<1> QED
  BY <1>2, <1>3, <1>4, <1>5, <1>6, <1>7, <1>8, <1>9, <1>10, <1>11, <1>12, <1>13
     DEF Next, Client, Step, Firmware, Done

-----------------------------------------------------------------------------
Running(i) == status[i] = "RUNNING"

\* The inference of the Invoke() that is under way, from its creation on.
Current(i) == IF at = "create" THEN i \in held \ Own
              ELSE at \in {"wait", "status"} /\ i = inference

\* An inference exists in the kernel from the moment its constructor returns; the
\* Interpreter has known one ever since.
Creation ==
    /\ \A i \in Inferences : status[i] = "none" =>
          job[i] = Unread /\ i # inference /\ i \notin held
    /\ pc = "InferenceCreate" => status[obj] = "none"
    /\ at # "terminated" =>
          \A i \in Inferences : status[i] # "none" => inference # NoObj \/ Current(i)

\* Unless some Invoke() stopped waiting, only its own inference runs while it waits.
OneUser ==
    ~Ended /\ abandoned = {} => \A i \in Inferences : Running(i) => Current(i) /\ at # "status"

\* The inference has computed its output from the input of the last Invoke().
Answered(i) == status[i] = "OK" /\ job[i] = asked /\ output = asked

\* From the creation of its inference until Invoke() returns, no other inference
\* touches the arena, if none did when it began.
Fresh ==
    /\ at \notin {"ready", "unwind"} /\ ~Ended => ~ok
    /\ at \in {"create", "wait", "status"} /\ ~overlap =>
          /\ input = asked
          /\ \A i \in Inferences : /\ Running(i) => Current(i)
                                   /\ Current(i) => job[i] \in {Unread, asked}
                                   /\ Current(i) /\ status[i] = "OK" => Answered(i)
    /\ at = "ready" /\ ok /\ ~overlap =>
          inference # NoObj /\ Answered(inference) /\ \A i \in Inferences : ~Running(i)

\* Invoke() has one inference at a time.
LEMMA OneCurrent ==
    ASSUME Holding, NEW i \in Inferences, NEW j \in Inferences, Current(i), Current(j)
    PROVE  i = j
BY InterpreterAssumption DEF Current, Holding, Base, New, Members, Own, InterpreterAssumption

\* A step of the library creates at most the inference under construction.
LEMMA CreationEffect ==
    ASSUME LP!IInv, Holding, Calling, LibraryStep
    PROVE  \/ status' = status /\ at' = "terminated" /\ pc' = "terminated" /\ held' = {}
           \/ /\ status' = status /\ at' = at /\ pc' # "InferenceCreate"
              /\ held' \cap Inferences = held \cap Inferences
           \/ /\ at = "create" /\ at' = at /\ pc = "InferenceCreate" /\ pc' = "client"
              /\ obj \in Inferences /\ obj \notin Own /\ obj \notin held
              /\ held' = held \cup {obj} /\ status' = [status EXCEPT ![obj] = "RUNNING"]
<1>1. GoesOn \/ Returns \/ Throws \/ Releases \/ Dies
  BY LibraryEffect DEF LibraryStep, Holding, Calling
<1>2. pc \in Making => obj \notin live
  <2>1. LP!ObjectAssumption
    BY LibraryAssumptions
  <2> QED  BY <2>1 DEF LP!IInv, LP!CallState, LP!Constructing, LP!ObjectAssumption, LP!Objects, Making
<1>3. CASE GoesOn \/ Throws
  BY <1>2, <1>3 DEF GoesOn, Throws, LibraryStep, Making
<1>4. CASE Returns
  <2>1. CASE pc = "InferenceCreate"
    <3>1. obj \in Inferences /\ held \subseteq live
      BY <2>1 DEF LP!IInv, LP!CallState, LP!ReferencedIsLive
    <3>2. obj \in New
      BY <2>1 DEF Calling, Making
    <3>3. at = "create" /\ obj \notin Own
      BY <3>1, <3>2, InterpreterAssumption DEF New, InterpreterAssumption
    <3> QED  BY <1>2, <1>4, <2>1, <3>1, <3>3 DEF Returns, LibraryStep, Making
  <2>2. CASE pc # "InferenceCreate"
    <3>1. obj \notin Inferences
      BY <1>4, <2>2, InterpreterAssumption
         DEF Returns, Making, LP!IInv, LP!CallState, InterpreterAssumption
    <3> QED  BY <1>4, <2>2, <3>1 DEF Returns, LibraryStep
  <2> QED  BY <2>1, <2>2
<1>5. CASE Releases \/ Dies
  BY <1>5 DEF Releases, Dies, LibraryStep
<1> QED  BY <1>1, <1>3, <1>4, <1>5

\* Every step keeps Creation: Invoke() only replaces the member when the new
\* inference exists.
LEMMA CreationStep ==
    ASSUME LP!IInv, OwnTypes, Holding, Calling, Creation, [Next]_vars
    PROVE  Creation'
<1> USE InterpreterAssumption
    DEF Creation, Current, Own, Goto, libVars, callVars, arenaVars, InterpreterAssumption
<1>1. ASSUME NEW S \in SUBSET (Places \ {"create", "wait", "status"}), Goto(S), at # "terminated",
             held' \cap Inferences \subseteq held, \A i \in Inferences : ~Current(i), pc' # "InferenceCreate"
      PROVE  Creation'
  BY <1>1
<1>2. CASE OpenDevice \/ OpenModel \/ NewNetworkBuffer \/ FillNetworkBuffer \/ NewNetwork \/ CheckVela
  <2>1. pc' # "InferenceCreate" /\ held' \cap Inferences \subseteq held
    BY <1>2 DEF OpenDevice, OpenModel, NewNetworkBuffer, FillNetworkBuffer, NewNetwork, CheckVela,
        Lib!DeviceCtor, Lib!NewBuffer, Lib!NewNetwork, Lib!Enter, Calling, New, Making
  <2> QED  BY <1>1, <1>2, <2>1
       DEF OpenDevice, OpenModel, NewNetworkBuffer, FillNetworkBuffer, NewNetwork, CheckVela, Places
<1>3. CASE NewArena \/ ResizeArena \/ Destroy \/ DestroyDevice \/ GetCounters
  <2>1. pc' # "InferenceCreate" /\ held' \cap Inferences \subseteq held
    BY <1>3 DEF NewArena, ResizeArena, Destroy, DestroyDevice, GetCounters,
        Lib!NewBuffer, Lib!Enter, Calling, New, Making
  <2> QED  BY <1>1, <1>3, <2>1
       DEF NewArena, ResizeArena, Destroy, DestroyDevice, GetCounters, Places
<1>4. ASSUME NEW o \in Lib!Objects, DestroyMember(o) PROVE Creation'
  BY <1>1, <1>4 DEF DestroyMember, Lib!Reset, Places
<1>5. CASE Created
  <2>1. PICK i \in held \cap Inferences : i # inference /\ inference' = i
    BY <1>5 DEF Created
  <2>2. status[i] # "none"
    BY <2>1
  <2>3. held' \subseteq held /\ pc' # "InferenceCreate" /\ i # NoObj
    BY <1>5, <2>1 DEF Created, Lib!Reset
  <2> QED  BY <1>5, <2>1, <2>2, <2>3 DEF Created
<1>6. CASE CreateFails
  <2>1. \A i \in Inferences : ~Current(i)
    BY <1>6 DEF CreateFails, Holding, Base, Members
  <2> QED  BY <1>6, <2>1 DEF CreateFails
<1>7. CASE WaitReturns \/ WaitTimesOut \/ WaitThrows \/ CheckStatus
  BY <1>7 DEF WaitReturns, WaitTimesOut, WaitThrows, CheckStatus, Holding
<1>8. ASSUME NEW d, SetInput(d) PROVE Creation'
  BY <1>8 DEF SetInput
<1>9. ASSUME NEW c, SetPmuCycleCounters(c) PROVE Creation'
  BY <1>9 DEF SetPmuCycleCounters
<1>10. ASSUME NEW i \in Inferences, NEW f, Invoke(i, f) PROVE Creation'
  BY <1>10 DEF Invoke, Lib!NewInferenceInArena, Lib!Enter
<1>11. ASSUME NEW i \in Inferences, Start(i) \/ Complete(i) PROVE Creation'
  <2>1. CASE Start(i)
    BY <2>1 DEF Start, OwnTypes
  <2>2. CASE Complete(i)
    <3>1. \A j \in Inferences : status'[j] = "none" <=> status[j] = "none"
      BY <2>2 DEF Complete, OwnTypes
    <3>2. at' = at /\ inference' = inference /\ held' = held /\ pc' = pc /\ obj' = obj /\ job' = job
      BY <2>2 DEF Complete
    <3>3. pc = "InferenceCreate" => obj \in Inferences
      BY DEF LP!IInv, LP!CallState
    <3> QED  BY <3>1, <3>2, <3>3
  <2> QED  BY <1>11, <2>1, <2>2
<1>12. CASE LibraryStep
  <2>1. inference' = inference /\ job' = job
    BY <1>12 DEF LibraryStep
  <2>2. CASE status' = status /\ at' = "terminated" /\ pc' = "terminated" /\ held' = {}
    BY <2>1, <2>2 
  <2>3. CASE /\ status' = status /\ at' = at /\ pc' # "InferenceCreate"
             /\ held' \cap Inferences = held \cap Inferences
    BY <2>1, <2>3
  <2>4. CASE /\ at = "create" /\ at' = at /\ pc = "InferenceCreate" /\ pc' = "client"
             /\ obj \in Inferences /\ obj \notin Own /\ obj \notin held
             /\ held' = held \cup {obj} /\ status' = [status EXCEPT ![obj] = "RUNNING"]
    <3>1. \A i \in Inferences : status'[i] = IF i = obj THEN "RUNNING" ELSE status[i]
      BY <2>4 DEF OwnTypes
    <3> QED  BY <2>1, <2>4, <3>1
  <2> QED  BY <1>12, <2>2, <2>3, <2>4, CreationEffect
<1>13. CASE UNCHANGED vars
  BY <1>13 DEF vars
<1> QED
  BY <1>2, <1>3, <1>4, <1>5, <1>6, <1>7, <1>8, <1>9, <1>10, <1>11, <1>12, <1>13
     DEF Next, Client, Step, Firmware, Done

\* Every step keeps OneUser: WaitReturns leaves with the inference done, the other
\* ways out of the wait are counted as abandoning it.
LEMMA OneUserStep ==
    ASSUME LP!IInv, OwnTypes, Holding, Calling, Creation, OneUser, [Next]_vars
    PROVE  OneUser'
<1> USE InterpreterAssumption
    DEF OneUser, Running, Current, Own, Goto, Ended, callVars, arenaVars, InterpreterAssumption
<1>1. ASSUME NEW S, Goto(S), \A i \in Inferences : ~Current(i), ~Ended PROVE OneUser'
  BY <1>1
<1>2. CASE OpenDevice \/ OpenModel \/ NewNetworkBuffer \/ FillNetworkBuffer \/ NewNetwork \/ CheckVela
  BY <1>1, <1>2
     DEF OpenDevice, OpenModel, NewNetworkBuffer, FillNetworkBuffer, NewNetwork, CheckVela
<1>3. CASE NewArena \/ ResizeArena \/ Destroy \/ DestroyDevice \/ GetCounters
  BY <1>1, <1>3 DEF NewArena, ResizeArena, Destroy, DestroyDevice, GetCounters
<1>4. ASSUME NEW o \in Lib!Objects, DestroyMember(o) PROVE OneUser'
  BY <1>1, <1>4 DEF DestroyMember
<1>5. CASE Created
  <2>1. PICK i \in held \cap Inferences : i # inference /\ inference' = i
    BY <1>5 DEF Created
  <2>2. \A j \in held \cap Inferences : j # inference => j = i
    BY <1>5, <2>1 DEF Created, Holding, Base, New, Members
  <2> QED  BY <1>5, <2>1, <2>2 DEF Created, Holding
<1>6. CASE CreateFails
  <2>1. \A i \in Inferences : ~Current(i)
    BY <1>6 DEF CreateFails, Holding, Base, Members
  <2> QED  BY <1>6, <2>1 DEF CreateFails
<1>7. CASE WaitReturns
  BY <1>7 DEF WaitReturns
<1>8. CASE WaitTimesOut \/ WaitThrows
  BY <1>8 DEF WaitTimesOut, WaitThrows, Holding
<1>9. CASE CheckStatus
  BY <1>9 DEF CheckStatus
<1>10. ASSUME NEW d, NEW c, SetInput(d) \/ SetPmuCycleCounters(c) PROVE OneUser'
  BY <1>10 DEF SetInput, SetPmuCycleCounters
<1>11. ASSUME NEW i \in Inferences, NEW f, Invoke(i, f) PROVE OneUser'
  BY <1>11 DEF Invoke
<1>12. ASSUME NEW i \in Inferences, Start(i) \/ Complete(i) PROVE OneUser'
  <2>1. \A j \in Inferences : Running(j)' => Running(j)
    BY <1>12 DEF Start, Complete, OwnTypes
  <2>2. UNCHANGED <<libVars, at, inference, abandoned>>
    BY <1>12 DEF Start, Complete
  <2>3. \A j \in Inferences : Current(j)' <=> Current(j)
    BY <2>2 DEF libVars
  <2> QED  BY <2>1, <2>2, <2>3
<1>13. CASE LibraryStep
  <2>1. inference' = inference /\ abandoned' = abandoned
    BY <1>13 DEF LibraryStep
  <2>2. CASE /\ at = "create" /\ at' = at
             /\ obj \in Inferences /\ obj \notin Own /\ obj \notin held
             /\ held' = held \cup {obj} /\ status' = [status EXCEPT ![obj] = "RUNNING"]
    <3>1. \A i \in Inferences : status'[i] = IF i = obj THEN "RUNNING" ELSE status[i]
      BY <2>2 DEF OwnTypes
    <3> QED  BY <2>1, <2>2, <3>1
  <2> QED  BY <1>13, <2>1, <2>2, CreationEffect
<1>14. CASE UNCHANGED vars
  BY <1>14 DEF vars, libVars
<1> QED
  BY <1>2, <1>3, <1>4, <1>5, <1>6, <1>7, <1>8, <1>9, <1>10, <1>11, <1>12, <1>13, <1>14
     DEF Next, Client, Step, Firmware, Done

\* Every step keeps Fresh: the client is inside Invoke() and cannot write an input
\* while the inference runs, and only Current inferences write the output.
LEMMA FreshStep ==
    ASSUME LP!IInv, OwnTypes, Holding, Calling, Creation, Fresh, [Next]_vars
    PROVE  Fresh'
<1> USE InterpreterAssumption
    DEF Fresh, Answered, Running, Current, Own, Goto, Ended, callVars, arenaVars, InterpreterAssumption
<1>1. ASSUME NEW S \in SUBSET (Places \ {"ready", "create", "wait", "status"}), Goto(S),
             at \in Places \ {"create", "wait", "status"}, ~Ended,
             at \in {"ready", "unwind"} => S \subseteq {"unwind", "gone", "terminated", "crashed"}
      PROVE  Fresh'
  BY <1>1
<1>2. CASE OpenDevice \/ OpenModel \/ NewNetworkBuffer \/ FillNetworkBuffer \/ NewNetwork \/ CheckVela
  BY <1>1, <1>2
     DEF OpenDevice, OpenModel, NewNetworkBuffer, FillNetworkBuffer, NewNetwork, CheckVela, Places
<1>3. CASE NewArena \/ Destroy \/ DestroyDevice \/ GetCounters
  BY <1>1, <1>3 DEF NewArena, Destroy, DestroyDevice, GetCounters, Places
<1>4. CASE ResizeArena
  BY <1>4 DEF ResizeArena
<1>5. ASSUME NEW o \in Lib!Objects, DestroyMember(o) PROVE Fresh'
  BY <1>1, <1>5 DEF DestroyMember, Places
<1>6. CASE Created
  <2>1. PICK i \in held \cap Inferences : i # inference /\ inference' = i
    BY <1>6 DEF Created
  <2>2. \A j \in held \cap Inferences : j # inference => j = i
    BY <1>6, <2>1 DEF Created, Holding, Base, New, Members
  <2>3. /\ at = "create" /\ at' = "wait" /\ i # NoObj
        /\ UNCHANGED <<callVars, enableCycleCounter, arenaVars, status, abandoned>>
    BY <1>6 DEF Created
  <2>4. \A j \in Inferences : Current(j)' <=> Current(j)
    BY <2>1, <2>2, <2>3
  <2> QED  BY <2>3, <2>4
<1>7. CASE CreateFails
  BY <1>7 DEF CreateFails
<1>8. CASE WaitReturns
  BY <1>8 DEF WaitReturns
<1>9. CASE WaitTimesOut \/ WaitThrows
  BY <1>9 DEF WaitTimesOut, WaitThrows
<1>10. CASE CheckStatus
  BY <1>10 DEF CheckStatus, Holding
<1>11. ASSUME NEW d, NEW c, SetInput(d) \/ SetPmuCycleCounters(c) PROVE Fresh'
  BY <1>11 DEF SetInput, SetPmuCycleCounters
<1>12. ASSUME NEW i \in Inferences, NEW f, Invoke(i, f) PROVE Fresh'
  <2>1. ~overlap' => \A j \in Inferences : ~Running(j)
    BY Zenon, <1>12 DEF Invoke
  <2>2. /\ at' = "create" /\ asked' = input /\ ~ok'
        /\ UNCHANGED <<inference, arenaVars, status>>
    BY <1>12 DEF Invoke
  <2>3. \A j \in Inferences : ~Current(j)'
    <3>1. at = "ready" /\ held' = held
      BY <1>12 DEF Invoke, Lib!NewInferenceInArena
    <3>2. held = Members
      BY <3>1 DEF Holding, Base, New
    <3> QED  BY <2>2, <3>1, <3>2 DEF Members
  <2> QED  BY <2>1, <2>2, <2>3
<1>13. ASSUME NEW i \in Inferences, Start(i), ~Ended PROVE Fresh'
  <2>1. \A j \in Inferences : Current(j)' <=> Current(j)
    BY <1>13 DEF Start, libVars
  <2>2. \A j \in Inferences : job'[j] = IF j = i THEN input ELSE job[j]
    BY <1>13 DEF Start, OwnTypes
  <2> QED  BY <1>13, OneCurrent, <2>1, <2>2 DEF Start
<1>14. ASSUME NEW i \in Inferences, Complete(i), ~Ended PROVE Fresh'
  <2>1. \A j \in Inferences : Current(j)' <=> Current(j)
    BY <1>14 DEF Complete, libVars
  <2>2. UNCHANGED <<at, callVars, input, job>>
    BY <1>14 DEF Complete
  <2>3. \A j \in Inferences : j # i => status'[j] = status[j]
    BY <1>14 DEF Complete, OwnTypes
  <2>4. \/ status'[i] = "OK" /\ job[i] # Unread /\ output' = job[i]
        \/ status'[i] \in {"ERROR", "REJECTED"} /\ output' = output
    BY <1>14 DEF Complete, OwnTypes
  <2> QED  BY <1>14, <2>1, <2>2, <2>3, <2>4, OneCurrent DEF Complete
<1>15. CASE LibraryStep
  <2>1. UNCHANGED <<inference, callVars, arenaVars>>
    BY <1>15 DEF LibraryStep
  <2>2. CASE status' = status /\ at' = "terminated" /\ pc' = "terminated" /\ held' = {}
    BY <2>1, <2>2
  <2>3. CASE /\ status' = status /\ at' = at /\ pc' # "InferenceCreate"
             /\ held' \cap Inferences = held \cap Inferences
    BY <2>1, <2>3
  <2>4. CASE /\ at = "create" /\ at' = at /\ pc = "InferenceCreate" /\ pc' = "client"
             /\ obj \in Inferences /\ obj \notin Own /\ obj \notin held
             /\ held' = held \cup {obj} /\ status' = [status EXCEPT ![obj] = "RUNNING"]
    <3>1. \A i \in Inferences : status'[i] = IF i = obj THEN "RUNNING" ELSE status[i]
      BY <2>4 DEF OwnTypes
    <3>2. job[obj] = Unread
      BY <2>4 DEF Creation
    <3>3. \A j \in Inferences : Current(j)' <=> Current(j) \/ j = obj
      BY <2>1, <2>4
    <3> QED  BY <2>1, <2>4, <3>1, <3>2, <3>3
  <2> QED  BY <1>15, <2>2, <2>3, <2>4, CreationEffect
<1>16. CASE UNCHANGED vars
  BY <1>16 DEF vars, libVars
<1> QED
  BY <1>2, <1>3, <1>4, <1>5, <1>6, <1>7, <1>8, <1>9, <1>10, <1>11, <1>12, <1>13, <1>14, <1>15, <1>16
     DEF Next, Client, Step, Firmware, Done

-----------------------------------------------------------------------------
\* The inductive invariant.
IInv == LP!IInv /\ OwnTypes /\ Holding /\ Calling /\ Creation /\ OneUser /\ Fresh

\* The Interpreter does not exist yet.
LEMMA InitIInv == Init => IInv
<1> SUFFICES ASSUME Init PROVE IInv
  OBVIOUS
<1> USE InterpreterAssumption DEF Init, InterpreterAssumption
<1>1. LP!IInv
  BY LibraryInit
<1>2. OwnTypes
  BY DEF OwnTypes, Places, Tensors, Unread
<1>3. pc = "client" /\ held = {} /\ encl = NoObj
  BY DEF Lib!Init
<1>4. Holding /\ Calling
  BY <1>3 DEF Holding, Calling, Base, Making
<1>5. Creation /\ OneUser /\ Fresh
  BY <1>3 DEF Creation, OneUser, Fresh, Running
<1> QED  BY <1>1, <1>2, <1>4, <1>5 DEF IInv

\* The parts are preserved together: the library's part needs the Interpreter to be
\* a correct client, and that needs the library's part.
LEMMA Inductive == IInv /\ [Next]_vars => IInv'
<1> SUFFICES ASSUME IInv, [Next]_vars PROVE IInv'
  OBVIOUS
<1>1. LP!IInv /\ OwnTypes /\ Holding /\ Calling /\ Creation /\ OneUser /\ Fresh
  BY DEF IInv
<1>2. LP!IInv'
  BY <1>1, LibraryAllows, LibraryInductive
<1> QED
  BY <1>1, <1>2, TypeStep, HoldingStep, CreationStep, OneUserStep, FreshStep DEF IInv

\* Hence all parts hold in every state of every behaviour.
LEMMA Invariance == Spec => []IInv
BY InitIInv, Inductive, PTL DEF Spec

-----------------------------------------------------------------------------
\* The Interpreter and the library keep the types of their members.
THEOREM TypeCorrect == Spec => []TypeOK
<1>1. IInv => TypeOK
  BY SameTypes DEF IInv, OwnTypes, LP!IInv, TypeOK
<1> QED  BY <1>1, Invariance, PTL

\* The Interpreter is a correct client of the library: every step of its
\* constructor, of Invoke() and of its destruction is a step DriverLibrary allows,
\* and the Device is closed only when nothing else is alive.
THEOREM ImplementsClient == Spec => LibraryClient
<1>1. Init => Lib!Init
  BY DEF Init
<1>2. IInv /\ [Next]_vars => [Lib!Next]_(Lib!vars)
  BY LibraryAllows DEF IInv
<1> QED  BY <1>1, <1>2, Invariance, PTL DEF Spec, LibraryClient, Lib!Spec

\* An Invoke() that waits until its inference is done has the arena to itself: for
\* any number of inferences, one that runs is the one that Invoke() created last.
THEOREM ArenaOwned == Spec => []ArenaExclusive
<1>1. IInv => ArenaExclusive
  <2> SUFFICES ASSUME IInv, ~Ended, abandoned = {}, NEW i \in Inferences, status[i] = "RUNNING"
               PROVE  /\ at \in {"create", "wait"} /\ i \in held
                      /\ \A j \in Inferences : status[j] = "RUNNING" => j = i
    BY DEF ArenaExclusive
  <2>1. Holding /\ \A j \in Inferences : status[j] = "RUNNING" => Current(j) /\ at # "status"
    BY DEF IInv, OneUser, Running
  <2>2. at \in {"create", "wait"} /\ i \in held
    BY <2>1 DEF Current, Holding, Base, New, Members, Own
  <2> QED  BY <2>1, <2>2, OneCurrent
<1> QED  BY <1>1, Invariance, PTL

\* A successful Invoke() leaves the output of the input it was called with, unless
\* an inference that an earlier Invoke() had abandoned was still running.
THEOREM OutputIsFresh == Spec => []FreshOutput
<1>1. IInv => FreshOutput
  BY DEF IInv, Fresh, Answered, FreshOutput
<1> QED  BY <1>1, Invariance, PTL

\* Reading the counters is safe from the first inference on: an Invoke() that
\* fails to create its inference leaves the previous one in place.
THEOREM CountersReadable == Spec => []CountersSafe
<1>1. IInv => CountersSafe
  BY DEF IInv, Creation, Holding, Current, CountersSafe
<1> QED  BY <1>1, Invariance, PTL

\* Every way out of the constructor and out of the destructor closes all
\* descriptors and unmaps all memory.
THEOREM GoneClean == Spec => []GoneIsClean
<1>1. IInv => GoneIsClean
  <2> SUFFICES ASSUME IInv, at = "gone"
               PROVE  live = {} /\ maps = {} /\ \A f \in Fd : files[f] = "free"
    BY DEF GoneIsClean
  <2>1. held = {} /\ pc = "client"
    BY DEF IInv, Holding, Calling, Base, New, Making
  <2>2. LP!NothingLeftBehind
    BY LibraryAssumptions, LP!AllDropped
       DEF IInv, LP!FdAssumption, LP!ObjectAssumption, LP!CountAssumption
  <2>3. Dev \notin live
    BY <2>1 DEF IInv, LP!IInv, LP!NoGarbage
  <2> QED  BY <2>1, <2>2, <2>3 DEF LP!NothingLeftBehind
<1> QED  BY <1>1, Invariance, PTL

\* What the library promises its clients, it promises the Interpreter: a call that
\* throws inside the constructor or Invoke() leaves no descriptor behind, and every
\* open descriptor has one owner.
THEOREM LibraryPromises == Spec => [](Lib!ThrowIsNeutral /\ Lib!FdOwnership /\ Lib!ReferencedIsLive)
<1>1. Init => LP!Rollback
  BY DEF Init, Lib!Init, LP!Rollback
<1>2. IInv /\ LP!Rollback /\ [Next]_vars => LP!Rollback'
  <2> SUFFICES ASSUME IInv, LP!Rollback, [Next]_vars PROVE LP!Rollback'
    OBVIOUS
  <2>1. LP!IInv /\ [LP!Next]_(LP!vars)
    BY LibraryAllows, SameNext DEF IInv
  <2> QED
    BY <2>1, LibraryAssumptions, LP!RollbackStep
       DEF LP!FdAssumption, LP!ObjectAssumption, LP!CountAssumption
<1>3. IInv /\ LP!Rollback => Lib!ThrowIsNeutral
  <2> SUFFICES ASSUME IInv, LP!Rollback PROVE Lib!ThrowIsNeutral
    OBVIOUS
  <2>1. LP!IInv /\ LP!Rollback => LP!ThrowIsNeutral
    BY LibraryAssumptions, LP!RollbackNeutral
       DEF LP!FdAssumption, LP!ObjectAssumption, LP!CountAssumption
  <2> QED  BY <2>1 DEF IInv, LP!ThrowIsNeutral, Lib!ThrowIsNeutral
<1>4. IInv => Lib!FdOwnership /\ Lib!ReferencedIsLive
  <2>1. LP!FdOwnership <=> Lib!FdOwnership
    BY DEF LP!FdOwnership, LP!Kind, LP!Objects, LP!NoFd, Lib!FdOwnership, Lib!Kind, Lib!Objects, Lib!NoFd
  <2>2. LP!ReferencedIsLive <=> Lib!ReferencedIsLive
    BY DEF LP!ReferencedIsLive, LP!Constructing, Lib!ReferencedIsLive, Lib!Constructing
  <2> QED  BY <2>1, <2>2 DEF IInv, LP!IInv
<1> QED  BY <1>1, <1>2, <1>3, <1>4, Invariance, PTL DEF Spec

=============================================================================
