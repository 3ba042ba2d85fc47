------------------------- MODULE DriverLibrary_proofs -------------------------
(***************************************************************************)
(* Proofs about DriverLibrary, for every set of descriptors and objects.   *)
(***************************************************************************)
EXTENDS DriverLibrary, FiniteSetTheorems, TLAPS

\* Who may refer to whom: Buffers and the Device to nothing, Networks to
\* Buffers, Inferences to Networks and Buffers.  The references are acyclic.
RefKinds ==
    /\ \A o \in Objects : o \notin live \cup Constructing => refs[o] = {}
    /\ \A b \in Buffers \cup {Dev} : refs[b] = {}
    /\ \A n \in Networks : refs[n] \subseteq Buffers
    /\ \A i \in Inferences : refs[i] \subseteq Networks \cup Buffers

\* What is under construction at each place of the library code.
CallState ==
    /\ Constructing \cap live = {}
    /\ pc \in {"client", "Release", "terminated"} => obj = NoObj /\ encl = NoObj
    /\ pc \in {"BufferCreate", "BufferMap", "BufferClose"} => obj \in Buffers
    /\ pc \in {"NetworkCreate", "NetworkInfo", "NetworkClose"} =>
          obj \in Networks /\ encl = NoObj
    /\ pc \in {"ArenaResize", "InferenceCreate"} => obj \in Inferences /\ encl = NoObj
    /\ pc \in {"BufferMap", "BufferClose", "NetworkInfo", "NetworkClose"} =>
          fd[obj] # NoFd
    /\ pc \in {"BufferCreate", "NetworkCreate", "ArenaResize", "InferenceCreate"} =>
          fd[obj] = NoFd

\* A destructor that is due runs before the client gets control again: outside
\* of "Release" every live object is held by the client or by another object,
\* one under construction included.  The Device is never left to a shared_ptr.
NoGarbage ==
    /\ pc # "Release" => \A o \in live :
          o \in held \/ \E p \in live \cup Constructing : o \in refs[p]
    /\ Dev \in live => Dev \in held

IInv == /\ TypeOK /\ FdOwnership /\ ReferencedIsLive /\ MapsOfLiveBuffers
        /\ RefKinds /\ CallState /\ NoGarbage

\* While a constructor runs or an exception is being handled, the descriptor
\* table differs from the one the call found in the descriptors of what the call
\* has acquired so far: the object under construction and its arena.  A live
\* arena that no live object refers to yet is in Garbage.
Rollback ==
    pc \notin {"client", "Release", "terminated"} \/ (exc # "none" /\ pc # "terminated") =>
       /\ Garbage \subseteq Buffers
       /\ \A f \in Fd : snap[f] = IF \E o \in Garbage \cup Constructing : fd[o] = f
                                   THEN "free" ELSE files[f]

-----------------------------------------------------------------------------
\* A new descriptor goes to the object under construction (or to the Device)
\* and to nobody else: open() and the CREATE ioctls keep ownership one-to-one.
LEMMA OpenKeepsOwnership ==
    ASSUME TypeOK, FdOwnership, FdAssumption, ObjectAssumption,
           NEW o \in Objects, fd[o] = NoFd, Open(o),
           obj \in {o, NoObj}, o \in live' \cup {obj'},
           live' \in {live, live \cup {o}}
    PROVE  FdOwnership'
<1>1. PICK f \in Fd : /\ files[f] = "free"
                      /\ files' = [files EXCEPT ![f] = Kind(o)]
                      /\ fd' = [fd EXCEPT ![o] = f]
  BY DEF Open, LowestFree
<1>2. f # NoFd /\ Kind(o) # "free"
  BY FdAssumption DEF NoFd, Kind
<1>3. \A p \in Objects : p # o /\ fd[p] # NoFd => p \in live /\ fd[p] # f /\ fd[p] \in Fd
  <2> SUFFICES ASSUME NEW p \in Objects, p # o, fd[p] # NoFd
               PROVE  p \in live /\ fd[p] # f /\ fd[p] \in Fd
    OBVIOUS
  <2>1. files[fd[p]] = Kind(p) /\ p \in live \cup {obj}
    BY DEF FdOwnership
  <2>2. Kind(p) # "free" /\ NoObj \notin Objects
    BY ObjectAssumption DEF Kind, ObjectAssumption
  <2> QED  BY <2>1, <2>2, <1>1 DEF TypeOK
<1>4. \A p \in Objects : fd'[p] = IF p = o THEN f ELSE fd[p]
  BY <1>1 DEF TypeOK
<1>5. \A g \in Fd : files'[g] = IF g = f THEN Kind(o) ELSE files[g]
  BY <1>1 DEF TypeOK
<1>6. \A p \in Objects : fd'[p] # NoFd =>
         files'[fd'[p]] = Kind(p) /\ p \in live' \cup {obj'}
  <2> SUFFICES ASSUME NEW p \in Objects, fd'[p] # NoFd
               PROVE  files'[fd'[p]] = Kind(p) /\ p \in live' \cup {obj'}
    OBVIOUS
  <2>1. CASE p = o
    BY <1>4, <1>5, <2>1
  <2>2. CASE p # o
    <3>1. fd'[p] = fd[p] /\ p \in live /\ fd[p] # f /\ fd[p] \in Fd
      BY <1>3, <1>4, <2>2
    <3>2. files[fd[p]] = Kind(p)
      BY <3>1 DEF FdOwnership
    <3> QED  BY <1>5, <3>1, <3>2
  <2> QED  BY <2>1, <2>2
<1>7. \A p, q \in Objects : fd'[p] = fd'[q] /\ fd'[p] # NoFd => p = q
  BY <1>3, <1>4 DEF FdOwnership
<1>8. \A g \in Fd : files'[g] # "free" => \E p \in Objects : fd'[p] = g
  <2> SUFFICES ASSUME NEW g \in Fd, files'[g] # "free"
               PROVE  \E p \in Objects : fd'[p] = g
    OBVIOUS
  <2>1. CASE g = f
    BY <2>1, <1>4
  <2>2. CASE g # f
    <3>1. PICK p \in Objects : fd[p] = g
      BY <2>2, <1>5 DEF FdOwnership
    <3>2. p # o
      BY <3>1, FdAssumption DEF NoFd
    <3> QED  BY <3>1, <3>2, <1>4
  <2> QED  BY <2>1, <2>2
<1>9. \A p \in live' : fd'[p] # NoFd
  BY <1>2, <1>4 DEF FdOwnership, TypeOK
<1> QED  BY <1>6, <1>7, <1>8, <1>9 DEF FdOwnership, Kind

\* close() gives up the descriptor of the one object that owned it.
LEMMA CloseKeepsOwnership ==
    ASSUME TypeOK, FdOwnership, FdAssumption, ObjectAssumption,
           NEW o \in Objects, fd[o] # NoFd, Close(o),
           obj \in {o, NoObj}, live' = live \ {o}
    PROVE  FdOwnership'
<1>1. fd[o] \in Fd /\ NoFd \notin Fd
  BY FdAssumption DEF TypeOK, NoFd
<1>2. \A p \in Objects : fd'[p] = IF p = o THEN NoFd ELSE fd[p]
  BY DEF Close, TypeOK
<1>3. \A g \in Fd : files'[g] = IF g = fd[o] THEN "free" ELSE files[g]
  BY DEF Close, TypeOK
<1>4. \A p \in Objects : p # o /\ fd[p] # NoFd => p \in live' /\ fd[p] # fd[o] /\ fd[p] \in Fd
  BY ObjectAssumption DEF FdOwnership, ObjectAssumption, TypeOK
<1>5. \A p \in Objects : fd'[p] # NoFd =>
         files'[fd'[p]] = Kind(p) /\ p \in live' \cup {obj'}
  BY <1>2, <1>3, <1>4 DEF FdOwnership
<1>6. \A p, q \in Objects : fd'[p] = fd'[q] /\ fd'[p] # NoFd => p = q
  BY <1>2, <1>4 DEF FdOwnership
<1>7. \A g \in Fd : files'[g] # "free" => \E p \in Objects : fd'[p] = g
  BY <1>1, <1>2, <1>3 DEF FdOwnership
<1>8. \A p \in live' : fd'[p] # NoFd
  BY <1>2 DEF FdOwnership, TypeOK
<1> QED  BY <1>5, <1>6, <1>7, <1>8 DEF FdOwnership, Kind

\* With the descriptors untouched, ownership only depends on who is alive.
LEMMA SameFilesKeepOwnership ==
    ASSUME TypeOK, FdOwnership, files' = files, fd' = fd,
           live \cup {obj} \subseteq live' \cup {obj'} \/ (live' = live /\ (obj \in Objects => fd[obj] = NoFd)),
           live' = live \/ (live' = live \cup {obj} /\ obj \in Objects /\ fd[obj] # NoFd)
    PROVE  FdOwnership'
BY DEF FdOwnership, Kind

\* Leaving the running constructors by an exception keeps the reference
\* structure: what they held is released, nothing else is touched.
LEMMA ThrowKeepsReferences ==
    ASSUME TypeOK, ReferencedIsLive, RefKinds, CallState, NoGarbage, ObjectAssumption,
           NEW e, Throw(e), live' = live, held' = held
    PROVE  ReferencedIsLive' /\ RefKinds' /\ CallState' /\ NoGarbage'
<1>1. /\ Constructing' = {} /\ pc' = "Release"
      /\ \A o \in Objects : refs'[o] = IF o \in Constructing THEN {} ELSE refs[o]
  BY DEF Throw, Constructing
<1>2. ReferencedIsLive'
  BY <1>1 DEF ReferencedIsLive, TypeOK
<1>3. RefKinds'
  BY <1>1 DEF RefKinds, Objects
<1>4. CallState'
  BY <1>1 DEF CallState, Throw
<1>5. NoGarbage'
  BY <1>1 DEF NoGarbage
<1> QED  BY <1>2, <1>3, <1>4, <1>5

\* The same for its types.
LEMMA ThrowType ==
    ASSUME TypeOK, NEW e \in {"Exception", "nested"}, Throw(e)
    PROVE  /\ refs' \in [Objects -> SUBSET Objects] /\ pc' \in Locations
           /\ obj' \in Objects \cup {NoObj} /\ encl' \in Inferences \cup {NoObj}
           /\ args' \in [ifm : Nat, ofm : Nat]
           /\ exc' \in {"none", "Exception", "nested"}
BY DEF TypeOK, Throw, NoArgs, Locations

\* A constructor that starts refers to live objects of the right kinds only.
LEMMA EnterKeepsReferences ==
    ASSUME TypeOK, ReferencedIsLive, RefKinds, CallState, NoGarbage, ObjectAssumption,
           NEW o \in Objects, NEW rs \in SUBSET live, NEW loc, Enter(o, rs, loc),
           live' = live, held' = held,
           o \in {obj', encl'}, {obj', encl'} \ {NoObj, o} \subseteq Buffers \ live,
           o \in Buffers => rs = {}, o \in Networks => rs \subseteq Buffers,
           o \in Inferences => rs \subseteq Networks \cup Buffers, o # Dev
    PROVE  ReferencedIsLive' /\ RefKinds' /\ NoGarbage'
<1>1. \A p \in Objects : refs'[p] = IF p = o THEN rs ELSE refs[p]
  BY DEF Enter, TypeOK
<1>2. Constructing = {} /\ pc = "client"
  BY DEF Enter, CallState, Constructing
<1>3. Constructing' \subseteq {o} \cup (Buffers \ live) /\ o \in Constructing'
  BY ObjectAssumption DEF Constructing, ObjectAssumption
<1>4. \A p \in Objects : p \notin live => refs[p] = {}
  BY <1>2 DEF RefKinds
<1>5. ReferencedIsLive'
  BY <1>1, <1>2, <1>3, <1>4 DEF ReferencedIsLive, TypeOK, Objects
<1>6. RefKinds'
  BY <1>1, <1>2, <1>3, <1>4, ObjectAssumption DEF RefKinds, Objects, ObjectAssumption
<1>7. NoGarbage'
  BY <1>1, <1>2, <1>4 DEF NoGarbage, Enter, TypeOK
<1> QED  BY <1>5, <1>6, <1>7

\* A constructor that completes: its object becomes live and held.
LEMMA ReturnKeepsReferences ==
    ASSUME TypeOK, ReferencedIsLive, RefKinds, CallState, NoGarbage, ObjectAssumption,
           obj \in Objects, encl = NoObj, Return(obj)
    PROVE  ReferencedIsLive' /\ RefKinds' /\ CallState' /\ NoGarbage'
<1>1. Constructing = {obj} /\ Constructing' = {}
  BY ObjectAssumption DEF Return, Constructing, ObjectAssumption
<1>2. ReferencedIsLive'
  BY <1>1 DEF ReferencedIsLive, Return
<1>3. RefKinds'
  BY <1>1 DEF RefKinds, Return, Objects
<1>4. CallState'
  BY <1>1 DEF CallState, Return
<1>5. pc # "Release"
  BY ObjectAssumption DEF CallState, ObjectAssumption
<1>6. NoGarbage'
  BY <1>1, <1>5 DEF NoGarbage, Return
<1> QED  BY <1>2, <1>3, <1>4, <1>6

-----------------------------------------------------------------------------
\* The initial state: no object, no descriptor, the client about to call.
LEMMA InitIInv == Init => IInv
<1> SUFFICES ASSUME Init PROVE IInv
  OBVIOUS
<1>1. TypeOK
  BY DEF Init, TypeOK, NoFd, NoArgs, Locations
<1>2. FdOwnership
  BY DEF Init, FdOwnership
<1>3. ReferencedIsLive /\ MapsOfLiveBuffers /\ RefKinds /\ CallState /\ NoGarbage
  BY DEF Init, ReferencedIsLive, MapsOfLiveBuffers, RefKinds, CallState, NoGarbage,
         Constructing, Objects
<1> QED  BY <1>1, <1>2, <1>3 DEF IInv

-----------------------------------------------------------------------------
\* The client's steps keep the invariant.
LEMMA ClientStep == IInv /\ Client => IInv'
<1> SUFFICES ASSUME IInv, Client PROVE IInv'
  OBVIOUS
<1> USE FdAssumption, ObjectAssumption DEF IInv
<1>1. ASSUME DeviceCtor PROVE IInv'
  <2>1. TypeOK'
    BY <1>1 DEF DeviceCtor, Open, LowestFree, Kind, Kinds, TypeOK, Objects, Locations
  <2>2. obj = NoObj /\ Dev \in Objects /\ Constructing = {} /\ Constructing' = {} /\ fd[Dev] = NoFd
    BY <1>1 DEF DeviceCtor, CallState, Constructing, Objects, ObjectAssumption, FdOwnership
  <2>3. FdOwnership'
    <3>1. CASE Open(Dev) /\ live' = live \cup {Dev}
      BY <1>1, <2>2, <3>1, OpenKeepsOwnership
    <3>2. CASE files' = files /\ fd' = fd /\ live' = live
      BY <1>1, <2>2, <3>2, SameFilesKeepOwnership DEF DeviceCtor
    <3> QED  BY <1>1, <3>1, <3>2 DEF DeviceCtor
  <2>4. ReferencedIsLive' /\ MapsOfLiveBuffers' /\ RefKinds' /\ CallState' /\ NoGarbage'
    BY <1>1, <2>2 DEF DeviceCtor, ReferencedIsLive, MapsOfLiveBuffers, RefKinds, CallState,
        NoGarbage, ObjectAssumption, Objects
  <2> QED  BY <2>1, <2>3, <2>4
<1>2. ASSUME DeviceDtor PROVE IInv'
  <2>1. TypeOK'
    BY <1>2 DEF DeviceDtor, Close, TypeOK, Objects
  <2>2. obj = NoObj /\ Dev \in Objects /\ Constructing = {} /\ Constructing' = {} /\ fd[Dev] # NoFd
    BY <1>2 DEF DeviceDtor, CallState, Constructing, Objects, FdOwnership
  <2>3. FdOwnership'
    BY <1>2, <2>2, CloseKeepsOwnership DEF DeviceDtor
  <2>4. ReferencedIsLive' /\ MapsOfLiveBuffers' /\ RefKinds' /\ CallState' /\ NoGarbage'
    BY <1>2, <2>2 DEF DeviceDtor, ReferencedIsLive, MapsOfLiveBuffers, RefKinds, CallState, NoGarbage,
        ObjectAssumption
  <2> QED  BY <2>1, <2>3, <2>4
<1>3. ASSUME NEW b \in Buffers, NewBuffer(b) PROVE IInv'
  <2>1. TypeOK'
    BY <1>3 DEF NewBuffer, Enter, TypeOK, Objects, Locations
  <2>2. /\ obj = NoObj /\ encl = NoObj /\ obj' = b /\ encl' = NoObj /\ b \in Objects
        /\ live' = live /\ held' = held /\ b \notin live /\ fd[b] = NoFd
    BY <1>3 DEF NewBuffer, Enter, CallState, Objects, ObjectAssumption, FdOwnership
  <2>3. FdOwnership'
    BY <1>3, <2>2, SameFilesKeepOwnership DEF NewBuffer, ObjectAssumption
  <2>4. Enter(b, {}, "BufferCreate") /\ b # Dev /\ b \notin Networks /\ b \notin Inferences
    BY <1>3 DEF NewBuffer, ObjectAssumption
  <2>5. ReferencedIsLive' /\ RefKinds' /\ NoGarbage'
    BY <2>2, <2>4, EnterKeepsReferences
  <2>6. MapsOfLiveBuffers' /\ CallState'
    BY <1>3, <2>2 DEF NewBuffer, Enter, MapsOfLiveBuffers, CallState, Constructing
  <2> QED  BY <2>1, <2>3, <2>5, <2>6
<1>4. ASSUME NEW n \in Networks, NEW rs, rs = {} \/ (\E b \in held \cap Buffers : rs = {b}),
             NewNetwork(n, rs)
      PROVE  IInv'
  <2>1. rs \subseteq live /\ rs \subseteq Buffers
    BY <1>4 DEF ReferencedIsLive
  <2>2. /\ obj = NoObj /\ encl = NoObj /\ obj' = n /\ encl' = NoObj /\ n \in Objects
        /\ live' = live /\ held' = held /\ n \notin live /\ fd[n] = NoFd
    BY <1>4 DEF NewNetwork, Enter, CallState, Objects, ObjectAssumption, FdOwnership
  <2>3. TypeOK'
    BY <1>4, <2>1, <2>2 DEF NewNetwork, Enter, TypeOK, Locations
  <2>4. FdOwnership'
    BY <1>4, <2>2, SameFilesKeepOwnership DEF NewNetwork, ObjectAssumption
  <2>5. Enter(n, rs, "NetworkCreate") /\ n # Dev /\ n \notin Buffers /\ n \notin Inferences
    BY <1>4 DEF NewNetwork, ObjectAssumption
  <2>6. ReferencedIsLive' /\ RefKinds' /\ NoGarbage'
    BY <2>1, <2>2, <2>5, EnterKeepsReferences
  <2>7. MapsOfLiveBuffers' /\ CallState'
    BY <1>4, <2>2 DEF NewNetwork, Enter, MapsOfLiveBuffers, CallState, Constructing
  <2> QED  BY <2>3, <2>4, <2>6, <2>7
<1>5. ASSUME NEW i \in Inferences, NEW n \in held \cap Networks,
             NEW ifm \in SUBSET (held \cap Buffers), NEW ofm \in SUBSET (held \cap Buffers),
             NEW b \in Buffers, NewInference(i, n, ifm, ofm, b)
      PROVE  IInv'
  <2>1. {n} \cup ifm \cup ofm \subseteq live /\ {n} \cup ifm \cup ofm \subseteq Networks \cup Buffers
    BY DEF ReferencedIsLive
  <2>2. /\ obj = NoObj /\ encl = NoObj /\ obj' = b /\ encl' = i /\ i \in Objects /\ b \in Objects
        /\ live' = live /\ held' = held /\ i \notin live /\ b \notin live /\ fd[b] = NoFd
    BY <1>5 DEF NewInference, Enter, CallState, Objects, ObjectAssumption, FdOwnership
  <2>3. TypeOK'
    <3>1. IsFiniteSet(ifm) /\ IsFiniteSet(ofm)
      BY CountAssumption, FS_Subset DEF CountAssumption
    <3>2. Cardinality(ifm) \in Nat /\ Cardinality(ofm) \in Nat
      BY <3>1, FS_CardinalityType
    <3>3. refs' \in [Objects -> SUBSET Objects] /\ args' \in [ifm : Nat, ofm : Nat]
      BY <1>5, <2>1, <2>2, <3>2 DEF NewInference, Enter, TypeOK
    <3> QED  BY <1>5, <2>2, <3>3 DEF NewInference, Enter, TypeOK, Locations
  <2>4. FdOwnership'
    BY <1>5, <2>2, SameFilesKeepOwnership DEF NewInference, ObjectAssumption
  <2>5. Enter(i, {n} \cup ifm \cup ofm, "BufferCreate") /\ i # Dev /\ i \notin Buffers /\ i \notin Networks
    BY <1>5 DEF NewInference, ObjectAssumption
  <2>6. ReferencedIsLive' /\ RefKinds' /\ NoGarbage'
    BY <2>1, <2>2, <2>5, EnterKeepsReferences
  <2>7. MapsOfLiveBuffers' /\ CallState'
    BY <1>5, <2>2 DEF NewInference, Enter, MapsOfLiveBuffers, CallState, Constructing
  <2> QED  BY <2>3, <2>4, <2>6, <2>7
<1>6. ASSUME NEW i \in Inferences, NEW n \in held \cap Networks,
             NEW arena \in held \cap Buffers, NewInferenceInArena(i, n, arena)
      PROVE  IInv'
  <2>1. {n, arena} \subseteq live /\ {n, arena} \subseteq Networks \cup Buffers
    BY DEF ReferencedIsLive
  <2>2. /\ obj = NoObj /\ encl = NoObj /\ obj' = i /\ encl' = NoObj /\ i \in Objects
        /\ live' = live /\ held' = held /\ i \notin live /\ fd[i] = NoFd
    BY <1>6 DEF NewInferenceInArena, Enter, CallState, Objects, ObjectAssumption, FdOwnership
  <2>3. TypeOK'
    BY <1>6, <2>1, <2>2 DEF NewInferenceInArena, Enter, TypeOK, Locations, NoArgs
  <2>4. FdOwnership'
    BY <1>6, <2>2, SameFilesKeepOwnership DEF NewInferenceInArena, ObjectAssumption
  <2>5. Enter(i, {n, arena}, "InferenceCreate") /\ i # Dev /\ i \notin Buffers /\ i \notin Networks
    BY <1>6 DEF NewInferenceInArena, ObjectAssumption
  <2>6. ReferencedIsLive' /\ RefKinds' /\ NoGarbage'
    BY <2>1, <2>2, <2>5, EnterKeepsReferences
  <2>7. MapsOfLiveBuffers' /\ CallState'
    BY <1>6, <2>2 DEF NewInferenceInArena, Enter, MapsOfLiveBuffers, CallState, Constructing
  <2> QED  BY <2>3, <2>4, <2>6, <2>7
<1>7. ASSUME NEW i \in Inferences, NEW n, TooManyCounters(i, n) PROVE IInv'
  BY <1>7 DEF TooManyCounters, TypeOK, FdOwnership, ReferencedIsLive, MapsOfLiveBuffers, RefKinds,
      CallState, NoGarbage, Constructing, Kind
<1>8. ASSUME NEW o \in Objects, NEW p \in Objects, Get(o, p) PROVE IInv'
  <2>1. p \in live
    BY <1>8 DEF Get, ReferencedIsLive
  <2>2. TypeOK' /\ FdOwnership' /\ MapsOfLiveBuffers' /\ RefKinds' /\ CallState'
    BY <1>8 DEF Get, TypeOK, FdOwnership, MapsOfLiveBuffers, RefKinds, CallState, Constructing, Kind
  <2>3. ReferencedIsLive' /\ NoGarbage'
    BY <1>8, <2>1 DEF Get, ReferencedIsLive, NoGarbage, Constructing
  <2> QED  BY <2>2, <2>3
<1>9. ASSUME NEW o \in Objects, Reset(o) PROVE IInv'
  <2>1. TypeOK' /\ FdOwnership' /\ MapsOfLiveBuffers' /\ RefKinds' /\ ReferencedIsLive'
    BY <1>9 DEF Reset, TypeOK, FdOwnership, MapsOfLiveBuffers, RefKinds, ReferencedIsLive,
        Constructing, Kind, Locations
  <2>2. CallState' /\ NoGarbage'
    BY <1>9 DEF Reset, CallState, NoGarbage, Constructing
  <2> QED  BY <2>1, <2>2
<1> QED
  BY <1>1, <1>2, <1>3, <1>4, <1>5, <1>6, <1>7, <1>8, <1>9 DEF Client

-----------------------------------------------------------------------------
\* A call that throws before it acquired a descriptor keeps the invariant ...
LEMMA ThrowStep ==
    ASSUME IInv, pc \in {"BufferCreate", "NetworkCreate", "ArenaResize", "InferenceCreate"},
           Throw("Exception"), files' = files, fd' = fd, live' = live, held' = held, maps' = maps,
           uapi' \in [ifm_count : Nat, ofm_count : Nat], snap' = snap
    PROVE  IInv'
<1> USE ObjectAssumption DEF IInv
<1>1. TypeOK'
  BY ThrowType DEF TypeOK
<1>2. fd[obj] = NoFd
  BY DEF CallState
<1>3. FdOwnership'
  BY <1>2, SameFilesKeepOwnership
<1>4. ReferencedIsLive' /\ RefKinds' /\ CallState' /\ NoGarbage'
  BY ThrowKeepsReferences
<1> QED  BY <1>1, <1>3, <1>4 DEF MapsOfLiveBuffers

\* ... and so does the handler that closes the new descriptor and rethrows.
LEMMA CloseAndThrowStep ==
    ASSUME IInv, pc \in {"BufferClose", "NetworkClose"}, Close(obj),
           NEW e \in {"Exception", "nested"}, Throw(e), UNCHANGED <<objVars, callVars>>
    PROVE  IInv'
<1> USE FdAssumption, ObjectAssumption DEF IInv
<1>1. obj \in Objects /\ obj \notin live /\ fd[obj] # NoFd
  BY DEF CallState, Constructing, ObjectAssumption, Objects
<1>2. /\ live' = live /\ held' = held /\ maps' = maps /\ uapi' = uapi /\ snap' = snap
      /\ live' = live \ {obj}
  BY <1>1 DEF objVars, callVars
<1>3. TypeOK'
  <2>1. files' \in [Fd -> Kinds \cup {"free"}] /\ fd' \in [Objects -> Fd \cup {NoFd}]
    BY DEF Close, TypeOK
  <2> QED  BY <1>2, <2>1, ThrowType DEF TypeOK
<1>4. FdOwnership'
  BY <1>1, <1>2, CloseKeepsOwnership
<1>5. ReferencedIsLive' /\ RefKinds' /\ CallState' /\ NoGarbage'
  BY <1>2, ThrowKeepsReferences
<1> QED  BY <1>2, <1>3, <1>4, <1>5 DEF MapsOfLiveBuffers

\* The steps inside a call keep the invariant.
LEMMA LibraryStep == IInv /\ Library => IInv'
<1> SUFFICES ASSUME IInv, Library PROVE IInv'
  OBVIOUS
<1> USE FdAssumption, ObjectAssumption DEF IInv
<1>1. ASSUME BufferCreate \/ NetworkCreate PROVE IInv'
  <2>1. /\ pc \in {"BufferCreate", "NetworkCreate"}
        /\ live' = live /\ held' = held /\ maps' = maps /\ uapi' = uapi /\ snap' = snap
    BY <1>1 DEF BufferCreate, NetworkCreate, objVars, callVars
  <2>2. obj \in Objects /\ obj \notin live /\ fd[obj] = NoFd
    BY <2>1 DEF CallState, Constructing, ObjectAssumption, Objects
  <2>3. CASE Throw("Exception") /\ UNCHANGED <<files, fd>>
    BY <2>1, <2>3, ThrowStep DEF TypeOK
  <2>4. CASE /\ Open(obj) /\ UNCHANGED <<refs, obj, encl, args, exc>>
             /\ pc' = IF pc = "BufferCreate" THEN "BufferMap" ELSE "NetworkInfo"
    <3>1. TypeOK'
      BY <2>1, <2>2, <2>4 DEF Open, LowestFree, Kind, Kinds, TypeOK, Locations
    <3>2. FdOwnership'
      BY <2>1, <2>2, <2>4, OpenKeepsOwnership
    <3>3. fd'[obj] # NoFd
      BY <2>2, <2>4 DEF Open, LowestFree, TypeOK, NoFd
    <3>4. CallState'
      BY <2>1, <2>2, <2>4, <3>3 DEF CallState, Constructing
    <3>5. ReferencedIsLive' /\ MapsOfLiveBuffers' /\ RefKinds' /\ NoGarbage'
      BY <2>1, <2>4 DEF ReferencedIsLive, MapsOfLiveBuffers, RefKinds, NoGarbage, Constructing
    <3> QED  BY <3>1, <3>2, <3>4, <3>5
  <2> QED  BY <1>1, <2>3, <2>4 DEF BufferCreate, NetworkCreate
<1>2. ASSUME BufferMap PROVE IInv'
  <2>1. /\ obj \in Buffers /\ obj \in Objects /\ obj \notin live /\ fd[obj] # NoFd
        /\ files' = files /\ fd' = fd /\ uapi' = uapi /\ snap' = snap
        /\ maps' = maps \cup {obj} /\ live' = live \cup {obj} /\ pc = "BufferMap"
    BY <1>2 DEF BufferMap, CallState, Constructing, Objects, ObjectAssumption, callVars, Return
  <2>2. FdOwnership'
    BY <2>1, SameFilesKeepOwnership
  <2>3. MapsOfLiveBuffers'
    BY <2>1 DEF MapsOfLiveBuffers
  <2>4. CASE encl = NoObj /\ Return(obj)
    <3>1. TypeOK'
      BY <2>1, <2>4 DEF Return, TypeOK, Locations, NoArgs
    <3> QED  BY <2>1, <2>2, <2>3, <2>4, <3>1, ReturnKeepsReferences
  <2>5. CASE /\ encl # NoObj /\ refs' = [refs EXCEPT ![encl] = @ \cup {obj}]
             /\ pc' = "ArenaResize" /\ obj' = encl /\ encl' = NoObj /\ UNCHANGED <<held, args, exc>>
    <3>1. /\ encl \in Inferences /\ encl \in Objects /\ encl \notin live /\ encl # obj /\ encl # Dev
          /\ Constructing = {obj, encl} /\ Constructing' = {encl} /\ obj # Dev
      BY <2>1, <2>5 DEF TypeOK, Objects, CallState, Constructing, ObjectAssumption
    <3>2. TypeOK'
      BY <2>1, <2>5, <3>1 DEF TypeOK, Locations
    <3>3. \A o \in Objects : refs'[o] = IF o = encl THEN refs[encl] \cup {obj} ELSE refs[o]
      BY <2>5, <3>1 DEF TypeOK
    <3>4. ReferencedIsLive'
      BY <2>1, <2>5, <3>1, <3>3 DEF ReferencedIsLive, TypeOK
    <3>5. RefKinds'
      BY <2>1, <3>1, <3>3 DEF RefKinds, Objects, ObjectAssumption
    <3>6. fd[encl] = NoFd
      BY <3>1 DEF FdOwnership
    <3>7. CallState'
      BY <2>1, <2>5, <3>1, <3>6 DEF CallState
    <3>8. NoGarbage'
      BY <2>1, <2>5, <3>1, <3>3 DEF NoGarbage, TypeOK
    <3> QED  BY <2>2, <2>3, <3>2, <3>4, <3>5, <3>7, <3>8
  <2> QED  BY <1>2, <2>4, <2>5 DEF BufferMap
<1>3. ASSUME BufferMapFails \/ NetworkInfoFails PROVE IInv'
  BY <1>3 DEF BufferMapFails, NetworkInfoFails, objVars, callVars, TypeOK, FdOwnership, ReferencedIsLive,
      MapsOfLiveBuffers, RefKinds, CallState, NoGarbage, Constructing, Kind, Locations
<1>4. ASSUME BufferClose \/ NetworkClose PROVE IInv'
  BY <1>4, CloseAndThrowStep DEF BufferClose, NetworkClose
<1>5. ASSUME NetworkInfo PROVE IInv'
  <2>1. /\ obj \in Networks /\ obj \in Objects /\ encl = NoObj /\ Return(obj) /\ fd[obj] # NoFd
        /\ files' = files /\ fd' = fd /\ maps' = maps /\ uapi' = uapi /\ snap' = snap
    BY <1>5 DEF NetworkInfo, CallState, Objects, callVars
  <2>2. TypeOK'
    BY <2>1 DEF Return, TypeOK, Locations, NoArgs
  <2>3. FdOwnership'
    BY <2>1, SameFilesKeepOwnership DEF Return
  <2>4. MapsOfLiveBuffers'
    BY <2>1 DEF MapsOfLiveBuffers, Return, ObjectAssumption
  <2> QED  BY <2>1, <2>2, <2>3, <2>4, ReturnKeepsReferences
<1>6. ASSUME ArenaResize PROVE IInv'
  <2>1. CASE Throw("Exception")
    BY <1>6, <2>1, ThrowStep DEF ArenaResize, TypeOK, objVars, callVars
  <2>2. CASE pc' = "InferenceCreate" /\ UNCHANGED <<refs, obj, encl, args, exc>>
    BY <1>6, <2>2 DEF ArenaResize, objVars, callVars, TypeOK, FdOwnership, ReferencedIsLive,
      MapsOfLiveBuffers, RefKinds, CallState, NoGarbage, Constructing, Kind, Locations
  <2> QED  BY <1>6, <2>1, <2>2 DEF ArenaResize
<1>7. ASSUME InferenceOverflow PROVE IInv'
  BY <1>7, ThrowStep DEF InferenceOverflow, TypeOK, objVars, callVars
<1>8. ASSUME InferenceCreate PROVE IInv'
  <2>1. /\ pc = "InferenceCreate" /\ maps' = maps /\ snap' = snap
        /\ uapi' \in [ifm_count : Nat, ofm_count : Nat]
    BY <1>8 DEF InferenceCreate, IfmCount, TypeOK
  <2>2. CASE Throw("Exception") /\ UNCHANGED <<files, fd, live, held>>
    BY <2>1, <2>2, ThrowStep
  <2>3. CASE Open(obj) /\ Return(obj)
    <3>1. obj \in Inferences /\ obj \in Objects /\ encl = NoObj /\ fd[obj] = NoFd /\ live' = live \cup {obj}
      BY <2>1, <2>3 DEF CallState, Objects, Return
    <3>2. TypeOK'
      BY <2>1, <2>3, <3>1 DEF Return, Open, LowestFree, Kind, Kinds, TypeOK, Locations, NoArgs
    <3>3. FdOwnership'
      BY <2>3, <3>1, OpenKeepsOwnership
    <3>4. MapsOfLiveBuffers'
      BY <2>1, <3>1 DEF MapsOfLiveBuffers, ObjectAssumption
    <3> QED  BY <2>3, <3>1, <3>2, <3>3, <3>4, ReturnKeepsReferences
  <2> QED  BY <1>8, <2>2, <2>3 DEF InferenceCreate
<1>9. ASSUME NEW o \in Objects, Destroy(o) PROVE IInv'
  <2>1. /\ o \in live /\ o \notin held /\ pc = "Release" /\ obj = NoObj /\ Constructing = {} /\ fd[o] # NoFd
        /\ \A p \in live : o \notin refs[p]
        /\ live' = live \ {o} /\ maps' = maps \ {o} /\ o # Dev /\ Constructing' = {}
        /\ \A p \in Objects : refs'[p] = IF p = o THEN {} ELSE refs[p]
    BY <1>9 DEF Destroy, Garbage, CallState, Constructing, FdOwnership, NoGarbage, TypeOK
  <2>2. TypeOK'
    BY <1>9 DEF Destroy, Close, TypeOK, callVars
  <2>3. FdOwnership'
    BY <1>9, <2>1, CloseKeepsOwnership DEF Destroy
  <2>4. ReferencedIsLive' /\ MapsOfLiveBuffers'
    BY <1>9, <2>1 DEF Destroy, ReferencedIsLive, MapsOfLiveBuffers, TypeOK
  <2>5. RefKinds'
    BY <2>1 DEF RefKinds, Objects
  <2>6. CallState' /\ NoGarbage'
    BY <1>9, <2>1 DEF Destroy, CallState, NoGarbage
  <2> QED  BY <2>2, <2>3, <2>4, <2>5, <2>6
<1>10. ASSUME DestroyFails PROVE IInv'
  <2>1. TypeOK'
    BY <1>10 DEF DestroyFails, Terminate, TypeOK, NoArgs, Locations, callVars
  <2>2. FdOwnership' /\ ReferencedIsLive' /\ MapsOfLiveBuffers' /\ RefKinds' /\ CallState' /\ NoGarbage'
    BY <1>10 DEF DestroyFails, Terminate, FdOwnership, ReferencedIsLive, MapsOfLiveBuffers, RefKinds,
        CallState, NoGarbage, Constructing, Objects
  <2> QED  BY <2>1, <2>2
<1>11. ASSUME Released PROVE IInv'
  <2>1. NoGarbage'
    BY <1>11 DEF Released, Garbage, NoGarbage, objVars
  <2> QED
    BY <1>11, <2>1 DEF Released, objVars, callVars, TypeOK, FdOwnership, ReferencedIsLive,
        MapsOfLiveBuffers, RefKinds, CallState, Constructing, Kind, Locations
<1> QED
  BY <1>1, <1>2, <1>3, <1>4, <1>5, <1>6, <1>7, <1>8, <1>9, <1>10, <1>11 DEF Library

-----------------------------------------------------------------------------
\* The invariant is inductive.
LEMMA Inductive == IInv /\ [Next]_vars => IInv'
<1>1. IInv /\ UNCHANGED vars => IInv'
  BY DEF IInv, vars, TypeOK, FdOwnership, ReferencedIsLive, MapsOfLiveBuffers, RefKinds, CallState,
      NoGarbage, Constructing, Kind
<1> QED  BY <1>1, ClientStep, LibraryStep DEF Next, Terminated

\* The members, descriptors and counts of the library keep their types
\* (ethosu.hpp's class declarations) on every path.
THEOREM TypeCorrect == Spec => []TypeOK
<1>1. IInv => TypeOK
  BY DEF IInv
<1> QED  BY <1>1, InitIInv, Inductive, PTL DEF Spec

\* No constructor, destructor or exception path of ethosu.cpp leaks, shares or
\* double-closes a descriptor, for any number of objects and descriptors.
THEOREM DescriptorsOwned == Spec => []FdOwnership
<1>1. IInv => FdOwnership
  BY DEF IInv
<1> QED  BY <1>1, InitIInv, Inductive, PTL DEF Spec

\* The shared_ptr members of Network and Inference keep what they refer to
\* alive, whatever the client drops and whichever call fails.
THEOREM ReferencesLive == Spec => []ReferencedIsLive
<1>1. IInv => ReferencedIsLive
  BY DEF IInv
<1> QED  BY <1>1, InitIInv, Inductive, PTL DEF Spec

\* A Buffer's memory is mapped exactly while the Buffer exists.
THEOREM MapsOwned == Spec => []MapsOfLiveBuffers
<1>1. IInv => MapsOfLiveBuffers
  BY DEF IInv
<1> QED  BY <1>1, InitIInv, Inductive, PTL DEF Spec

\* Since references are acyclic, nothing is live once the client holds nothing but
\* its Device: an Inference would need a holder, then a Network, then a Buffer.
LEMMA AllDropped == IInv => NothingLeftBehind
<1> SUFFICES ASSUME IInv, pc = "client", held \subseteq {Dev}
             PROVE  /\ live \subseteq {Dev} /\ maps = {}
                    /\ \A f \in Fd : files[f] # "free" => Dev \in live /\ fd[Dev] = f
  BY DEF NothingLeftBehind
<1> USE ObjectAssumption DEF IInv
<1>1. /\ Constructing = {} /\ obj = NoObj
      /\ \A o \in live : o = Dev \/ \E p \in live : o \in refs[p]
  BY DEF NoGarbage, CallState, Constructing
<1>2. live \cap Inferences = {}
  BY <1>1 DEF RefKinds, ObjectAssumption, TypeOK, Objects
<1>3. live \cap Networks = {}
  BY <1>1, <1>2 DEF RefKinds, ObjectAssumption, TypeOK, Objects
<1>4. live \cap Buffers = {}
  BY <1>1, <1>2, <1>3 DEF RefKinds, ObjectAssumption, TypeOK, Objects
<1>5. live \subseteq {Dev} /\ maps = {}
  BY <1>2, <1>3, <1>4 DEF TypeOK, Objects, MapsOfLiveBuffers
<1>6. \A o \in Objects : fd[o] # NoFd => o \in live
  BY <1>1 DEF FdOwnership, ObjectAssumption
<1>7. \A f \in Fd : f # NoFd
  BY FdAssumption DEF NoFd
<1> QED  BY <1>5, <1>6, <1>7 DEF FdOwnership

\* A client that holds nothing but its Device has left nothing behind: every
\* destructor has run and closed its descriptor.
THEOREM NoLeak == Spec => []NothingLeftBehind
BY AllDropped, InitIInv, Inductive, PTL DEF Spec

-----------------------------------------------------------------------------
\* Between calls there is nothing to roll back.
LEMMA ClientHasNoGarbage ==
    IInv /\ pc = "client" => Garbage = {} /\ Constructing = {} /\ obj = NoObj
BY DEF IInv, NoGarbage, CallState, Constructing, Garbage

\* Only the object under construction may have a descriptor, not the Inference
\* whose arena is being constructed.
LEMMA EnclosingHasNoFd ==
    ASSUME IInv, encl # NoObj PROVE encl \in Objects /\ fd[encl] = NoFd /\ encl # obj
BY ObjectAssumption DEF IInv, CallState, FdOwnership, Constructing, TypeOK, Objects, ObjectAssumption, Locations

\* Throwing without a descriptor of its own acquired so far.
LEMMA ThrowRollsBack ==
    ASSUME IInv, Rollback, pc \in {"BufferCreate", "NetworkCreate", "ArenaResize", "InferenceCreate"},
           Throw("Exception"), files' = files, fd' = fd, live' = live, held' = held, snap' = snap
    PROVE  Rollback'
<1>1. Garbage' = Garbage /\ Constructing' = {}
  <2>1. \A o \in live : refs'[o] = refs[o]
    BY DEF Throw, IInv, CallState, TypeOK
  <2> QED  BY <2>1 DEF Garbage, Throw, Constructing
<1>2. \A o \in Constructing : fd[o] = NoFd
  BY EnclosingHasNoFd DEF IInv, CallState, Constructing
<1>3. \A f \in Fd : f # NoFd
  BY FdAssumption DEF FdAssumption, NoFd
<1> QED  BY <1>1, <1>2, <1>3 DEF Rollback

\* Closing the new descriptor restores the entry that the call found.
LEMMA CloseRollsBack ==
    ASSUME IInv, Rollback, pc \in {"BufferClose", "NetworkClose"}, Close(obj),
           NEW e \in {"Exception", "nested"}, Throw(e), live' = live, held' = held, snap' = snap
    PROVE  Rollback'
<1>1. Garbage' = Garbage /\ Constructing' = {}
  <2>1. \A o \in live : refs'[o] = refs[o]
    BY DEF Throw, IInv, CallState, TypeOK
  <2> QED  BY <2>1 DEF Garbage, Throw, Constructing
<1>2. /\ obj \in Objects /\ obj \notin Garbage /\ obj \in Constructing /\ fd[obj] \in Fd
  BY ObjectAssumption DEF IInv, CallState, Constructing, TypeOK, Objects, ObjectAssumption, Garbage, NoFd
<1>3. /\ \A o \in Objects : fd'[o] = IF o = obj THEN NoFd ELSE fd[o]
      /\ \A g \in Fd : files'[g] = IF g = fd[obj] THEN "free" ELSE files[g]
  BY <1>2 DEF Close, IInv, TypeOK
<1>4. \A o \in Constructing : o # obj => fd[o] = NoFd
  BY EnclosingHasNoFd DEF Constructing
<1>5. Garbage \subseteq Objects /\ \A f \in Fd : f # NoFd
  BY FdAssumption DEF FdAssumption, NoFd, Garbage, IInv, TypeOK
<1>6. /\ Garbage \subseteq Buffers
      /\ \A f \in Fd : snap[f] = IF \E o \in Garbage \cup Constructing : fd[o] = f THEN "free" ELSE files[f]
  BY DEF Rollback
<1>7. \A f \in Fd : snap[f] = IF \E o \in Garbage : fd'[o] = f THEN "free" ELSE files'[f]
  BY <1>2, <1>3, <1>4, <1>5, <1>6
<1> QED  BY <1>1, <1>6, <1>7 DEF Rollback

\* Every step keeps Rollback, given the invariant proved above.
LEMMA RollbackStep == IInv /\ Rollback /\ [Next]_vars => Rollback'
<1> SUFFICES ASSUME IInv, Rollback, [Next]_vars PROVE Rollback'
  OBVIOUS
<1>f. \A f \in Fd : f # NoFd
  BY FdAssumption DEF FdAssumption, NoFd
<1>1. ASSUME NEW o \in Objects, NEW rs, NEW loc, Enter(o, rs, loc), UNCHANGED <<files, fd, live, held>>,
             \A p \in Constructing' : p \in Objects /\ p \notin live
      PROVE  Rollback'
  <2>1. Garbage = {} /\ Constructing = {} /\ obj = NoObj
    BY <1>1, ClientHasNoGarbage DEF Enter
  <2>2. \A p \in live : refs'[p] = refs[p]
    BY <1>1 DEF Enter, IInv, TypeOK
  <2>3. Garbage' = {}
    BY <1>1, <2>1, <2>2 DEF Garbage
  <2>4. \A p \in Constructing' : fd'[p] = NoFd
    BY <1>1, <2>1, ObjectAssumption DEF IInv, FdOwnership, ObjectAssumption
  <2> QED  BY <1>1, <1>f, <2>3, <2>4 DEF Rollback, Enter
<1>2. CASE Client
  <2>1. CASE DeviceCtor
    <3>1. CASE exc' = "none"
      BY <2>1, <3>1, ClientHasNoGarbage DEF DeviceCtor, Rollback
    <3>2. CASE UNCHANGED <<files, fd, live, held>>
      BY <2>1, <3>2, ClientHasNoGarbage DEF DeviceCtor, Rollback, Garbage, Constructing
    <3> QED  BY <2>1, <3>1, <3>2 DEF DeviceCtor
  <2>2. CASE DeviceDtor
    BY <2>2, ClientHasNoGarbage DEF DeviceDtor, Close, Rollback, Garbage, Constructing
  <2>3. ASSUME NEW b \in Buffers, NewBuffer(b) PROVE Rollback'
    BY <2>3, <1>1, ClientHasNoGarbage DEF NewBuffer, Enter, Objects, Constructing
  <2>4. ASSUME NEW n \in Networks, NEW rs, NewNetwork(n, rs) PROVE Rollback'
    BY <2>4, <1>1, ClientHasNoGarbage DEF NewNetwork, Enter, Objects, Constructing
  <2>5. ASSUME NEW i \in Inferences, NEW n, NEW ifm, NEW ofm, NEW b \in Buffers,
               NewInference(i, n, ifm, ofm, b)
        PROVE  Rollback'
    BY <2>5, <1>1 DEF NewInference, Enter, Objects, Constructing
  <2>6. ASSUME NEW i \in Inferences, NEW n, NEW arena, NewInferenceInArena(i, n, arena) PROVE Rollback'
    BY <2>6, <1>1, ClientHasNoGarbage DEF NewInferenceInArena, Enter, Objects, Constructing
  <2>7. ASSUME NEW i, NEW n, TooManyCounters(i, n) PROVE Rollback'
    BY <2>7, ClientHasNoGarbage DEF TooManyCounters, Rollback, Garbage, Constructing
  <2>8. ASSUME NEW o, NEW p, Get(o, p) PROVE Rollback'
    BY <2>8 DEF Get, Rollback
  <2>9. ASSUME NEW o, Reset(o) PROVE Rollback'
    BY <2>9 DEF Reset, Rollback
  <2> QED  BY <1>2, <2>1, <2>2, <2>3, <2>4, <2>5, <2>6, <2>7, <2>8, <2>9 DEF Client
<1>3. CASE Library
  <2>1. ASSUME BufferCreate \/ NetworkCreate PROVE Rollback'
    <3>1. /\ pc \in {"BufferCreate", "NetworkCreate"}
          /\ live' = live /\ held' = held /\ snap' = snap
      BY <2>1 DEF BufferCreate, NetworkCreate, objVars, callVars
    <3>2. CASE Throw("Exception") /\ UNCHANGED <<files, fd>>
      BY <3>1, <3>2, ThrowRollsBack
    <3>3. CASE /\ Open(obj) /\ UNCHANGED <<refs, obj, encl, args, exc>>
               /\ pc' = IF pc = "BufferCreate" THEN "BufferMap" ELSE "NetworkInfo"
      <4>1. Garbage' = Garbage /\ Constructing' = Constructing /\ Garbage \subseteq Objects
        BY <3>1, <3>3 DEF Garbage, Constructing, IInv, TypeOK
      <4>2. obj \in Objects /\ obj \in Constructing /\ obj \notin Garbage /\ fd[obj] = NoFd
        BY <3>1, ObjectAssumption DEF IInv, CallState, Constructing, Objects, ObjectAssumption, Garbage
      <4>3. PICK f \in Fd : /\ files[f] = "free" /\ fd' = [fd EXCEPT ![obj] = f]
                            /\ files' = [files EXCEPT ![f] = Kind(obj)]
        BY <3>3 DEF Open, LowestFree
      <4>4. \A o \in Garbage \cup Constructing : o \in Objects
        BY <4>1, <4>2, EnclosingHasNoFd DEF Constructing
      <4>5. \A o \in Objects : fd'[o] = IF o = obj THEN f ELSE fd[o]
        BY <4>2, <4>3 DEF IInv, TypeOK
      <4>6. \A g \in Fd : files'[g] = IF g = f THEN Kind(obj) ELSE files[g]
        BY <4>3 DEF IInv, TypeOK
      <4> QED  BY <1>f, <3>1, <4>1, <4>2, <4>3, <4>4, <4>5, <4>6 DEF Rollback
    <3> QED  BY <2>1, <3>2, <3>3 DEF BufferCreate, NetworkCreate
  <2>2. ASSUME BufferMap PROVE Rollback'
    <3>1. CASE encl = NoObj
      BY <2>2, <3>1 DEF BufferMap, Return, Rollback
    <3>2. CASE encl # NoObj
      <4>1. /\ obj \in Buffers /\ obj \in Objects /\ obj \notin live /\ encl \in Inferences /\ encl \in Objects
            /\ encl \notin live /\ Constructing = {obj, encl} /\ Constructing' = {encl} /\ NoObj \notin Objects
            /\ files' = files /\ fd' = fd /\ snap' = snap /\ held' = held /\ live' = live \cup {obj}
            /\ pc = "BufferMap"
        BY <2>2, <3>2, ObjectAssumption
           DEF BufferMap, IInv, TypeOK, CallState, Constructing, Objects, ObjectAssumption, callVars
      <4>2. /\ \A p \in live : refs'[p] = refs[p]
            /\ refs'[obj] = {} /\ obj # encl
        BY <2>2, <3>2, <4>1, EnclosingHasNoFd DEF BufferMap, IInv, RefKinds, TypeOK
      <4>3. obj \notin held /\ \A p \in live : obj \notin refs[p]
        BY <4>1 DEF IInv, ReferencedIsLive
      <4>4. Garbage' = Garbage \cup {obj}
        BY <4>1, <4>2, <4>3 DEF Garbage
      <4> QED  BY <4>1, <4>4 DEF Rollback
    <3> QED  BY <3>1, <3>2
  <2>3. ASSUME BufferMapFails \/ NetworkInfoFails PROVE Rollback'
    BY <2>3 DEF BufferMapFails, NetworkInfoFails, Rollback, Garbage, Constructing, objVars, callVars
  <2>4. ASSUME BufferClose \/ NetworkClose PROVE Rollback'
    BY <2>4, CloseRollsBack DEF BufferClose, NetworkClose, objVars, callVars
  <2>5. ASSUME NetworkInfo PROVE Rollback'
    BY <2>5 DEF NetworkInfo, Return, Rollback
  <2>6. ASSUME ArenaResize PROVE Rollback'
    <3>1. CASE Throw("Exception")
      BY <2>6, <3>1, ThrowRollsBack DEF ArenaResize, objVars, callVars
    <3>2. CASE pc' = "InferenceCreate" /\ UNCHANGED <<refs, obj, encl, args, exc>>
      BY <2>6, <3>2 DEF ArenaResize, Rollback, Garbage, Constructing, objVars, callVars
    <3> QED  BY <2>6, <3>1, <3>2 DEF ArenaResize
  <2>7. ASSUME InferenceOverflow PROVE Rollback'
    BY <2>7, ThrowRollsBack DEF InferenceOverflow, objVars, callVars
  <2>8. ASSUME InferenceCreate PROVE Rollback'
    <3>1. CASE Return(obj)
      BY <3>1 DEF Return, Rollback
    <3>2. CASE Throw("Exception") /\ UNCHANGED <<files, fd, live, held>>
      BY <2>8, <3>2, ThrowRollsBack DEF InferenceCreate
    <3> QED  BY <2>8, <3>1, <3>2 DEF InferenceCreate
  <2>9. ASSUME NEW o \in Objects, Destroy(o) PROVE Rollback'
    <3>1. CASE exc = "none"
      BY <2>9, <3>1 DEF Destroy, Rollback
    <3>2. CASE exc # "none"
      <4>1. /\ o \in Garbage /\ o \in Buffers /\ Garbage \subseteq Buffers /\ Garbage \subseteq Objects
            /\ refs[o] = {} /\ fd[o] \in Fd /\ Constructing = {} /\ Constructing' = {}
            /\ live' = live \ {o} /\ held' = held /\ snap' = snap /\ refs' = refs
            /\ \A f \in Fd : snap[f] = IF \E p \in Garbage : fd[p] = f THEN "free" ELSE files[f]
        BY <2>9, <3>2 DEF Destroy, Rollback, Garbage, IInv, RefKinds, FdOwnership, CallState, Constructing,
            TypeOK, callVars, NoFd
      <4>2. Garbage' = Garbage \ {o}
        BY <4>1 DEF Garbage
      <4>3. /\ \A p \in Objects : fd'[p] = IF p = o THEN NoFd ELSE fd[p]
            /\ \A g \in Fd : files'[g] = IF g = fd[o] THEN "free" ELSE files[g]
        BY <2>9, <4>1 DEF Destroy, Close, IInv, TypeOK
      <4>4. \A f \in Fd : snap[f] = IF \E p \in Garbage \ {o} : fd'[p] = f THEN "free" ELSE files'[f]
        BY <1>f, <4>1, <4>3
      <4> QED  BY <4>1, <4>2, <4>4 DEF Rollback
    <3> QED  BY <3>1, <3>2
  <2>10. ASSUME DestroyFails PROVE Rollback'
    BY <2>10 DEF DestroyFails, Terminate, Rollback
  <2>11. ASSUME Released PROVE Rollback'
    BY <2>11 DEF Released, Rollback, Garbage, Constructing, objVars, callVars
  <2> QED  BY <1>3, <2>1, <2>2, <2>3, <2>4, <2>5, <2>6, <2>7, <2>8, <2>9, <2>10, <2>11 DEF Library
<1>4. CASE UNCHANGED vars
  BY <1>4 DEF vars, Rollback, Garbage, Constructing
<1> QED  BY <1>2, <1>3, <1>4 DEF Next, Terminated

\* Back in the client, nothing is left to roll back.
LEMMA RollbackNeutral == IInv /\ Rollback => ThrowIsNeutral
<1> SUFFICES ASSUME IInv, Rollback, pc = "client", exc # "none" PROVE files = snap
  BY DEF ThrowIsNeutral
<1>1. \A f \in Fd : snap[f] = files[f]
  BY ClientHasNoGarbage DEF Rollback
<1> QED  BY <1>1 DEF IInv, TypeOK

\* Strong exception safety: a library call that throws leaves the process's
\* descriptor table exactly as it found it, whichever system call failed.
THEOREM ExceptionSafe == Spec => []ThrowIsNeutral
<1>1. Init => Rollback
  BY DEF Init, Rollback
<1> QED  BY <1>1, RollbackNeutral, InitIInv, Inductive, RollbackStep, PTL DEF Spec
===============================================================================
