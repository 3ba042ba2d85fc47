---------------------------- MODULE DriverLibrary ----------------------------
(***************************************************************************)
(* The C++ driver library (driver_library/): the lifetime of its Device,   *)
(* Buffer, Network and Inference objects and of the file descriptors and   *)
(* memory maps they own.                                                   *)
(*                                                                         *)
(* One client thread calls the library.  A call is a sequence of system    *)
(* calls; every system call is one step and every one of them may fail.    *)
(* `pc' is the place in the library code, `obj' the object whose           *)
(* constructor is running and `encl' the Inference whose constructor is    *)
(* running the arena Buffer's constructor.  A failed call throws: the      *)
(* members of the objects under construction are released, and destructors *)
(* run until nothing unreferenced is left (pc = "Release").                *)
(*                                                                         *)
(* Buffers, Networks and Inferences are held through std::shared_ptr, the  *)
(* Device is an automatic or member object of the client.  shared_ptr's    *)
(* destructor is noexcept, so a close or munmap that fails while a shared  *)
(* object is destroyed ends in std::terminate, although the destructors of *)
(* the library are declared noexcept(false).                               *)
(***************************************************************************)
EXTENDS Integers, FiniteSets

CONSTANTS
    Fd,          \* file descriptor numbers the process may use
    Buffers,     \* names for Buffer objects
    Networks,    \* names for Network objects
    Inferences,  \* names for Inference objects
    Dev,         \* the Device object
    NoObj,       \* "no object"
    FdMax        \* ETHOSU_FD_MAX

Objects == Buffers \cup Networks \cup Inferences \cup {Dev}

ASSUME FdAssumption == Fd \subseteq Nat
ASSUME ObjectAssumption ==
    /\ Buffers \cap Networks = {} /\ Buffers \cap Inferences = {}
    /\ Networks \cap Inferences = {}
    /\ Dev \notin Buffers \cup Networks \cup Inferences
    /\ NoObj \notin Objects
ASSUME CountAssumption == FdMax \in Nat /\ IsFiniteSet(Buffers)

VARIABLES
    files,  \* the process's descriptor table: what each number refers to
    maps,   \* Buffers whose memory is mapped
    fd,     \* the member `fd' of each object
    live,   \* objects whose constructor has completed
    refs,   \* the shared_ptr members of each object
    held,   \* objects the client holds
    pc, obj, encl,
    args,   \* number of IFM and OFM buffers of the Inference under construction
    uapi,   \* counts in the last ETHOSU_IOCTL_INFERENCE_CREATE request
    exc,    \* what the last call threw
    snap    \* history: the descriptor table the last call must leave if it throws

objVars == <<maps, live, held>>
callVars == <<uapi, snap>>
vars == <<files, maps, fd, live, refs, held, pc, obj, encl, args, uapi, exc, snap>>

NoFd == -1
NoArgs == [ifm |-> 0, ofm |-> 0]
Kinds == {"device", "buffer", "network", "inference"}
Kind(o) == IF o \in Buffers THEN "buffer"
           ELSE IF o \in Networks THEN "network"
           ELSE IF o \in Inferences THEN "inference" ELSE "device"

Constructing == {obj, encl} \ {NoObj}

\* open() and the CREATE ioctls return the lowest free descriptor.
LowestFree == {f \in Fd : files[f] = "free"
                          /\ \A g \in Fd : files[g] = "free" => f <= g}

\* Mutant: a Network keeps a plain pointer to its Buffer.
GarbageIgnoresNetworks ==
    {o \in live : o \notin held /\ \A p \in live \cap Inferences : o \notin refs[p]}

\* Objects whose last shared_ptr is gone and whose destructor has to run.
Garbage == {o \in live : o \notin held /\ \A p \in live : o \notin refs[p]}

-----------------------------------------------------------------------------
\* System calls.  close() releases the descriptor also when it reports an error.
Open(o) == \E f \in LowestFree :
              /\ files' = [files EXCEPT ![f] = Kind(o)]
              /\ fd' = [fd EXCEPT ![o] = f]

Close(o) == /\ files' = [files EXCEPT ![fd[o]] = "free"]
            /\ fd' = [fd EXCEPT ![o] = NoFd]

\* An exception leaves the constructors that are running: their shared_ptr
\* members are released and the destructors of what they held follow.
Throw(e) == /\ exc' = e
            /\ pc' = "Release"
            /\ obj' = NoObj /\ encl' = NoObj /\ args' = NoArgs
            /\ refs' = [o \in Objects |->
                           IF o \in Constructing THEN {} ELSE refs[o]]

\* The constructor of o completes and the client receives the object.
Return(o) == /\ live' = live \cup {o}
             /\ held' = held \cup {o}
             /\ pc' = "client" /\ exc' = "none"
             /\ obj' = NoObj /\ args' = NoArgs
             /\ UNCHANGED <<refs, encl>>

\* std::terminate: the process is gone and the kernel closes its descriptors.
Terminate == /\ pc' = "terminated"
             /\ files' = [f \in Fd |-> "free"] /\ fd' = [o \in Objects |-> NoFd]
             /\ maps' = {} /\ live' = {} /\ held' = {}
             /\ refs' = [o \in Objects |-> {}]
             /\ obj' = NoObj /\ encl' = NoObj /\ args' = NoArgs

\* The client enters a library call that constructs o with members rs.
Enter(o, rs, loc) == /\ pc = "client" /\ o \notin live
                     /\ refs' = [refs EXCEPT ![o] = rs]
                     /\ pc' = loc
                     /\ snap' = files /\ exc' = "none"

-----------------------------------------------------------------------------
\* Device
DeviceCtor == /\ pc = "client" /\ Dev \notin live
              /\ snap' = files
              /\ \/ /\ Open(Dev)
                    /\ live' = live \cup {Dev} /\ held' = held \cup {Dev}
                    /\ exc' = "none"
                 \/ exc' = "Exception" /\ UNCHANGED <<files, fd, live, held>>
              /\ UNCHANGED <<maps, refs, pc, obj, encl, args, uapi>>

\* The Device is declared before, hence destroyed after, all that uses it.
\* It is no shared object: an error of close() reaches the client.
DeviceDtor == /\ pc = "client" /\ live = {Dev}
              /\ Close(Dev)
              /\ live' = {} /\ held' = {}
              /\ exc' \in {"none", "Exception"}
              /\ snap' = [files EXCEPT ![fd[Dev]] = "free"]
              /\ UNCHANGED <<maps, refs, pc, obj, encl, args, uapi>>

-----------------------------------------------------------------------------
\* Buffer
NewBuffer(b) == /\ Dev \in live
                /\ Enter(b, {}, "BufferCreate")
                /\ obj' = b
                /\ UNCHANGED <<files, maps, fd, live, held, encl, args, uapi>>

BufferCreate == /\ pc = "BufferCreate"
                /\ \/ /\ Open(obj)
                      /\ pc' = "BufferMap"
                      /\ UNCHANGED <<refs, obj, encl, args, exc>>
                   \/ Throw("Exception") /\ UNCHANGED <<files, fd>>
                /\ UNCHANGED <<objVars, callVars>>

BufferMap == /\ pc = "BufferMap"
             /\ maps' = maps \cup {obj}
             /\ \/ encl = NoObj /\ Return(obj)
                \/ /\ encl # NoObj
                   /\ live' = live \cup {obj}
                   /\ refs' = [refs EXCEPT ![encl] = @ \cup {obj}]
                   /\ pc' = "ArenaResize" /\ obj' = encl /\ encl' = NoObj
                   /\ UNCHANGED <<held, args, exc>>
             /\ UNCHANGED <<files, fd, callVars>>

BufferMapFails == /\ pc = "BufferMap"
                  /\ pc' = "BufferClose"
                  /\ UNCHANGED <<files, fd, refs, obj, encl, args, exc, objVars, callVars>>

\* Mutants: the handler of a failed mmap forgets to close; it tries again.
BufferCloseLeaks == /\ pc = "BufferClose"
                    /\ Throw("Exception")
                    /\ UNCHANGED <<files, fd, objVars, callVars>>
BufferCloseRetries == /\ pc = "BufferClose"
                      /\ Close(obj)
                      /\ pc' = "BufferCreate"
                      /\ UNCHANGED <<refs, obj, encl, args, exc, objVars, callVars>>

\* The handler of a failed mmap: close, then rethrow; if close throws as well
\* std::throw_with_nested replaces the Exception.
BufferClose == /\ pc = "BufferClose"
               /\ Close(obj)
               /\ \E e \in {"Exception", "nested"} : Throw(e)
               /\ UNCHANGED <<objVars, callVars>>

-----------------------------------------------------------------------------
\* Network, from a Buffer (rs = {b}) or from an index in the firmware (rs = {}).
NewNetwork(n, rs) == /\ Dev \in live
                     /\ Enter(n, rs, "NetworkCreate")
                     /\ obj' = n
                     /\ UNCHANGED <<files, maps, fd, live, held, encl, args, uapi>>

NetworkCreate == /\ pc = "NetworkCreate"
                 /\ \/ /\ Open(obj)
                       /\ pc' = "NetworkInfo"
                       /\ UNCHANGED <<refs, obj, encl, args, exc>>
                    \/ Throw("Exception") /\ UNCHANGED <<files, fd>>
                 /\ UNCHANGED <<objVars, callVars>>

\* collectNetworkInfo()
NetworkInfo == /\ pc = "NetworkInfo"
               /\ Return(obj)
               /\ UNCHANGED <<files, maps, fd, callVars>>

NetworkInfoFails == /\ pc = "NetworkInfo"
                    /\ pc' = "NetworkClose"
                    /\ UNCHANGED <<files, fd, refs, obj, encl, args, exc, objVars, callVars>>

NetworkClose == /\ pc = "NetworkClose"
                /\ Close(obj)
                /\ \E e \in {"Exception", "nested"} : Throw(e)
                /\ UNCHANGED <<objVars, callVars>>

-----------------------------------------------------------------------------
\* Inference.  Its constructors copy the shared_ptrs first; two of them then
\* construct an arena Buffer b of their own, the third is given one.
NewInference(i, n, ifm, ofm, b) ==
    /\ b \notin live
    /\ Enter(i, {n} \cup ifm \cup ofm, "BufferCreate")
    /\ obj' = b /\ encl' = i
    /\ args' = [ifm |-> Cardinality(ifm), ofm |-> Cardinality(ofm)]
    /\ UNCHANGED <<files, maps, fd, live, held, uapi>>

NewInferenceInArena(i, n, arena) ==
    /\ Enter(i, {n, arena}, "InferenceCreate")
    /\ obj' = i
    /\ args' = NoArgs
    /\ UNCHANGED <<files, maps, fd, live, held, encl, uapi>>

\* "PMU Counters argument to large." is thrown before anything is acquired.
TooManyCounters(i, n) ==
    /\ pc = "client" /\ i \notin live /\ n \in held
    /\ exc' = "Exception" /\ snap' = files
    /\ UNCHANGED <<files, maps, fd, live, refs, held, pc, obj, encl, args, uapi>>

\* Mutant: a failed resize leaves the constructor without releasing the arena.
ArenaResizeKeepsArena ==
    /\ pc = "ArenaResize"
    /\ \/ /\ pc' = "InferenceCreate"
          /\ UNCHANGED <<refs, obj, encl, args, exc>>
       \/ /\ pc' = "client" /\ exc' = "Exception"
          /\ obj' = NoObj /\ args' = NoArgs
          /\ UNCHANGED <<refs, encl>>
    /\ UNCHANGED <<files, fd, objVars, callVars>>

ArenaResize == /\ pc = "ArenaResize"
               /\ \/ /\ pc' = "InferenceCreate"
                     /\ UNCHANGED <<refs, obj, encl, args, exc>>
                  \/ Throw("Exception")
               /\ UNCHANGED <<files, fd, objVars, callVars>>

\* Mutant: the index of the last descriptor is taken for their number.
IfmCountOffByOne == args.ifm - 1

\* The number of descriptors create() puts into ifm_fd: the arena's and one
\* for every IFM buffer.
IfmCount == args.ifm + 1

InferenceOverflow == /\ pc = "InferenceCreate"
                     /\ \/ args.ifm > FdMax
                        \/ args.ofm > FdMax
                     /\ Throw("Exception")
                     /\ UNCHANGED <<files, fd, objVars, callVars>>

InferenceCreate ==
    /\ pc = "InferenceCreate"
    /\ args.ifm <= FdMax /\ args.ofm <= FdMax
    /\ uapi' = [ifm_count |-> IfmCount, ofm_count |-> args.ofm]
    /\ \/ Open(obj) /\ Return(obj)
       \/ Throw("Exception") /\ UNCHANGED <<files, fd, live, held>>
    /\ UNCHANGED <<maps, snap>>

-----------------------------------------------------------------------------
\* Network::getBuffer() and Inference::getNetwork() copy a shared_ptr to the
\* client, also one the client had dropped.
Get(o, p) == /\ pc = "client" /\ o \in held /\ p \in refs[o]
             /\ Networks \cap {o, p} # {}
             /\ held' = held \cup {p}
             /\ snap' = files /\ exc' = "none"
             /\ UNCHANGED <<files, maps, fd, live, refs, pc, obj, encl, args, uapi>>

\* Mutant: a plain pointer is dropped, no destructor runs.
ResetOnly(o) == /\ pc = "client" /\ o \in held \ {Dev}
                /\ held' = held \ {o}
                /\ snap' = files /\ exc' = "none"
                /\ UNCHANGED <<files, maps, fd, live, refs, pc, obj, encl, args, uapi>>

\* The client drops a shared_ptr.
Reset(o) == /\ pc = "client" /\ o \in held \ {Dev}
            /\ held' = held \ {o}
            /\ pc' = "Release"
            /\ snap' = files /\ exc' = "none"
            /\ UNCHANGED <<files, maps, fd, live, refs, obj, encl, args, uapi>>

\* Mutant: ~Buffer closes its descriptor only.
DestroyKeepsMap(o) == /\ pc = "Release" /\ o \in Garbage
                      /\ Close(o)
                      /\ live' = live \ {o}
                      /\ refs' = [refs EXCEPT ![o] = {}]
                      /\ UNCHANGED <<maps, held, pc, obj, encl, args, exc, callVars>>

\* ~Buffer (munmap and close), ~Network and ~Inference (close), then the
\* members of the object are released.
Destroy(o) == /\ pc = "Release" /\ o \in Garbage
              /\ Close(o)
              /\ maps' = maps \ {o} /\ live' = live \ {o}
              /\ refs' = [refs EXCEPT ![o] = {}]
              /\ UNCHANGED <<held, pc, obj, encl, args, exc, callVars>>

\* A destructor throws into shared_ptr's noexcept release.
DestroyFails == /\ pc = "Release" /\ Garbage # {}
                /\ Terminate
                /\ UNCHANGED <<exc, callVars>>

Released == /\ pc = "Release" /\ Garbage = {}
            /\ pc' = "client"
            /\ UNCHANGED <<files, fd, refs, obj, encl, args, exc, objVars, callVars>>

Terminated == pc = "terminated" /\ UNCHANGED vars

-----------------------------------------------------------------------------
Init == /\ files = [f \in Fd |-> "free"] /\ fd = [o \in Objects |-> NoFd]
        /\ maps = {} /\ live = {} /\ held = {}
        /\ refs = [o \in Objects |-> {}]
        /\ pc = "client" /\ obj = NoObj /\ encl = NoObj
        /\ args = NoArgs
        /\ uapi = [ifm_count |-> 0, ofm_count |-> 0]
        /\ exc = "none" /\ snap = [f \in Fd |-> "free"]

\* Steps the client decides on ...
Client == \/ DeviceCtor \/ DeviceDtor
          \/ \E b \in Buffers : NewBuffer(b)
          \/ \E n \in Networks :
                \/ \E b \in held \cap Buffers : NewNetwork(n, {b})
                \/ NewNetwork(n, {})
          \/ \E i \in Inferences, n \in held \cap Networks :
                \/ \E ifm, ofm \in SUBSET (held \cap Buffers), b \in Buffers :
                      NewInference(i, n, ifm, ofm, b)
                \/ \E arena \in held \cap Buffers : NewInferenceInArena(i, n, arena)
                \/ TooManyCounters(i, n)
          \/ \E o, p \in Objects : Get(o, p)
          \/ \E o \in Objects : Reset(o)

\* ... and steps of the library inside a call.
Library == \/ BufferCreate \/ BufferMap \/ BufferMapFails \/ BufferClose
           \/ NetworkCreate \/ NetworkInfo \/ NetworkInfoFails \/ NetworkClose
           \/ ArenaResize \/ InferenceOverflow \/ InferenceCreate
           \/ (\E o \in Objects : Destroy(o)) \/ DestroyFails \/ Released

Next == Client \/ Library \/ Terminated

Spec == Init /\ [][Next]_vars

\* The thread that is inside a call keeps running; the client may stop calling.
FairSpec == Spec /\ WF_vars(Library)
-----------------------------------------------------------------------------
Locations == {"client", "BufferCreate", "BufferMap", "BufferClose",
              "NetworkCreate", "NetworkInfo", "NetworkClose", "ArenaResize",
              "InferenceCreate", "Release", "terminated"}

TypeOK == /\ files \in [Fd -> Kinds \cup {"free"}]
          /\ fd \in [Objects -> Fd \cup {NoFd}]
          /\ maps \subseteq Buffers
          /\ live \subseteq Objects /\ held \subseteq Objects
          /\ refs \in [Objects -> SUBSET Objects]
          /\ pc \in Locations
          /\ obj \in Objects \cup {NoObj} /\ encl \in Inferences \cup {NoObj}
          /\ args \in [ifm : Nat, ofm : Nat]
          /\ uapi \in [ifm_count : Nat, ofm_count : Nat]
          /\ exc \in {"none", "Exception", "nested"}
          /\ snap \in [Fd -> Kinds \cup {"free"}]

\* Every open descriptor is the member fd of exactly one object, an object of
\* its kind that is alive or whose constructor is still running; every live
\* object's descriptor is open.  So no failure path leaks a descriptor, closes
\* one twice or leaves an object with a number the kernel may hand out again.
FdOwnership ==
    /\ \A o \in Objects : fd[o] # NoFd =>
          files[fd[o]] = Kind(o) /\ o \in live \cup {obj}
    /\ \A o, p \in Objects : fd[o] = fd[p] /\ fd[o] # NoFd => o = p
    /\ \A f \in Fd : files[f] # "free" => \E o \in Objects : fd[o] = f
    /\ \A o \in live : fd[o] # NoFd

\* What an object refers to outlives it: the descriptors that the NETWORK_CREATE
\* and INFERENCE_CREATE requests carry belong to objects that still exist, also
\* when the client dropped its own shared_ptr to them long before.
ReferencedIsLive ==
    /\ \A o \in live \cup Constructing : refs[o] \subseteq live
    /\ held \subseteq live

\* A client that has dropped all its shared_ptrs is left with its Device only:
\* no descriptor and no mapping survives in the library.
NothingLeftBehind ==
    pc = "client" /\ held \subseteq {Dev} =>
       /\ live \subseteq {Dev} /\ maps = {}
       /\ \A f \in Fd : files[f] # "free" => Dev \in live /\ fd[Dev] = f

\* A call that throws leaves the descriptor table as it found it, whichever of
\* its system calls failed and however far the constructor had come.
ThrowIsNeutral == pc = "client" /\ exc # "none" => files = snap

\* A mapping never outlives its Buffer, and a Buffer is mapped while it lives.
MapsOfLiveBuffers == maps = live \cap Buffers

\* ETHOSU_FD_MAX is the "Maximum number of IFM/OFM file descriptors per network"
\* (uapi/ethosu.h:66): a request never carries more IFM descriptors than ifm_fd
\* has elements.
IfmFdsFit == uapi.ifm_count <= FdMax

\* Every call returns to the client or ends the process: constructors, exception
\* handlers and the cascade of destructors all come to an end.
CallsReturn == (pc # "client") ~> (pc \in {"client", "terminated"})
=============================================================================
