----------------------------- MODULE Interpreter -----------------------------
(***************************************************************************)
(* The class Interpreter of the driver library: one network, one arena     *)
(* Buffer that holds all tensors, and one Inference per Invoke().          *)
(*                                                                         *)
(* The module composes three parties.  The Interpreter (variable `at')     *)
(* constructs, uses and destroys library objects: it is the client of      *)
(* DriverLibrary, whose steps interleave with it.  Its own client calls    *)
(* it in any order while at = "ready".  Kernel driver and firmware run the *)
(* inferences; they read and write the arena for as long as an inference   *)
(* is RUNNING, whatever became of the Inference object.                    *)
(*                                                                         *)
(* Inputs are numbered, and an output is the number of the input it was    *)
(* computed from.                                                          *)
(***************************************************************************)
EXTENDS Integers, FiniteSets

CONSTANTS
    Fd, networkBuffer, arenaBuffer, network, Inferences, Dev, NoObj,
    FdMax,
    MaxInput  \* number of distinct inputs

ASSUME InterpreterAssumption ==
    /\ Fd \subseteq Nat /\ FdMax \in Nat /\ MaxInput \in Nat
    /\ networkBuffer # arenaBuffer /\ network \notin {networkBuffer, arenaBuffer}
    /\ Dev \notin {networkBuffer, arenaBuffer, network} \cup Inferences
    /\ {networkBuffer, arenaBuffer, network} \cap Inferences = {}
    /\ NoObj \notin {networkBuffer, arenaBuffer, network, Dev} \cup Inferences

VARIABLES
    files, maps, fd, live, refs, held, pc, obj, encl, args, uapi, exc, snap, \* DriverLibrary
    at,         \* place in the Interpreter
    inference,  \* member inference
    enableCycleCounter, \* the values the member may have: any, until it is set
    forever,    \* the timeout of the current Invoke() is negative
    ok,         \* the last Invoke() returned
    status,     \* kernel: status of each inference, "none" before its creation
    input, output, \* the tensors in the arena
    job,        \* firmware: the input an inference is computed from
    cycle_count,\* pmu_config.cycle_count of the last request
    asked,      \* history: the input of the last Invoke()
    overlap,    \* history: another inference was RUNNING when the last Invoke() began
    abandoned   \* history: inferences that Invoke() stopped waiting for

libVars == <<files, maps, fd, live, refs, held, pc, obj, encl, args, uapi, exc, snap>>
callVars == <<forever, ok, asked, overlap, cycle_count>>
arenaVars == <<input, output, job>>
vars == <<libVars, at, inference, callVars, enableCycleCounter, arenaVars, status, abandoned>>

Lib == INSTANCE DriverLibrary WITH
          Buffers <- {networkBuffer, arenaBuffer}, Networks <- {network}

NoInput == 0  \* the client has not set one
Partial == -1 \* an output that is being computed
Unread == -1  \* the firmware has not yet read its input

Init == /\ Lib!Init
        /\ at = "device" /\ inference = NoObj
        /\ enableCycleCounter = BOOLEAN
        /\ forever = FALSE /\ ok = FALSE /\ asked = NoInput /\ overlap = FALSE
        /\ cycle_count = FALSE
        /\ status = [i \in Inferences |-> "none"]
        /\ input = NoInput /\ output = NoInput /\ job = [i \in Inferences |-> Unread]
        /\ abandoned = {}

\* The Interpreter goes on at one of the places; nothing else changes but the library.
Goto(places) == /\ at' \in places
                /\ UNCHANGED <<inference, callVars, enableCycleCounter, arenaVars, status, abandoned>>

-----------------------------------------------------------------------------
\* A step of the library inside a call.  A created inference is RUNNING.
LibraryStep ==
    /\ Lib!Library
    /\ at' = IF pc' = "terminated" THEN "terminated" ELSE at
    /\ status' = IF pc = "InferenceCreate" /\ obj \in live'
                 THEN [status EXCEPT ![obj] = "RUNNING"] ELSE status
    /\ UNCHANGED <<inference, callVars, enableCycleCounter, arenaVars, abandoned>>

-----------------------------------------------------------------------------
\* The constructor.  An exception destroys the members that were constructed.
OpenDevice == /\ at = "device"
              /\ Lib!DeviceCtor
              /\ Goto({IF Dev \in live' THEN "capabilities" ELSE "gone"})

\* The capabilities request and the model file.
OpenModel == /\ at = "capabilities"
             /\ Goto({"networkBuffer", "unwind"})
             /\ UNCHANGED libVars

NewNetworkBuffer == /\ at = "networkBuffer"
                    /\ Lib!NewBuffer(networkBuffer)
                    /\ Goto({"fill"})

\* resize(), data() and the read from the file.
FillNetworkBuffer == /\ at = "fill" /\ pc = "client"
                     /\ Goto(IF networkBuffer \in held THEN {"network", "unwind"} ELSE {"unwind"})
                     /\ UNCHANGED libVars

\* Mutant: the network is constructed from a buffer that does not exist yet.
NewNetworkInArena == /\ at = "network"
                     /\ Lib!NewNetwork(network, {arenaBuffer})
                     /\ Goto({"vela"})

NewNetwork == /\ at = "network"
              /\ Lib!NewNetwork(network, {networkBuffer})
              /\ Goto({"vela"})

\* Mutant: a model that is not supported is given up without unwinding.
CheckVelaGivesUp == /\ at = "vela" /\ pc = "client"
                    /\ Goto(IF network \in held THEN {"arena", "gone"} ELSE {"unwind"})
                    /\ UNCHANGED libVars

\* "Only support models compiled by vela."
CheckVela == /\ at = "vela" /\ pc = "client"
             /\ Goto(IF network \in held THEN {"arena", "unwind"} ELSE {"unwind"})
             /\ UNCHANGED libVars

NewArena == /\ at = "arena"
            /\ Lib!NewBuffer(arenaBuffer)
            /\ Goto({"resize"})

ResizeArena == /\ at = "resize" /\ pc = "client"
               /\ Goto(IF arenaBuffer \in held THEN {"ready", "unwind"} ELSE {"unwind"})
               /\ UNCHANGED libVars

-----------------------------------------------------------------------------
\* The order in which the members are declared; they are destroyed in reverse.
Declared(o) == CASE o = Dev -> 1
                 [] o = networkBuffer -> 2
                 [] o = arenaBuffer -> 3
                 [] o = network -> 4
                 [] o \in Inferences -> 5

DestroyedNext(o) == o \in held /\ \A p \in held : Declared(p) <= Declared(o)

\* The client destroys the Interpreter.
Destroy == /\ at = "ready"
           /\ Goto({"unwind"})
           /\ UNCHANGED libVars

DestroyMember(o) == /\ at = "unwind" /\ pc = "client"
                    /\ DestroyedNext(o)
                    /\ Lib!Reset(o)
                    /\ Goto({"unwind"})

\* The Interpreter is owned by a unique_ptr or is being unwound: an exception of
\* ~Device ends the process.
DestroyDevice == /\ at = "unwind" /\ pc = "client"
                 /\ DestroyedNext(Dev)
                 /\ Lib!Close(Dev)
                 /\ live' = live \ {Dev} /\ held' = held \ {Dev}
                 /\ snap' = [files EXCEPT ![fd[Dev]] = "free"]
                 /\ exc' \in {"none", "Exception"}
                 /\ Goto({IF exc' = "none" THEN "gone" ELSE "terminated"})
                 /\ UNCHANGED <<maps, refs, pc, obj, encl, args, uapi>>

-----------------------------------------------------------------------------
\* Mutant: the input is written one place too far.
SetInputOffByOne(d) == /\ at = "ready"
                       /\ input' = d + 1
                       /\ UNCHANGED <<libVars, at, inference, callVars, enableCycleCounter, output,
                                      job, status, abandoned>>

\* Calls of the Interpreter's client.  The buffers are looked up with an ioctl and
\* an index that may throw, which changes nothing.
SetInput(d) == /\ at = "ready"
               /\ input' = d
               /\ UNCHANGED <<libVars, at, inference, callVars, enableCycleCounter, output, job,
                              status, abandoned>>

SetPmuCycleCounters(c) == /\ at = "ready"
                          /\ enableCycleCounter' = {c}
                          /\ UNCHANGED <<libVars, at, inference, callVars, arenaVars,
                                         status, abandoned>>

\* GetPmuCounters() and GetCycleCounter() without an Inference dereference a
\* null pointer; otherwise they change nothing.
GetCounters == /\ at = "ready" /\ inference = NoObj
               /\ Goto({"crashed"})
               /\ UNCHANGED libVars

\* Invoke().  enableCycleCounter has no initial value: it may be either.
Invoke(i, f) == /\ at = "ready" /\ status[i] = "none"
                /\ Lib!NewInferenceInArena(i, network, arenaBuffer)
                /\ at' = "create"
                /\ forever' = f /\ ok' = FALSE /\ asked' = input
                /\ overlap' = (\E j \in Inferences : status[j] = "RUNNING")
                /\ cycle_count' \in enableCycleCounter
                /\ UNCHANGED <<inference, enableCycleCounter, arenaVars, status, abandoned>>

\* Mutant: the result is not waited for.
CreatedNoWait == /\ at = "create" /\ pc = "client" /\ exc = "none"
                 /\ inference' \in (held \cap Inferences) \ {inference}
                 /\ IF inference = NoObj THEN UNCHANGED libVars ELSE Lib!Reset(inference)
                 /\ at' = "status"
                 /\ UNCHANGED <<callVars, enableCycleCounter, arenaVars, status, abandoned>>

\* The new Inference is assigned to the member, which releases the old one.
Created == /\ at = "create" /\ pc = "client" /\ exc = "none"
           /\ inference' \in (held \cap Inferences) \ {inference}
           /\ IF inference = NoObj THEN UNCHANGED libVars ELSE Lib!Reset(inference)
           /\ at' = "wait"
           /\ UNCHANGED <<callVars, enableCycleCounter, arenaVars, status, abandoned>>

\* Mutant: the old Inference is released before the new one is constructed.
CreateFailsReset == /\ at = "create" /\ pc = "client" /\ exc # "none"
                    /\ inference' = NoObj
                    /\ IF inference = NoObj THEN UNCHANGED libVars ELSE Lib!Reset(inference)
                    /\ at' = "ready"
                    /\ UNCHANGED <<callVars, enableCycleCounter, arenaVars, status, abandoned>>

\* The constructor threw: the member keeps the old Inference.
CreateFails == /\ at = "create" /\ pc = "client" /\ exc # "none"
               /\ Goto({"ready"})
               /\ UNCHANGED libVars

WaitReturns == /\ at = "wait" /\ pc = "client" /\ status[inference] # "RUNNING"
               /\ Goto({"status"})
               /\ UNCHANGED libVars

\* Mutant: an expired timeout starts another wait.
WaitTimesOutAgain == /\ at = "wait" /\ pc = "client" /\ status[inference] = "RUNNING" /\ ~forever
                     /\ abandoned' = abandoned
                     /\ at' = "wait"
                     /\ UNCHANGED <<libVars, inference, callVars, enableCycleCounter, arenaVars, status>>

\* The result of wait() is ignored.
WaitTimesOut == /\ at = "wait" /\ pc = "client" /\ status[inference] = "RUNNING" /\ ~forever
                /\ abandoned' = abandoned \cup {inference}
                /\ at' = "status"
                /\ UNCHANGED <<libVars, inference, callVars, enableCycleCounter, arenaVars, status>>

WaitThrows == /\ at = "wait" /\ pc = "client"
              /\ abandoned' = abandoned \cup {inference}
              /\ at' = "ready"
              /\ UNCHANGED <<libVars, inference, callVars, enableCycleCounter, arenaVars, status>>

\* Mutant: an error counts as an answer.
CheckStatusNotRunning == /\ at = "status" /\ pc = "client"
                         /\ ok' = (status[inference] # "RUNNING")
                         /\ at' = "ready"
                         /\ UNCHANGED <<libVars, inference, forever, asked, overlap, cycle_count,
                                        enableCycleCounter, arenaVars, status, abandoned>>

\* "Failed to invoke." unless the status is OK; status() may throw as well.
CheckStatus == /\ at = "status" /\ pc = "client"
               /\ ok' \in {FALSE, status[inference] = "OK"}
               /\ at' = "ready"
               /\ UNCHANGED <<libVars, inference, forever, asked, overlap, cycle_count,
                              enableCycleCounter, arenaVars, status, abandoned>>

-----------------------------------------------------------------------------
\* Kernel driver and firmware.
Start(i) == /\ status[i] = "RUNNING" /\ job[i] = Unread
            /\ job' = [job EXCEPT ![i] = input]
            /\ output' = Partial
            /\ UNCHANGED <<libVars, at, inference, callVars, enableCycleCounter, input, status, abandoned>>

Complete(i) == /\ status[i] = "RUNNING"
               /\ \/ /\ job[i] # Unread
                     /\ status' = [status EXCEPT ![i] = "OK"]
                     /\ output' = job[i]
                  \/ /\ status' \in {[status EXCEPT ![i] = s] : s \in {"ERROR", "REJECTED"}}
                     /\ output' = output
               /\ UNCHANGED <<libVars, at, inference, callVars, enableCycleCounter, input, job, abandoned>>

-----------------------------------------------------------------------------
Ended == at \in {"gone", "terminated", "crashed"}

Client == \/ Destroy \/ GetCounters
          \/ \E d \in 1..MaxInput : SetInput(d)
          \/ \E c \in BOOLEAN : SetPmuCycleCounters(c)
          \/ \E i \in Inferences, f \in BOOLEAN : Invoke(i, f)

Step == \/ OpenDevice \/ OpenModel
        \/ NewNetworkBuffer \/ FillNetworkBuffer \/ NewNetwork \/ CheckVela
        \/ NewArena \/ ResizeArena
        \/ (\E o \in Lib!Objects : DestroyMember(o)) \/ DestroyDevice
        \/ Created \/ CreateFails \/ WaitReturns \/ WaitTimesOut \/ CheckStatus
        \/ LibraryStep

Firmware == ~Ended /\ \E i \in Inferences : Start(i) \/ Complete(i)

Done == Ended /\ UNCHANGED vars

Next == Client \/ Step \/ WaitThrows \/ Firmware \/ Done

Spec == Init /\ [][Next]_vars

\* The thread inside a call runs; the client may stop calling, the firmware may
\* never answer, and no call is counted on to fail.
FairSpec == Spec /\ WF_vars(Step)

-----------------------------------------------------------------------------
Places == {"device", "capabilities", "networkBuffer", "fill", "network", "vela", "arena",
           "resize", "ready", "create", "wait", "status", "unwind", "gone", "terminated",
           "crashed"}
Tensors == (1..MaxInput) \cup {NoInput}

TypeOK == /\ Lib!TypeOK
          /\ at \in Places /\ inference \in Inferences \cup {NoObj}
          /\ enableCycleCounter \subseteq BOOLEAN
          /\ {forever, ok, overlap, cycle_count} \subseteq BOOLEAN /\ asked \in Tensors
          /\ status \in [Inferences -> {"none", "RUNNING", "OK", "ERROR", "REJECTED"}]
          /\ input \in Tensors /\ output \in Tensors \cup {Partial}
          /\ job \in [Inferences -> Tensors \cup {Unread}]
          /\ abandoned \subseteq Inferences

\* The arena belongs to the firmware only during Invoke(), and to one inference at
\* a time: the client never writes an input or reads an output that the firmware
\* is working on, unless some Invoke() stopped waiting for its inference.
ArenaExclusive ==
    ~Ended /\ abandoned = {} =>
       \A i \in Inferences : status[i] = "RUNNING" =>
          /\ at \in {"create", "wait"}
          /\ i \in held
          /\ \A j \in Inferences : status[j] = "RUNNING" => j = i

\* When Invoke() returns, the output tensors were computed from the input that it
\* was called with, if no abandoned inference was still running when it began.
FreshOutput == at = "ready" /\ ok /\ ~overlap => output = asked

\* The counters can be read once any Invoke() has come as far as to create its
\* inference, also after an Invoke() that failed to create one.
CountersSafe == at = "crashed" => \A i \in Inferences : status[i] = "none"

\* An Interpreter that could not be constructed, or was destroyed, leaves nothing
\* open and nothing mapped.
GoneIsClean == at = "gone" => live = {} /\ maps = {} /\ \A f \in Fd : files[f] = "free"

\* "@cycle_count: Set to enable the cycle counter." (uapi/ethosu.h:171): a request
\* enables the cycle counter only if the client asked for it.
CyclesOnlyIfWanted == at = "create" => (cycle_count => enableCycleCounter = {TRUE})

\* Every step of the Interpreter on the library is one the library allows its
\* client; above all the Device outlives everything that uses it.
LibraryClient == Lib!Spec

\* Invoke() with a timeout that is not negative returns or ends the process, also
\* when the firmware never answers.
InvokeReturns == (at \in {"create", "wait", "status"} /\ ~forever)
                    ~> (at \in {"ready", "terminated"})
=============================================================================
