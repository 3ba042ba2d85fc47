-------------------------- MODULE InterpreterRunner --------------------------
(***************************************************************************)
(* main() of utils/inference_runner/interpreter_runner.cpp, composed with  *)
(* the Interpreter that it constructs, calls and destroys, and getTopN()   *)
(* and getBoundingBoxes() of pre_post_processing.h.                        *)
(*                                                                         *)
(* `main' is the place in main().  While main() is in a call of the        *)
(* Interpreter the two move together; kernel driver and firmware move on   *)
(* their own.  An exception unwinds to the handler of EthosU::Exception;   *)
(* one that is none, and exit(), end the process without unwinding.        *)
(*                                                                         *)
(* What the firmware has left in the output tensors is a record: how many  *)
(* `tensors' there are and their data.  One tensor is a classification, of *)
(* a type and a number of dimensions `dims', with one number for each      *)
(* class; more are the detections [class, score] and their count.  The     *)
(* numbers are in units of 1/255, those of a "float" tensor in any units   *)
(* that keep their order; NaN is the float that is no number.              *)
(***************************************************************************)
EXTENDS Integers, FiniteSets, Sequences

CONSTANTS
    Fd, networkBuffer, arenaBuffer, network, Inferences, Dev, NoObj, FdMax, MaxInput,
    TopSize,    \* number of results, 4 in the code
    Threshold,  \* least value that is a result, 59 of 255
    NaN,
    Outputs,    \* what the output tensors may hold
    LabelCounts \* numbers of lines of the label file

VARIABLES
    files, maps, fd, live, refs, held, pc, obj, encl, args, uapi, exc, snap,
    at, inference, enableCycleCounter, forever, ok, status, input, output, job,
    cycle_count, asked, overlap, abandoned,
    main,
    options, \* the arguments: the timeout is negative, events and cycles are counted
    labels,  \* number of labels
    tensor,  \* the output tensors as they are read
    results, \* until they are printed
    code     \* how the process ended

Interp == INSTANCE Interpreter

libVars == <<files, maps, fd, live, refs, held, pc, obj, encl, args, uapi, exc, snap>>
callVars == <<forever, ok, asked, overlap, cycle_count>>
arenaVars == <<input, output, job>>
interpVars == <<libVars, at, inference, callVars, enableCycleCounter, arenaVars, status, abandoned>>
runnerVars == <<options, labels, tensor, results>>
vars == <<interpVars, main, runnerVars, code>>

\* main() fills one input.
ASSUME RunnerAssumption == Interp!InterpreterAssumption /\ 1 <= MaxInput

\* What an output tensor holds: numbers, or at least as many detections as it counts.
ASSUME OutputAssumption ==
    /\ TopSize \in Nat /\ Threshold \in Nat /\ NaN \notin Int
    /\ \A t \in Outputs :
          /\ t.tensors \in Nat
          /\ t.tensors > 1 => /\ t.data \in Seq([class : Nat, score : Int \cup {NaN}])
                              /\ t.count \in 0..Len(t.data)
          /\ t.tensors <= 1 => /\ t.dims \in Nat
                               /\ t.data \in Seq(IF t.type = "float" THEN Int \cup {NaN} ELSE Int)

NoTensor == [tensors |-> 0, data |-> <<>>]

Init == /\ Interp!Init
        /\ main = "arguments" /\ code = "none"
        /\ options = [negative |-> FALSE, events |-> FALSE, cycles |-> FALSE]
        /\ labels = 0 /\ tensor = NoTensor /\ results = <<>>

-----------------------------------------------------------------------------
Continue(place) == main' = place /\ code' = code
End(c) == main' = "done" /\ code' = c

\* The numbers are parsed outside of the try block: std::stoll() throws to nobody.
ParseArguments == /\ main = "arguments"
                  /\ options' \in [negative : BOOLEAN, events : BOOLEAN, cycles : BOOLEAN]
                  /\ Continue("labels") \/ End("1") \/ End("terminate")
                  /\ UNCHANGED <<interpVars, labels, tensor, results>>

ReadLabelsFile == /\ main = "labels"
                  /\ \/ Continue("construct") /\ labels' \in LabelCounts
                     \/ End("1") /\ labels' = labels
                  /\ UNCHANGED <<interpVars, options, tensor, results>>

\* An exception that is no EthosU::Exception has left the Interpreter's call.
Uncaught == pc = "client" /\ exc = "nested"

\* A step of the constructor, of Invoke() or of the destructor.
Call == /\ main \in {"construct", "invoke", "destroy", "unwind"}
        /\ ~Uncaught
        /\ Interp!Step
        /\ UNCHANGED runnerVars

\* The constructor returns or throws, after it has released what it held.
Construct == /\ main = "construct" /\ Call
             /\ \/ at' = "ready" /\ Continue("configure")
                \/ at' = "gone" /\ End("1")
                \/ at' = "terminated" /\ End("terminate")
                \/ at' \notin {"ready", "gone", "terminated"} /\ Continue("construct")

ConstructTerminates == /\ main = "construct" /\ Uncaught
                       /\ End("terminate")
                       /\ UNCHANGED <<interpVars, runnerVars>>

SetPmuCycleCounters == /\ main = "configure"
                       /\ Interp!SetPmuCycleCounters(options.cycles)
                       /\ Continue("fill")
                       /\ UNCHANGED runnerVars

\* The file is decoded into the first input tensor.  When that fails the tensor
\* may remain as it is, and the failure is not looked at.
GetInputFromFile == /\ main = "fill"
                    /\ Interp!SetInput(1) \/ UNCHANGED interpVars
                    /\ Continue("call")
                    /\ UNCHANGED runnerVars

\* The tensor's buffer cannot be looked up, its type is unknown, the assertion of
\* IMAGE_Decode() fails; or the behaviour is undefined: the network has no input or one
\* of fewer than four dimensions, and what TensorInput says of files.
GetInputFails == /\ main = "fill"
                 /\ Continue("throw") \/ End("1") \/ End("abort") \/ End("crash")
                 /\ UNCHANGED <<interpVars, runnerVars>>

\* Mutant: the timeout is the one of option -t.
InvokeWithTimeout == /\ main = "call"
                     /\ \E i \in Inferences : Interp!Invoke(i, options.negative)
                     /\ Continue("invoke")
                     /\ UNCHANGED runnerVars

\* Invoke() with its default timeout, whatever option -t was.
Invoke == /\ main = "call"
          /\ \E i \in Inferences : Interp!Invoke(i, FALSE)
          /\ Continue("invoke")
          /\ UNCHANGED runnerVars

\* Mutants: an exception is only reported; the counters are read after it.
AfterFailedInvokeGoOn == "results"
AfterFailedInvokeCounters == "counters"

\* Where an exception of Invoke() leads to.
AfterFailedInvoke == "throw"

\* Invoke() goes on, it returns or throws.
Invoking == /\ main = "invoke" /\ Call
            /\ \/ at' = "terminated" /\ End("terminate")
               \/ at' = "ready" /\ ok' /\ Continue("results")
               \/ at' = "ready" /\ ~ok' /\ Continue(AfterFailedInvoke)
               \/ at' \notin {"terminated", "ready"} /\ Continue("invoke")

InvokeThrows == /\ main = "invoke"
                /\ Interp!WaitThrows
                /\ Continue(AfterFailedInvoke)
                /\ UNCHANGED runnerVars

-----------------------------------------------------------------------------
\* std::pair's order of values and classes.
Smaller(a, b) == a.score < b.score \/ (a.score = b.score /\ a.class < b.class)

\* (data[i] + zp) / scale.
Value(t, i) == IF t.type = "int8" THEN t.data[i] + 128 ELSE t.data[i]

HasNaN(t) == \E i \in DOMAIN t.data : t.data[i] = NaN

\* What is left in getTopN()'s queue, from which the smallest is removed whenever
\* it is longer than `size'.
Best(t, size) ==
    LET Queue[i \in 0..Len(t.data)] ==
           IF i = 0 THEN {}
           ELSE LET q == Queue[i - 1] \cup
                            {r \in {[class |-> i - 1, score |-> Value(t, i)]} : r.score >= Threshold}
                IN  IF Cardinality(q) > size THEN {r \in q : \E s \in q : Smaller(s, r)} ELSE q
    IN  Queue[Len(t.data)]

\* The queue, emptied from its top, in reverse.
Descending(q) == CHOOSE s \in [1..Cardinality(q) -> q] : \A i, j \in DOMAIN s : i < j => Smaller(s[j], s[i])

\* Mutants: the queue is one too long; the result is not reversed.
TopNTooLong(t) == Descending(Best(t, TopSize + 1))
TopNAscending(t) == LET s == Descending(Best(t, TopSize)) IN [j \in DOMAIN s |-> s[Len(s) + 1 - j]]

\* getTopN(): the queue from the greatest to the smallest.
TopN(t) == Descending(Best(t, TopSize))

\* NaN is not below the threshold, and with it the queue has no order: any of the
\* entries can be left in any order.
Unordered(t) ==
    LET entries == {[class |-> i - 1, score |-> Value(t, i)] :
                       i \in {k \in DOMAIN t.data : t.data[k] = NaN \/ Value(t, k) >= Threshold}}
        size == IF Cardinality(entries) < TopSize THEN Cardinality(entries) ELSE TopSize
    IN  {s \in [1..size -> entries] : \A i, j \in 1..size : i # j => s[i] # s[j]}

\* getBoundingBoxes(): as many as there are, in their order.
BoundingBoxes(t) == SubSeq(t.data, 1, IF t.count < TopSize THEN t.count ELSE TopSize)

\* The code reads the count from a fourth tensor, or the second number of the shape of
\* the only tensor, without asking whether there is one.
Lacking(t) == IF t.tensors > 1 THEN t.tensors < 4 ELSE t.tensors = 0 \/ t.dims < 2

GetResults == /\ main = "results"
              /\ tensor' \in Outputs /\ ~Lacking(tensor')
              /\ \/ tensor'.tensors > 1 /\ results' = BoundingBoxes(tensor')
                 \/ tensor'.tensors = 1 /\ ~HasNaN(tensor') /\ results' = TopN(tensor')
                 \/ tensor'.tensors = 1 /\ HasNaN(tensor') /\ results' \in Unordered(tensor')
              /\ Continue("print")
              /\ UNCHANGED <<interpVars, options, labels>>

GetResultsCrashes == /\ main = "results"
                     /\ \E t \in Outputs : Lacking(t)
                     /\ End("crash")
                     /\ UNCHANGED <<interpVars, runnerVars>>

\* A tensor's buffer cannot be looked up or its type is unknown.
GetResultsFails == /\ main = "results"
                   /\ Continue("throw") \/ End("1")
                   /\ UNCHANGED <<interpVars, runnerVars>>

\* A class the label file has no line for is read from behind the labels.
Unlabelled == \E j \in DOMAIN results : results[j].class >= labels

PrintResults == /\ main = "print"
                /\ Continue("counters")
                /\ tensor' = NoTensor /\ results' = <<>>
                /\ UNCHANGED <<interpVars, options, labels>>

PrintCrashes == /\ main = "print" /\ Unlabelled
                /\ End("crash")
                /\ UNCHANGED <<interpVars, runnerVars>>

\* GetPmuCounters() and GetCycleCounter(), if they were configured.
ReadCounters == /\ main = "counters"
                /\ IF ~(options.events \/ options.cycles)
                   THEN UNCHANGED interpVars /\ Continue("return")
                   ELSE IF inference = NoObj
                   THEN Interp!GetCounters /\ End("crash")
                   ELSE UNCHANGED interpVars /\ (Continue("return") \/ Continue("throw"))
                /\ UNCHANGED runnerVars

-----------------------------------------------------------------------------
\* Mutant: the Interpreter is not destroyed.
LeaveWithoutDestroying == /\ main \in {"return", "throw"}
                          /\ at' = "gone"
                          /\ End(IF main = "return" THEN "0" ELSE "1")
                          /\ UNCHANGED <<libVars, inference, callVars, enableCycleCounter,
                                         arenaVars, status, abandoned, runnerVars>>

\* The end of the try block, or an exception on its way to the handler.
Leave == /\ main \in {"return", "throw"}
         /\ Interp!Destroy
         /\ Continue(IF main = "return" THEN "destroy" ELSE "unwind")
         /\ UNCHANGED runnerVars

Destroying == /\ main \in {"destroy", "unwind"} /\ Call
              /\ \/ at' = "gone" /\ End(IF main = "destroy" THEN "0" ELSE "1")
                 \/ at' = "terminated" /\ End("terminate")
                 \/ at' \notin {"gone", "terminated"} /\ Continue(main)

Runner == \/ ParseArguments \/ ReadLabelsFile
          \/ Construct \/ ConstructTerminates
          \/ SetPmuCycleCounters \/ GetInputFromFile \/ GetInputFails
          \/ Invoke \/ Invoking
          \/ GetResults \/ GetResultsFails \/ GetResultsCrashes \/ PrintResults \/ PrintCrashes
          \/ ReadCounters
          \/ Leave \/ Destroying

Firmware == main # "done" /\ Interp!Firmware /\ UNCHANGED <<main, runnerVars, code>>

Done == main = "done" /\ UNCHANGED vars

Next == Runner \/ InvokeThrows \/ Firmware \/ Done

Spec == Init /\ [][Next]_vars

\* The process is scheduled; nothing is asked of the firmware, and wait() is not
\* counted on to fail.
FairSpec == Spec /\ WF_vars(Runner)

-----------------------------------------------------------------------------
Mains == {"arguments", "labels", "construct", "configure", "fill", "call", "invoke", "results",
          "print", "counters", "return", "throw", "destroy", "unwind", "done"}

\* The values of the variables; no more than TopSize results.
TypeOK == /\ Interp!TypeOK
          /\ main \in Mains
          /\ options \in [negative : BOOLEAN, events : BOOLEAN, cycles : BOOLEAN]
          /\ labels \in LabelCounts \cup {0} /\ tensor \in Outputs \cup {NoTensor}
          /\ Len(results) <= TopSize
          /\ \A j \in DOMAIN results : results[j] \in [class : Nat, score : Int \cup {NaN}]
          /\ code \in {"none", "0", "1", "terminate", "abort", "crash"}

\* Results are printed, and the exit status is 0, only for output tensors that the
\* firmware has computed completely from the input of this very inference: not
\* when it failed, and not when it is still running after a timeout.
ReportsOwnOutput ==
    main = "print" \/ code = "0" =>
       \E i \in Inferences : status[i] = "OK" /\ job[i] = asked /\ output = asked

\* The printed results of a classification are the TopSize classes of the greatest
\* values that reach the threshold, the greatest first, of equal values the higher
\* class first, if no value is NaN.
TopRanked ==
    main = "print" /\ tensor.tensors = 1 /\ ~HasNaN(tensor) =>
       LET above == {i \in DOMAIN tensor.data : Value(tensor, i) >= Threshold}
           Place(i) == 1 + Cardinality({k \in above : \/ Value(tensor, k) > Value(tensor, i)
                                                      \/ Value(tensor, k) = Value(tensor, i) /\ k > i})
       IN  \A i \in DOMAIN tensor.data, j \in 1..TopSize :
              (j \in DOMAIN results /\ results[j] = [class |-> i - 1, score |-> Value(tensor, i)])
                 <=> (i \in above /\ Place(i) = j)

\* The counters are those of the inference whose results were printed, and final: they
\* are never read when Invoke() has created none, which would be undefined, nor when it
\* has failed or is still running after a timeout.
CountersAreOwn ==
    /\ at # "crashed"
    /\ main = "counters" => /\ inference \in Inferences /\ status[inference] = "OK"
                            /\ job[inference] = asked

\* main() uses the Interpreter only as the Interpreter allows its client to.
InterpreterClient == Interp!Spec

\* The process ends, whatever the firmware does and also when it never answers.
Terminates == <>(main = "done")
=============================================================================
