--------------------------- MODULE InferenceRunner ---------------------------
(***************************************************************************)
(* main() of utils/inference_runner/inference_runner.cpp and the calls it  *)
(* makes to the driver library, against a kernel driver and firmware that  *)
(* complete, reject or abort inferences at their own pace.                 *)
(*                                                                         *)
(* Every library call is one step.  It may throw an EthosU::Exception      *)
(* (pc = "unwind": the handler at the end of main() returns 1), and a      *)
(* constructor may throw a nested exception, which is no EthosU::Exception *)
(* and which main() does not handle.  exit(1) ends the process at once.    *)
(* `made' is the number of inferences created so far, `k' the inference    *)
(* the second loop is waiting for.                                         *)
(***************************************************************************)
EXTENDS Naturals

CONSTANT N   \* number of -i arguments

ASSUME RunnerAssumption == N \in Nat \ {0}

VARIABLES
    pc, made, k,
    forever,   \* the timeout is negative
    status,    \* kernel: status of each inference, "none" before its creation
    ofm,       \* contents of each inference's OFM buffers
    populated, \* inferences whose IFM buffers were filled before the creation
    file,      \* the OFM files: whose data they hold, and which data
    code,      \* how the process ended
    expired,   \* history: inferences whose timeout expired
    cancelled  \* history: inferences that cancel() was called on

kernel == <<status, ofm>>
history == <<expired, cancelled>>
vars == <<pc, made, k, forever, status, ofm, populated, file, code, expired, cancelled>>

Jobs == 1..N
NoFile == [of |-> 0, data |-> "none"]
Waiting == {"RUNNING", "ABORTING"}

Init == /\ pc = "args" /\ made = 0 /\ k = 1 /\ forever = FALSE
        /\ status = [i \in Jobs |-> "none"] /\ ofm = [i \in Jobs |-> "empty"]
        /\ populated = {}
        /\ file = [i \in Jobs |-> NoFile]
        /\ code = "none"
        /\ expired = {} /\ cancelled = {}

-----------------------------------------------------------------------------
\* Ends of the process.
End(c) == pc' = "done" /\ code' = c
ThrowException == pc' = "unwind" /\ code' = code
Continue(loc) == pc' = loc /\ code' = code

\* The arguments and the label file.  The numbers are parsed outside of the try
\* block: std::stoi() throws to nobody.
ParseArguments == /\ pc = "args"
                  /\ forever' \in BOOLEAN
                  /\ Continue("open") \/ End("1") \/ End("terminate")
                  /\ UNCHANGED <<made, k, kernel, populated, file, history>>

\* The first object that has to be destroyed: the Device.
OpenDevice == /\ pc = "open"
              /\ Continue("setup") \/ End("1")
              /\ UNCHANGED <<forever, made, k, kernel, populated, file, history>>

\* Ping, version and capabilities requests; the network is in a file or, with
\* --index, in the firmware.
Setup == /\ pc = "setup"
         /\ Continue("fill") \/ Continue("network") \/ ThrowException
         /\ UNCHANGED <<forever, made, k, kernel, populated, file, history>>

\* A constructor may throw a nested exception, which ends the process.
AllocAndFill == /\ pc = "fill"
                /\ \/ Continue("network")
                   \/ ThrowException
                   \/ End("1")  \* the network file cannot be opened
                   \/ End("terminate")
                /\ UNCHANGED <<forever, made, k, kernel, populated, file, history>>

CreateNetwork == /\ pc = "network"
                 /\ Continue("create") \/ ThrowException \/ End("terminate")
                 /\ UNCHANGED <<forever, made, k, kernel, populated, file, history>>

\* Mutant: the wrong inference's buffer is filled.
GetInputOfNext(i) == {populated, populated \cup {i + 1}}

\* The buffer is filled from the IFM file unless that cannot be read.
GetInputFromFile(i) == {populated, populated \cup {i}}

\* createInference() for the next IFM file.  The value of getInputFromFile() is
\* not looked at.
CreateInference ==
    /\ pc = "create" /\ made < N
    /\ made' = made + 1
    /\ populated' \in GetInputFromFile(made')
    /\ status' = [status EXCEPT ![made'] = "RUNNING"]
    /\ UNCHANGED <<pc, forever, k, code, ofm, file, history>>

CreateInferenceFails ==
    /\ pc = "create" /\ made < N
    /\ \/ ThrowException
       \/ End("1")         \* unknown input tensor data type
       \/ End("terminate") \* nested exception
       \/ End("abort")     \* assertion of IMAGE_Decode()
       \/ End("crash")     \* undefined: files as in TensorInput, fewer than four dimensions
    /\ UNCHANGED <<forever, made, k, kernel, populated, file, history>>

AllCreated == /\ pc = "create" /\ made = N
              /\ Continue("status")
              /\ UNCHANGED <<forever, made, k, kernel, populated, file, history>>

-----------------------------------------------------------------------------
\* The loop that waits for the inferences.
AllSettled == /\ pc = "status" /\ k > N
              /\ Continue("cleanup")
              /\ UNCHANGED <<forever, made, k, kernel, populated, file, history>>

\* Inference::status() for the first message.
ReportBefore == /\ pc = "status" /\ k <= N
                /\ Continue("wait") \/ ThrowException
                /\ UNCHANGED <<forever, made, k, kernel, populated, file, history>>

\* Mutant: the meaning of the result of wait() is swapped.
WaitReturnsSwapped == /\ pc = "wait" /\ status[k] \notin Waiting
                      /\ Continue(IF forever THEN "report" ELSE "cancel")
                      /\ UNCHANGED <<forever, made, k, kernel, populated, file, history>>

\* Inference::wait(): for a negative timeout it returns the number of
\* descriptors ppoll() reports, otherwise whether that number is 0.
WaitReturns == /\ pc = "wait" /\ status[k] \notin Waiting
               /\ Continue(IF forever THEN "cancel" ELSE "report")
               /\ UNCHANGED <<forever, made, k, kernel, populated, file, history>>

WaitTimesOut == /\ pc = "wait" /\ status[k] \in Waiting /\ ~forever
                /\ expired' = expired \cup {k}
                /\ Continue("cancel")
                /\ UNCHANGED <<forever, made, k, kernel, populated, file, cancelled>>

\* Mutant: the exception is only reported and the loop goes on.
WaitThrowsContinues == /\ pc \in {"wait", "cancel", "confirm"}
                       /\ cancelled' = cancelled
                       /\ Continue("status")
                       /\ UNCHANGED <<forever, made, k, kernel, populated, file, expired>>

\* An exception of wait(), cancel() or of status() after cancel().
WaitThrows == /\ pc \in {"wait", "cancel", "confirm"}
              /\ cancelled' = IF pc = "cancel" THEN cancelled \cup {k} ELSE cancelled
              /\ End("1")
              /\ UNCHANGED <<forever, made, k, kernel, populated, file, expired>>

\* Inference::cancel().  The kernel reports OK when the cancellation was performed.
Cancel == /\ pc = "cancel"
          /\ cancelled' = cancelled \cup {k}
          /\ \/ /\ status[k] = "RUNNING"
                /\ status' = [status EXCEPT ![k] = "ABORTED"]
                /\ Continue("confirm")
             \/ /\ status[k] = "RUNNING"
                /\ status' = [status EXCEPT ![k] = "ABORTING"]
                /\ Continue("report")
             \/ status' = status /\ Continue("report")
          /\ UNCHANGED <<forever, made, k, ofm, populated, file, expired>>

\* status() after a cancellation, for the message only.
Confirm == /\ pc = "confirm"
           /\ Continue("report")
           /\ UNCHANGED <<forever, made, k, kernel, populated, file, history>>

ReportAfter == /\ pc = "report"
               /\ Continue("check") \/ ThrowException
               /\ UNCHANGED <<forever, made, k, kernel, populated, file, history>>

\* Mutant: anything but OK is polled for again.
CheckPolls == /\ pc = "check" /\ k' = k
              /\ Continue(IF status[k] = "OK" THEN "write" ELSE "report")
              /\ UNCHANGED <<forever, made, kernel, populated, file, history>>

\* status() a third time: this one decides.
Check == /\ pc = "check"
         /\ IF status[k] = "OK" THEN Continue("write") /\ k' = k
            ELSE Continue("status") /\ k' = k + 1
         /\ UNCHANGED <<forever, made, kernel, populated, file, history>>

CheckThrows == /\ pc = "check"
               /\ ThrowException
               /\ UNCHANGED <<forever, made, k, kernel, populated, file, history>>

\* Mutant: files are numbered as they are written.
OfmIndexOfWritten == 1 + (IF k > 1 /\ file[k - 1] = NoFile THEN k - 2 ELSE k - 1)

\* ofmIndex is advanced once per inference, whether or not a file was written.
OfmIndex == k

\* The OFM file.  Errors of the stream after is_open() go unnoticed, so that the
\* file may be short; buffer accesses may throw with part of the data written.
WriteOfm == /\ pc = "write"
            /\ \E d \in {ofm[k], "short"} :
                  file' = [file EXCEPT ![OfmIndex] = [of |-> k, data |-> d]]
            /\ Continue("post") \/ ThrowException
            /\ UNCHANGED <<forever, made, k, kernel, populated, history>>

WriteOfmFails == /\ pc = "write"
                 /\ End("1")
                 /\ UNCHANGED <<forever, made, k, kernel, populated, file, history>>

\* Mutants: the inference and ofmIndex are advanced twice; the loop is left after the first result.
PostProcessSkipsOne == /\ pc = "post"
                       /\ Continue("status") /\ k' = k + 2
                       /\ UNCHANGED <<forever, made, kernel, populated, file, history>>
PostProcessLeavesLoop == /\ pc = "post"
                         /\ Continue("cleanup") \/ ThrowException \/ End("1")
                         /\ UNCHANGED <<forever, made, k, kernel, populated, file, history>>

\* Results and performance counters are printed.
PostProcess == /\ pc = "post"
               /\ \/ Continue("status") /\ k' = k + 1
                  \/ ThrowException /\ k' = k
                  \/ End("1") /\ k' = k  \* unknown output tensor data type
                  \* No label for a class, two or three outputs, no second dimension.
                  \/ End("crash") /\ k' = k
               /\ UNCHANGED <<forever, made, kernel, populated, file, history>>

-----------------------------------------------------------------------------
\* The end of the try block: the shared objects and then the Device are
\* destroyed.  Only the Device can throw to the handler.
Cleanup == /\ pc = "cleanup"
           /\ End("0") \/ End("1") \/ End("terminate")
           /\ UNCHANGED <<forever, made, k, kernel, populated, file, history>>

\* Destructors while an exception is on its way to the handler may not throw.
Unwind == /\ pc = "unwind"
          /\ End("1") \/ End("terminate")
          /\ UNCHANGED <<forever, made, k, kernel, populated, file, history>>

-----------------------------------------------------------------------------
\* Kernel driver and firmware.
Produce(i) == /\ status[i] \in Waiting /\ ofm[i] = "empty"
              /\ ofm' = [ofm EXCEPT ![i] = "partial"]
              /\ UNCHANGED <<pc, forever, made, k, status, populated, file, code, history>>

Complete(i) == /\ status[i] = "RUNNING"
               /\ \/ /\ status' = [status EXCEPT ![i] = "OK"]
                     /\ ofm' = [ofm EXCEPT ![i] = "result"]
                  \/ \E s \in {"ERROR", "REJECTED"} :
                        status' = [status EXCEPT ![i] = s] /\ ofm' = ofm
               /\ UNCHANGED <<pc, forever, made, k, populated, file, code, history>>

Abort(i) == /\ status[i] = "ABORTING"
            /\ status' = [status EXCEPT ![i] = "ABORTED"]
            /\ UNCHANGED <<pc, forever, made, k, ofm, populated, file, code, history>>

Firmware(i) == code = "none" /\ (Complete(i) \/ Abort(i))

Runner == \/ ParseArguments \/ OpenDevice \/ Setup \/ AllocAndFill \/ CreateNetwork
          \/ CreateInference \/ CreateInferenceFails \/ AllCreated
          \/ AllSettled \/ ReportBefore
          \/ WaitReturns \/ WaitTimesOut \/ Cancel \/ Confirm
          \/ ReportAfter \/ Check \/ CheckThrows
          \/ WriteOfm \/ WriteOfmFails \/ PostProcess
          \/ Cleanup \/ Unwind

Done == pc = "done" /\ UNCHANGED vars

Next == \/ Runner \/ WaitThrows
        \/ \E i \in Jobs : Firmware(i) \/ (code = "none" /\ Produce(i))
        \/ Done

Spec == Init /\ [][Next]_vars

\* The process is scheduled, and no call is counted on to fail: WaitThrows could
\* otherwise end a wait that nothing else ends.  Nothing is asked of the firmware.
FairSpec == Spec /\ WF_vars(Runner)

-----------------------------------------------------------------------------
Starting == {"args", "open", "setup", "fill", "network", "create"}
Locations == Starting \cup
             {"status", "wait", "cancel", "confirm", "report",
              "check", "write", "post", "cleanup", "unwind", "done"}
Statuses == {"none", "RUNNING", "OK", "ERROR", "REJECTED", "ABORTED", "ABORTING"}
Data == {"empty", "partial", "result"}

TypeOK == /\ pc \in Locations /\ made \in 0..N /\ k \in 1..(N + 1)
          /\ status \in [Jobs -> Statuses] /\ ofm \in [Jobs -> Data]
          /\ forever \in BOOLEAN /\ populated \subseteq Jobs
          /\ file \in [Jobs -> [of : Jobs, data : Data \cup {"short"}] \cup {NoFile}]
          /\ code \in {"none", "0", "1", "terminate", "abort", "crash"}
          /\ expired \subseteq Jobs /\ cancelled \subseteq Jobs

\* The OFM file with index i holds output of inference i and of no other, and
\* never what an inference that did not end with status OK left in its buffers.
OutputIsItsOwn ==
    \A i \in Jobs : file[i] # NoFile =>
       file[i].of = i /\ file[i].data \in {"result", "short"} /\ status[i] = "OK"

\* Exit status 0 loses no result: each inference that ended with status OK before
\* its timeout has its file, and none is still running unless its timeout expired.
ResultNotLost ==
    code = "0" => \A i \in Jobs \ expired :
       status[i] \notin Waiting /\ (status[i] = "OK" => file[i] # NoFile)

\* cancel() is only called for an inference whose timeout expired, if the timeout
\* is not negative.
CancelOnlyOnTimeout == ~forever => cancelled \subseteq expired

\* "Inference timed out, cancelling it" (inference_runner.cpp:295): what is
\* cancelled has timed out, whatever the timeout is.
CancelMeansTimeout == cancelled \subseteq expired

\* The IFM buffers are "populated with data before the inference object is
\* created" (README.md:46-48).
IfmPopulated == \A i \in Jobs : status[i] # "none" => i \in populated

\* The runner comes to an end, also when calls fail and whatever the firmware
\* does, unless the timeout is negative and an inference is never answered.
Terminates == \/ <>(pc = "done")
              \/ <>[](forever /\ \E i \in Jobs : status[i] \in Waiting)

Batch == INSTANCE BatchJob WITH
    next <- k,
    written <- {i \in Jobs : file[i] # NoFile},
    result <- IF code = "none" THEN "running" ELSE IF code = "0" THEN "success" ELSE "failure"

\* The runner implements BatchJob: inferences are settled in the order of the
\* command line, each is written at most once, success comes after the last.
BatchSafe == Batch!Spec
=============================================================================
