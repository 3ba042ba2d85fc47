------------------------ MODULE InferenceRunner_proofs ------------------------
(***************************************************************************)
(* Proofs about InferenceRunner, for every number of inferences and both   *)
(* kinds of timeout.                                                       *)
(***************************************************************************)
EXTENDS InferenceRunner, TLAPS

\* Where main() stands: the second loop starts when all inferences exist, and
\* the process has ended exactly when it has an exit status.
Control ==
    /\ \A i \in Jobs : status[i] = "none" => i > made
    /\ pc \in Starting => k = 1
    /\ pc = "args" => forever = FALSE
    /\ pc \notin Starting \cup {"unwind", "done"} => made = N
    /\ pc \in {"wait", "cancel", "confirm", "report", "check", "write", "post"} => k <= N
    /\ pc = "cleanup" \/ code = "0" => k = N + 1 /\ made = N
    /\ code # "none" <=> pc = "done"

\* Files are only written for inferences up to the current one, from complete
\* results; the current one is written once.
Files ==
    /\ \A i \in Jobs : status[i] = "OK" => ofm[i] = "result"
    /\ pc \in {"write", "post"} => status[k] = "OK"
    /\ pc = "post" => file[k] # NoFile
    /\ \A i \in Jobs : file[i] # NoFile =>
          i < k \/ (i = k /\ pc \in {"post", "unwind", "done"})

\* An inference the loop has passed, and whose timeout did not expire, is no
\* longer running; if it succeeded its file has been written.
Settled ==
    /\ \A i \in Jobs \ expired :
          /\ i < k => status[i] \notin Waiting /\ (status[i] = "OK" => file[i] # NoFile)
          /\ i = k /\ pc \in {"cancel", "confirm", "report", "check", "write", "post"} =>
                status[i] \notin Waiting

\* cancel() follows an expired timeout when the timeout is not negative.
Cancels == ~forever => /\ cancelled \subseteq expired
                       /\ pc = "cancel" => k \in expired

RInv == TypeOK /\ OutputIsItsOwn /\ Control /\ Files /\ Settled /\ Cancels

-----------------------------------------------------------------------------
\* Nothing has happened yet.
LEMMA RunnerInit == Init => RInv
<1> SUFFICES ASSUME Init PROVE RInv
  OBVIOUS
<1> USE RunnerAssumption DEF RunnerAssumption, Starting, Jobs
<1>1. TypeOK
  <2>1. forever \in BOOLEAN
    BY Zenon DEF Init
  <2> QED  BY <2>1 DEF Init, TypeOK, Locations, Statuses, Data
<1>2. OutputIsItsOwn /\ Control /\ Files /\ Settled /\ Cancels
  BY DEF Init, OutputIsItsOwn, Control, Files, Settled, Cancels, Waiting
<1> QED  BY <1>1, <1>2 DEF RInv

\* The steps of main() before the second loop.
LEMMA SetupSteps ==
    ASSUME RInv, \/ ParseArguments \/ OpenDevice \/ Setup \/ AllocAndFill \/ CreateNetwork
                 \/ CreateInference \/ CreateInferenceFails \/ AllCreated
    PROVE  RInv'
<1> USE RunnerAssumption DEF RunnerAssumption, Starting, RInv
<1>1. CASE \/ ParseArguments \/ OpenDevice \/ Setup \/ AllocAndFill \/ CreateNetwork
            \/ CreateInferenceFails \/ AllCreated
  <2>1. /\ UNCHANGED <<made, k, kernel, populated, file, history>>
        /\ pc \in Starting /\ code = "none"
        /\ forever' = forever \/ (~forever /\ forever' \in BOOLEAN)
        /\ \/ pc' \in (Starting \ {"args"}) \cup {"unwind"} /\ code' = code
           \/ pc' = "status" /\ made = N /\ code' = code
           \/ pc' = "done" /\ code' \in {"1", "terminate", "abort", "crash"}
    BY <1>1 DEF ParseArguments, OpenDevice, Setup, AllocAndFill, CreateNetwork, CreateInferenceFails, AllCreated, Continue, ThrowException, End, Control
  <2>2. TypeOK' /\ OutputIsItsOwn'
    BY <2>1 DEF TypeOK, OutputIsItsOwn, Locations, kernel, history
  <2>3. Control' /\ Cancels'
    BY <2>1 DEF Control, Cancels, kernel, history
  <2>4. Files' /\ Settled'
    BY <2>1 DEF Files, Settled, kernel, history
  <2> QED  BY <2>2, <2>3, <2>4
<1>2. CASE CreateInference
  <2>1. /\ pc = "create" /\ made \in Nat /\ made < N /\ made' = made + 1 /\ made' \in Jobs /\ k = 1
        /\ \A i \in Jobs : status'[i] = IF i = made' THEN "RUNNING" ELSE status[i]
        /\ UNCHANGED <<pc, forever, k, code, ofm, file, expired, cancelled>>
    BY <1>2 DEF CreateInference, GetInputFromFile, TypeOK, Jobs, history, Control
  <2>2. TypeOK'
    BY <1>2, <2>1 DEF CreateInference, GetInputFromFile, TypeOK, Statuses, Jobs
  <2>3. OutputIsItsOwn' /\ Files' /\ Settled'
    BY <2>1 DEF OutputIsItsOwn, Files, Settled, TypeOK, Jobs
  <2>4. Control' /\ Cancels'
    BY <2>1 DEF Control, Cancels, TypeOK, Jobs
  <2> QED  BY <2>2, <2>3, <2>4
<1> QED  BY <1>1, <1>2

\* The steps of the second loop that read the status of inference k or wait.
LEMMA WaitSteps ==
    ASSUME RInv, \/ AllSettled \/ ReportBefore \/ WaitReturns \/ WaitTimesOut \/ WaitThrows
                 \/ Confirm \/ ReportAfter
    PROVE  RInv'
<1> USE RunnerAssumption DEF RunnerAssumption, Starting, RInv
<1> USE DEF AllSettled, ReportBefore, WaitReturns, WaitTimesOut, WaitThrows, Confirm, ReportAfter,
            Continue, ThrowException, End
<1>1. /\ UNCHANGED <<forever, made, k, kernel, populated, file>>
      /\ pc \in {"status", "wait", "cancel", "confirm", "report"}
      /\ \/ code' = code /\ pc' \in {"cleanup", "wait", "unwind", "cancel", "report", "check"}
         \/ pc' = "done" /\ code' = "1"
  OBVIOUS
<1>2. /\ code = "none" /\ made = N /\ (pc # "status" => k \in Jobs)
      /\ expired \subseteq expired' /\ expired' \subseteq Jobs
      /\ cancelled' \subseteq Jobs
  <2>1. code = "none" /\ made = N /\ (pc # "status" => k \in Jobs)
    BY <1>1 DEF Control, TypeOK, Jobs
  <2>2. /\ expired' = expired \/ (expired' = expired \cup {k} /\ pc = "wait")
        /\ cancelled' = cancelled \/ (cancelled' = cancelled \cup {k} /\ pc = "cancel")
    BY DEF history
  <2> QED  BY <2>1, <2>2 DEF TypeOK
<1>3. /\ pc' = "cleanup" => k = N + 1
      /\ pc' \in {"wait", "cancel", "confirm", "report", "check"} => k \in Jobs
  BY DEF Control, TypeOK, Jobs
<1>4. TypeOK' /\ OutputIsItsOwn'
  BY <1>1, <1>2 DEF TypeOK, OutputIsItsOwn, Locations, kernel
<1>5. Control'
  BY <1>1, <1>2, <1>3 DEF Control, kernel, Jobs
<1>6. Files'
  BY <1>1 DEF Files, kernel
<1>7. pc' \in {"cancel", "confirm", "report", "check"} /\ k \notin expired' => status[k] \notin Waiting
  BY <1>3 DEF Settled, history
<1>8. Settled'
  BY <1>1, <1>2, <1>7 DEF Settled, kernel
<1>9. Cancels'
  BY DEF Cancels, history
<1> QED  BY <1>4, <1>5, <1>6, <1>8, <1>9

\* The steps that act on inference k: cancelling, deciding, writing, reporting.
LEMMA ResultSteps ==
    ASSUME RInv, \/ Cancel \/ Check \/ CheckThrows \/ WriteOfm \/ WriteOfmFails \/ PostProcess
    PROVE  RInv'
<1> USE RunnerAssumption DEF RunnerAssumption, Starting, RInv
<1>1. k \in Jobs /\ k \in Nat /\ made = N /\ code = "none" /\ k + 1 \in 1..(N + 1)
  BY DEF Cancel, Check, CheckThrows, WriteOfm, WriteOfmFails, PostProcess, Control, TypeOK, Jobs
<1>2. CASE Cancel
  <2>1. /\ pc = "cancel" /\ cancelled' = cancelled \cup {k}
        /\ UNCHANGED <<forever, made, k, ofm, populated, file, expired, code>>
        /\ pc' \in {"confirm", "report"}
    BY <1>2 DEF Cancel, Continue
  <2>2. /\ status' \in [Jobs -> Statuses]
        /\ \A i \in Jobs : i # k => status'[i] = status[i]
        /\ status'[k] # status[k] => status[k] = "RUNNING" /\ status'[k] \in {"ABORTED", "ABORTING"}
    BY <1>1, <1>2 DEF Cancel, TypeOK, Statuses
  <2>3. \A i \in Jobs : /\ status'[i] = "OK" <=> status[i] = "OK"
                        /\ status'[i] = "none" <=> status[i] = "none"
                        /\ status'[i] \in Waiting => status[i] \in Waiting
    BY <2>2 DEF Waiting
  <2>4. TypeOK'
    BY <1>1, <2>1, <2>2 DEF TypeOK, Locations
  <2>5. OutputIsItsOwn' /\ Files'
    BY <1>1, <2>1, <2>3 DEF OutputIsItsOwn, Files
  <2>6. Control' /\ Cancels'
    BY <1>1, <2>1, <2>3 DEF Control, Cancels
  <2>7. Settled'
    BY <1>1, <2>1, <2>3 DEF Settled
  <2> QED  BY <2>4, <2>5, <2>6, <2>7
<1>3. CASE Check
  <2>1. /\ pc = "check" /\ UNCHANGED <<forever, made, status, ofm, populated, file, expired, cancelled, code>>
        /\ \/ status[k] = "OK" /\ pc' = "write" /\ k' = k
           \/ status[k] # "OK" /\ pc' = "status" /\ k' = k + 1
    BY <1>3 DEF Check, Continue, kernel, history
  <2>2. TypeOK' /\ OutputIsItsOwn' /\ Control' /\ Cancels'
    BY <1>1, <2>1 DEF TypeOK, OutputIsItsOwn, Control, Cancels, Locations
  <2>3. Files' /\ Settled'
    BY <1>1, <2>1 DEF Files, Settled, Jobs
  <2> QED  BY <2>2, <2>3
<1>4. CASE CheckThrows \/ WriteOfmFails
  <2>1. /\ UNCHANGED <<forever, made, k, status, ofm, populated, file, expired, cancelled>>
        /\ \/ pc' = "unwind" /\ code' = code
           \/ pc' = "done" /\ code' = "1"
    BY <1>4 DEF CheckThrows, WriteOfmFails, ThrowException, End, kernel, history
  <2>2. TypeOK' /\ OutputIsItsOwn' /\ Control' /\ Cancels'
    BY <1>1, <2>1 DEF TypeOK, OutputIsItsOwn, Control, Cancels, Locations
  <2>3. Files' /\ Settled'
    BY <1>1, <2>1 DEF Files, Settled
  <2> QED  BY <2>2, <2>3
<1>5. CASE WriteOfm
  <2>1. PICK d \in {ofm[k], "short"} : file' = [file EXCEPT ![k] = [of |-> k, data |-> d]]
    BY <1>5 DEF WriteOfm, OfmIndex
  <2>2. /\ pc = "write" /\ UNCHANGED <<forever, made, k, status, ofm, populated, expired, cancelled, code>>
        /\ pc' \in {"post", "unwind"} /\ status[k] = "OK" /\ d \in {"result", "short"}
    BY <1>1, <1>5, <2>1 DEF WriteOfm, Continue, ThrowException, kernel, history, Files
  <2>3. /\ \A i \in Jobs : file'[i] = IF i = k THEN [of |-> k, data |-> d] ELSE file[i]
        /\ [of |-> k, data |-> d] # NoFile /\ file'[k].of = k /\ file'[k].data = d
    BY <1>1, <2>1 DEF TypeOK, NoFile, Jobs
  <2>4. TypeOK'
    BY <1>1, <2>1, <2>2 DEF TypeOK, Locations, Data
  <2>5. OutputIsItsOwn'
    BY <1>1, <2>2, <2>3 DEF OutputIsItsOwn
  <2>6. Control' /\ Cancels'
    BY <1>1, <2>2 DEF Control, Cancels
  <2>7. Files' /\ Settled'
    BY <1>1, <2>2, <2>3 DEF Files, Settled
  <2> QED  BY <2>4, <2>5, <2>6, <2>7
<1>6. CASE PostProcess
  <2>1. /\ pc = "post" /\ UNCHANGED <<forever, made, status, ofm, populated, file, expired, cancelled>>
        /\ \/ pc' = "status" /\ k' = k + 1 /\ code' = code
           \/ pc' = "unwind" /\ k' = k /\ code' = code
           \/ pc' = "done" /\ k' = k /\ code' \in {"1", "crash"}
    BY <1>6 DEF PostProcess, Continue, ThrowException, End, kernel, history
  <2>2. TypeOK' /\ OutputIsItsOwn' /\ Control' /\ Cancels'
    BY <1>1, <2>1 DEF TypeOK, OutputIsItsOwn, Control, Cancels, Locations
  <2>3. Files' /\ Settled'
    BY <1>1, <2>1 DEF Files, Settled, Jobs
  <2> QED  BY <2>2, <2>3
<1> QED  BY <1>2, <1>3, <1>4, <1>5, <1>6

\* The end of main(), and the kernel driver and firmware.
LEMMA OtherSteps ==
    ASSUME RInv, \/ Cleanup \/ Unwind \/ UNCHANGED vars
                 \/ \E i \in Jobs : code = "none" /\ (Produce(i) \/ Complete(i) \/ Abort(i))
    PROVE  RInv'
<1> USE RunnerAssumption DEF RunnerAssumption, Starting, RInv
<1>1. CASE Cleanup \/ Unwind
  <2>1. /\ UNCHANGED <<forever, made, k, status, ofm, populated, file, expired, cancelled>>
        /\ pc \in {"cleanup", "unwind"} /\ pc' = "done" /\ code' \in {"0", "1", "terminate"}
        /\ code' = "0" => pc = "cleanup"
    BY <1>1 DEF Cleanup, Unwind, End, kernel, history
  <2>2. TypeOK' /\ OutputIsItsOwn' /\ Control' /\ Cancels'
    BY <2>1 DEF TypeOK, OutputIsItsOwn, Control, Cancels, Locations
  <2>3. Files' /\ Settled'
    BY <2>1 DEF Files, Settled
  <2> QED  BY <2>2, <2>3
<1>2. CASE UNCHANGED vars
  BY <1>2 DEF vars, TypeOK, OutputIsItsOwn, Control, Cancels, Files, Settled
<1>3. ASSUME NEW i \in Jobs, Produce(i) \/ Complete(i) \/ Abort(i) PROVE RInv'
  <2>1. UNCHANGED <<pc, forever, made, k, populated, file, code, expired, cancelled>>
    BY <1>3 DEF Produce, Complete, Abort, history
  <2>2. /\ status' \in [Jobs -> Statuses] /\ ofm' \in [Jobs -> Data]
        /\ \A j \in Jobs : j # i => status'[j] = status[j] /\ ofm'[j] = ofm[j]
    BY <1>3 DEF Produce, Complete, Abort, TypeOK, Statuses, Data
  <2>3. /\ status[i] \in Waiting
        /\ status'[i] # "none"
        /\ status'[i] = "OK" => ofm'[i] = "result"
    BY <1>3 DEF Produce, Complete, Abort, Waiting, TypeOK
  <2>4. \A j \in Jobs : /\ status[j] = "OK" => status'[j] = "OK" /\ ofm'[j] = ofm[j]
                        /\ status'[j] = "none" => status[j] = "none"
                        /\ status[j] \notin Waiting => status'[j] = status[j]
                        /\ status'[j] = "OK" => status[j] = "OK" \/ j = i
    BY <2>2, <2>3 DEF Waiting
  <2>5. TypeOK' /\ Cancels'
    BY <2>1, <2>2 DEF TypeOK, Cancels
  <2>6. OutputIsItsOwn' /\ Control'
    BY <2>1, <2>4 DEF OutputIsItsOwn, Control
  <2>7. Files'
    BY <2>1, <2>3, <2>4 DEF Files, Control, TypeOK, Jobs
  <2>8. Settled'
    BY <2>1, <2>4 DEF Settled
  <2> QED  BY <2>5, <2>6, <2>7, <2>8
<1> QED  BY <1>1, <1>2, <1>3

\* The invariant is inductive.
LEMMA RunnerInductive == RInv /\ [Next]_vars => RInv'
BY SetupSteps, WaitSteps, ResultSteps, OtherSteps DEF Next, Runner, Firmware, Done

\* The variables of main() and the kernel's statuses keep their types.
THEOREM RunnerTypes == Spec => []TypeOK
<1>1. RInv => TypeOK
  BY DEF RInv
<1> QED  BY <1>1, RunnerInit, RunnerInductive, PTL DEF Spec

\* No OFM file of any run of the tool holds another inference's output, or the
\* buffers of one that failed, was aborted or is still running.
THEOREM OutputsRight == Spec => []OutputIsItsOwn
<1>1. RInv => OutputIsItsOwn
  BY DEF RInv
<1> QED  BY <1>1, RunnerInit, RunnerInductive, PTL DEF Spec

\* Exit status 0 never hides a result, in whichever order the firmware answers.
THEOREM ResultsKept == Spec => []ResultNotLost
<1>1. RInv => ResultNotLost
  <2> SUFFICES ASSUME RInv, code = "0", NEW i \in Jobs \ expired
               PROVE  status[i] \notin Waiting /\ (status[i] = "OK" => file[i] # NoFile)
    BY DEF ResultNotLost
  <2>1. k = N + 1 /\ i < k
    BY RunnerAssumption DEF RInv, Control, Jobs, RunnerAssumption
  <2> QED  BY <2>1 DEF RInv, Settled
<1> QED  BY <1>1, RunnerInit, RunnerInductive, PTL DEF Spec

\* With a timeout that is not negative, cancel() only follows a timeout.
THEOREM CancelsRight == Spec => []CancelOnlyOnTimeout
<1>1. RInv => CancelOnlyOnTimeout
  BY DEF RInv, Cancels, CancelOnlyOnTimeout
<1> QED  BY <1>1, RunnerInit, RunnerInductive, PTL DEF Spec

\* The runner implements BatchJob: inferences are settled in
\* the order of the command line, each is written at most once, and success is
\* reported after the last.
THEOREM RunnerImplementsBatch == Spec => BatchSafe
<1> USE RunnerAssumption DEF RunnerAssumption, Starting, Jobs
<1>1. Init => Batch!Init
  BY DEF Init, Batch!Init
<1>2. RInv /\ [Next]_vars => [Batch!Next]_Batch!vars
  <2> SUFFICES ASSUME RInv, [Next]_vars PROVE [Batch!Next]_Batch!vars
    OBVIOUS
  <2>1. CASE k' = k /\ file' = file /\ code' = code
    BY <2>1 DEF Batch!vars
  <2>2. CASE k' = k + 1 /\ file' = file /\ code' = code /\ code = "none" /\ k \in 1..N
    BY <2>2 DEF Batch!Next, Batch!Advance
  <2>3. CASE k' = k /\ file' = file /\ code = "none" /\ code' \in {"1", "terminate", "abort", "crash"}
    BY <2>3 DEF Batch!Next, Batch!Fail
  <2>4. CASE k' = k /\ file' = file /\ code = "none" /\ code' = "0" /\ k = N + 1
    BY <2>4 DEF Batch!Next, Batch!Succeed
  <2>5. CASE WriteOfm
    <3>1. k \in 1..N /\ file[k] = NoFile /\ code = "none" /\ code' = code /\ k' = k
      BY <2>5 DEF WriteOfm, Continue, ThrowException, RInv, Control, Files, TypeOK
    <3>2. PICK d \in {ofm[k], "short"} : file' = [file EXCEPT ![k] = [of |-> k, data |-> d]]
      BY <2>5 DEF WriteOfm, OfmIndex
    <3>3. {i \in 1..N : file'[i] # NoFile} = {i \in 1..N : file[i] # NoFile} \cup {k}
      BY <3>1, <3>2 DEF RInv, TypeOK, NoFile
    <3> QED  BY <3>1, <3>3 DEF Batch!Next, Batch!Write
  <2>6. CASE Check \/ PostProcess
    <3>1. k \in 1..N /\ code = "none"
      BY <2>6 DEF Check, PostProcess, RInv, Control, TypeOK
    <3> QED  BY <2>2, <2>1, <2>3, <2>6, <3>1 DEF Check, PostProcess, Continue, ThrowException, End
  <2>7. CASE \/ ParseArguments \/ OpenDevice \/ Setup \/ AllocAndFill \/ CreateNetwork
             \/ CreateInference \/ CreateInferenceFails \/ AllCreated
             \/ AllSettled \/ ReportBefore \/ WaitReturns \/ WaitTimesOut \/ WaitThrows \/ Cancel
             \/ Confirm \/ ReportAfter \/ CheckThrows \/ WriteOfmFails
    <3>1. k' = k /\ file' = file /\ code = "none" /\ (code' = code \/ code' \in {"1", "terminate", "abort", "crash"})
      BY <2>7 DEF ParseArguments, OpenDevice, Setup, AllocAndFill, CreateNetwork, CreateInference, CreateInferenceFails, AllCreated, AllSettled, ReportBefore,
          WaitReturns, WaitTimesOut, WaitThrows, Cancel, Confirm, ReportAfter, CheckThrows, WriteOfmFails,
          Continue, ThrowException, End, RInv, Control
    <3> QED  BY <2>1, <2>3, <3>1
  <2>8. CASE Cleanup \/ Unwind
    BY <2>3, <2>4, <2>8 DEF Cleanup, Unwind, End, RInv, Control
  <2>9. CASE \/ UNCHANGED vars \/ \E i \in Jobs : Produce(i) \/ Complete(i) \/ Abort(i)
    BY <2>1, <2>9 DEF vars, Produce, Complete, Abort
  <2> QED  BY <2>5, <2>6, <2>7, <2>8, <2>9 DEF Next, Runner, Firmware, Done
<1> QED  BY <1>1, <1>2, RunnerInit, RunnerInductive, PTL DEF Spec, BatchSafe, Batch!Spec
=============================================================================
