------------------------------ MODULE BatchJob ------------------------------
(***************************************************************************)
(* What the inference runner promises: the inferences of one invocation    *)
(* are settled one after the other in the order of their IFM files, each   *)
(* gets at most one OFM file, and success is reported only when all of     *)
(* them have been settled.                                                 *)
(***************************************************************************)
EXTENDS Naturals

CONSTANT N   \* number of IFM files

VARIABLES
    next,    \* the inference that is settled next
    written, \* inferences whose OFM file has been written
    result   \* what the invocation reported

vars == <<next, written, result>>

Init == next = 1 /\ written = {} /\ result = "running"

Write == /\ result = "running"
         /\ next \in (1..N) \ written
         /\ written' = written \cup {next}
         /\ UNCHANGED <<next, result>>

Advance == /\ result = "running"
           /\ next \in 1..N
           /\ next' = next + 1
           /\ UNCHANGED <<written, result>>

Succeed == /\ result = "running" /\ next = N + 1
           /\ result' = "success"
           /\ UNCHANGED <<next, written>>

Fail == /\ result = "running"
        /\ result' = "failure"
        /\ UNCHANGED <<next, written>>

Next == Write \/ Advance \/ Succeed \/ Fail

Spec == Init /\ [][Next]_vars
=============================================================================
