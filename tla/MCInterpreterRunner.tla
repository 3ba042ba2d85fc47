------------------------- MODULE MCInterpreterRunner -------------------------
(***************************************************************************)
(* Output tensors for checking InterpreterRunner: up to 4 classes below,   *)
(* at and above the threshold, up to 3 floats of which some are no number, *)
(* and up to 3 detections; and networks whose outputs the code does not    *)
(* expect.                                                                 *)
(***************************************************************************)
EXTENDS InterpreterRunner

Classification(type, data) == [tensors |-> 1, dims |-> 2, type |-> type, data |-> data]
Detections(tensors, count) ==
    [tensors |-> tensors, count |-> count,
     data |-> <<[class |-> 2, score |-> 80], [class |-> 0, score |-> NaN], [class |-> 3, score |-> 10]>>]
Numbers(type) == IF type = "int8" THEN {-70, -69, 127} ELSE {58, 59, 255}

MCOutputs ==
    UNION {{Classification(type, data) : data \in [1..n -> Numbers(type)]} :
              type \in {"uint8", "int8"}, n \in 1..4}
    \cup UNION {{Classification("float", data) : data \in [1..n -> {58, 60, NaN}]} : n \in 1..3}
    \cup {Detections(4, n) : n \in 0..3}
    \* Without a fourth tensor, a second dimension or any tensor.
    \cup {Detections(2, 3), Detections(3, 3), [Classification("uint8", <<59>>) EXCEPT !.dims = 1],
          [Classification("uint8", <<59>>) EXCEPT !.tensors = 0]}
=============================================================================
