---------------------------- MODULE MCTensorInput ----------------------------
(***************************************************************************)
(* Models, images and arrays for checking TensorInput: grey, colour and    *)
(* alpha, bottom up and top down, smaller, larger and of the size of the   *)
(* tensors; files that end early, that fill the local buffer and that are  *)
(* larger; sizes for which the doubles of IMAGE_Resize() fall short.       *)
(***************************************************************************)
EXTENDS TensorInput

Tensor4(type, height, width, channels) ==
    [type |-> type, shape |-> <<1, height, width, channels>>]

MCModels ==
    {<<Tensor4("uint8", 2, 2, 3)>>, <<Tensor4("int8", 2, 2, 1)>>, <<Tensor4("int8", 4, 4, 3)>>,
     <<Tensor4("uint8", 3, 3, 1)>>, <<Tensor4("uint8", 2, 3, 1)>>, <<Tensor4("uint8", 3, 3, 4)>>,
     <<Tensor4("uint8", 18, 18, 1)>>, <<Tensor4("uint8", 18, 18, 3)>>,
     <<Tensor4("uint8", 3, 3, 3), Tensor4("int8", 2, 2, 3)>>,
     <<Tensor4("float", 2, 2, 1), Tensor4("int16", 2, 2, 1)>>}

\* The doubles of i / (1.0 * dst / src) give 6.99.. for i = 9, dst = 18, src = 14, and
\* with 0.5 added 3.99.. for src = 7; for no other sizes of these models and images do
\* they fall short.
MCRoundedDown == {<<9, 14, 18, 1>>, <<9, 7, 18, 3>>}

File(width, height, channels, first, size) ==
    [width |-> width, height |-> height, channels |-> channels, first |-> first, size |-> size]

\* A file that ends with the last row.
Image(width, height, channels, first) ==
    LET image == File(width, height, channels, first, 0)
    IN  [image EXCEPT !.size = HeaderSize + Height(image) * RowSize(image)]

MCImages ==
    {Image(3, 3, 3, 100), Image(2, 2, 3, 250), Image(1, 2, 3, 30), Image(2, 1, 3, 40),
     Image(5, 4, 1, 60), Image(1, 1, 1, 255), Image(2, 3, 1, 126),
     Image(2, 2, 4, 1), Image(1, -2, 4, 2), Image(2, -2, 3, 5), Image(3, -3, 1, 7),
     Image(14, 1, 1, 20), Image(7, 1, 3, 20),
     Image(4, 4, 3, 9),         \* its pixels fill the static buffer
     File(3, 3, 3, 1, 17),      \* ends in the second row that is stored
     File(3, 3, 1, 80, HeaderSize), \* a header and nothing else
     File(1, 12, 1, 50, 48),    \* padding behind the local buffer
     File(2, 2, 3, 9, 0),
     File(5, 5, 3, 9, 20), File(3, 40, 3, 11, 20), File(3, -40, 1, 12, 20)} \* too large, overflows

Array(type, shape, order, first) == [type |-> type, shape |-> shape, order |-> order, first |-> first]

MCScripted == {<<[type |-> "int8", shape |-> <<2, 3>>], [type |-> "uint8", shape |-> <<3, 2>>]>>}

MCArrays == {Array(type, shape, order, base + shape[1]) :
                type \in {"int8", "uint8", "float"}, shape \in {<<2, 3>>, <<3, 2>>, <<6>>},
                order \in {"C", "F"}, base \in {0, 250}}
=============================================================================
