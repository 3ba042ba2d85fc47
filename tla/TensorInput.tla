---------------------------- MODULE TensorInput ----------------------------
(***************************************************************************)
(* How input tensors are filled: by a runner from image files              *)
(* (getInputFromFile(), called for every input tensor of every inference   *)
(* that createInference() prepares), or by a Python program from arrays    *)
(* (InterpreterWrapper::SetInput()).  A process is one or the other.       *)
(*                                                                         *)
(* A tensor is [type, shape]; `memory' holds the bytes of the tensors of   *)
(* the inference in preparation.  An array is [type, shape, order, first]: *)
(* its memory holds the numbers from `first' on, and its elements are laid *)
(* out in order "C" or, for a transposed view, "F".                        *)
(***************************************************************************)
EXTENDS ImageDecode, Sequences, Functions

CONSTANTS
    Models,  \* models of a runner, as sequences of their input tensors
    Scripted,\* models of a Python program
    Images,  \* files that can be read; the name of another file is NoFile
    NoFile,
    Arrays,
    MaxFiles \* bound on the files of a runner

\* A bitmap has columns and whole bytes per pixel.  The tensors of a runner have batch,
\* two sides and channels, and the batch, which the code does not look at, is 1.
ASSUME InputAssumption ==
    /\ Images \subseteq [width : Nat \ {0}, height : Int, channels : Nat \ {0}, first : Nat, size : Nat]
    /\ Models \subseteq Seq([type : STRING, shape : [1..4 -> Nat \ {0}]])
    /\ \A m \in Models : \A i \in DOMAIN m : m[i].shape[1] = 1
    /\ Scripted \subseteq Seq([type : STRING, shape : Seq(Nat)])
    /\ \A a \in Arrays : a.shape \in Seq(Nat) /\ a.first \in Nat
    /\ NoFile \notin Images \cup Arrays
    /\ MaxFiles \in Nat

VARIABLES
    model, python,
    sBuffer, \* static, of the process
    local,   \* what getInputFromFile() has left of its local buffer on the stack
    memory,
    file,    \* what the current inference is prepared from
    next,    \* its next tensor
    files,   \* files so far
    filled,  \* history: the image decoded or the array copied into each tensor
    end      \* "none" until the process ends early or its behaviour is undefined

vars == <<model, python, sBuffer, local, memory, file, next, files, filled, end>>

Supported == {"uint8", "int8", "float"}
Elements(tensor) == FoldFunction(LAMBDA a, b : a * b, 1, tensor.shape)
Bytes(tensor) == Elements(tensor) * (IF tensor.type = "float" THEN 4 ELSE 1)
Fresh == [i \in DOMAIN model |-> [p \in 0..(Bytes(model[i]) - 1) |-> Unspecified]]
Nothing == [i \in DOMAIN model |-> NoFile]
Unwritten == [p \in LocalBuffer |-> Unspecified]

Init == /\ \/ python = FALSE /\ model \in Models
           \/ python = TRUE /\ model \in Scripted
        /\ sBuffer = [p \in 0..(DecodeBufferSize - 1) |-> 0]
        /\ local = Unwritten
        /\ memory = Fresh /\ filled = Nothing
        /\ file = NoFile /\ next = Len(model) + 1 /\ files = 0
        /\ end = "none"

-----------------------------------------------------------------------------
\* createInference() for the next file: new buffers.
CreateInference == /\ end = "none" /\ ~python
                   /\ next > Len(model) /\ files < MaxFiles
                   /\ file' \in Images \cup {NoFile}
                   /\ memory' = Fresh /\ filled' = Nothing
                   /\ next' = 1 /\ files' = files + 1
                   /\ UNCHANGED <<model, python, sBuffer, local, end>>

Filling == end = "none" /\ ~python /\ next <= Len(model)
Tensor == model[next]

\* "Unknown input tensor data type"
UnknownType == /\ Filling /\ Tensor.type \notin Supported
               /\ end' = "exit"
               /\ UNCHANGED <<model, python, sBuffer, local, memory, file, next, files, filled>>

\* The file cannot be opened or read: the tensor remains as it is.
InputFails == /\ Filling /\ Tensor.type \in Supported /\ file = NoFile
              /\ next' = next + 1
              /\ UNCHANGED <<model, python, sBuffer, local, memory, file, files, filled, end>>

-----------------------------------------------------------------------------
HasHeader == file.size >= HeaderSize

Reading == Filling /\ Tensor.type \in Supported /\ file # NoFile

\* stream.read() over the local buffer, which has what the call before left there, if
\* nothing else has used the stack.  IMAGE_Decode() takes the file for an image: a file
\* without a header for any, by what there is on the stack.
Load(image) == /\ Reading /\ Fits(file)
               /\ HasHeader => image = file
               /\ \E left \in {local, Unwritten} : local' = Read(left, file)

\* A file that is larger than the local buffer is read over what lies behind it; and
\* IMAGE_Decode() runs out of a buffer, or has no header to go by.
ReadUndefined ==
    /\ Reading
    /\ ~Fits(file) \/ ~HasHeader \/ RunsOut(file)
    /\ end' = "undefined"
    /\ UNCHANGED <<model, python, sBuffer, local, memory, file, next, files, filled>>

Converted(bytes) == [p \in DOMAIN bytes |-> Convert(Tensor.type, bytes[p])]

\* IMAGE_Decode() returns -1, which is ignored.
DecodeRefuses(image) == /\ Load(image) /\ Refuses(image)
                        /\ memory' = [memory EXCEPT ![next] = Converted(@)]
                        /\ next' = next + 1
                        /\ UNCHANGED <<model, python, sBuffer, file, files, filled, end>>

\* assert(channels == dstChannels)
DecodeAborts(image) == /\ Load(image) /\ GoesOn(image) /\ image.channels # Tensor.shape[4]
                       /\ sBuffer' = Decode(sBuffer, local', image)
                       /\ end' = "abort"
                       /\ UNCHANGED <<model, python, memory, file, next, files, filled>>

\* The whole of getInputFromFile().  The second and third number of the shape are
\* taken for width and height.
GetInputFromFile(image) ==
    /\ Load(image) /\ GoesOn(image) /\ image.channels = Tensor.shape[4]
    /\ sBuffer' = Decode(sBuffer, local', image)
    /\ memory' = [memory EXCEPT ![next] =
                    Converted(Resize(@, sBuffer', image, Tensor.shape[2], Tensor.shape[3]))]
    /\ filled' = [filled EXCEPT ![next] = IF HasHeader THEN file ELSE NoFile]
    /\ next' = next + 1
    /\ UNCHANGED <<model, python, file, files, end>>

-----------------------------------------------------------------------------
\* Mutant: only the number of dimensions and the size are compared.
AcceptsSameSize(i, array) == /\ i \in DOMAIN model
                             /\ array.type = model[i].type
                             /\ Len(array.shape) = Len(model[i].shape)
                             /\ Elements(array) = Elements(model[i])

\* The checks of SetInput().
Accepts(i, array) == /\ i \in DOMAIN model
                     /\ array.type = model[i].type
                     /\ Len(array.shape) = Len(model[i].shape)
                     /\ \A j \in DOMAIN array.shape : array.shape[j] = model[i].shape[j]

\* SetInput(): the array's memory is copied as it is.
SetInput(i, array) ==
    /\ python /\ Accepts(i, array)
    /\ memory' = [memory EXCEPT ![i] = [p \in DOMAIN @ |-> (array.first + p) % 256]]
    /\ filled' = [filled EXCEPT ![i] = array]
    /\ UNCHANGED <<model, python, sBuffer, local, file, next, files, end>>

\* A check fails or the tensor's buffer cannot be looked up.
SetInputRaises == python /\ UNCHANGED vars

Done == /\ end # "none" \/ (~python /\ next > Len(model) /\ files = MaxFiles)
        /\ UNCHANGED vars

Next == \/ CreateInference \/ UnknownType \/ InputFails
        \/ ReadUndefined
        \/ \E image \in Images : DecodeRefuses(image) \/ DecodeAborts(image) \/ GetInputFromFile(image)
        \/ \E i \in 1..(Len(model) + 1), array \in Arrays : SetInput(i, array)
        \/ SetInputRaises
        \/ Done

Spec == Init /\ [][Next]_vars

-----------------------------------------------------------------------------
\* The types of the variables.
TypeOK == /\ python \in BOOLEAN /\ model \in IF python THEN Scripted ELSE Models
          /\ sBuffer \in [0..(DecodeBufferSize - 1) -> Byte \cup {Unspecified}]
          /\ local \in [LocalBuffer -> Byte \cup {Unspecified}]
          /\ \A i \in DOMAIN model :
                memory[i] \in [0..(Bytes(model[i]) - 1) -> Byte \cup {Unspecified, Garbled}]
          /\ file \in Images \cup {NoFile}
          /\ next \in 1..(Len(model) + 1) /\ files \in 0..MaxFiles
          /\ \A i \in DOMAIN model : filled[i] \in Images \cup Arrays \cup {NoFile}
          /\ end \in {"none", "exit", "abort", "undefined"}

Signed(byte) == IF byte > 127 THEN byte - 256 ELSE byte

\* int8 tensors hold the pixel minus 127, but the brightest pixel, 255, becomes the
\* smallest value.
Shows(type, byte, pixel) ==
    IF type = "uint8" THEN byte = pixel
    ELSE Signed(byte) = (IF pixel = 255 THEN -128 ELSE pixel - 127)

Black(type, byte) == Shows(type, byte, 0)

\* Row or column i of n shows row or column r of src: the one in whose middle half a
\* colour image's i lies, and of grey images one that begins at most one before it.
Near(i, n, r, src, channels) ==
    IF channels = 1 THEN i * src - r * n \in 0..n ELSE 2 * (i * src - r * n) \in (-n)..n

\* i lies beyond the middle of the last row or column.
Beyond(i, n, src) == 2 * i * src >= (2 * src - 1) * n

Height(image) == IF image.height < 0 THEN -image.height ELSE image.height
Rows(image) == 0..(Height(image) - 1)
Columns(image) == 0..(image.width - 1)
Colours(image) == 0..(image.channels - 1)

\* Tensor i has bytes that an image was decoded into.
ImageIn(i) == /\ ~python /\ filled[i] # NoFile
              /\ filled[i].channels \in {1, 3} /\ model[i].type # "float"

\* A square tensor shows an image: each byte is, in the right channel, that of one of
\* the pixels next to its place in the image, unless the file ends before that pixel;
\* only a colour image that is enlarged has an edge of black.
ShowsImage(i) ==
    LET image == filled[i]
        type == model[i].type
        side == model[i].shape[2]
        n == image.channels
        height == Height(image)
    IN  model[i].shape[3] = side =>
           \A r, c \in 0..(side - 1), k \in Colours(image) :
              LET byte == memory[i][(r * side + c) * n + k]
              IN  \/ \E y \in Rows(image), x \in Columns(image) :
                        /\ Near(r, side, y, height, n) /\ Near(c, side, x, image.width, n)
                        /\ InFile(image, y, x, k) => Shows(type, byte, Pixel(image, y, x, k))
                  \/ /\ n = 3 /\ Black(type, byte)
                     /\ Beyond(r, side, height) \/ Beyond(c, side, image.width)

\* A square tensor shows the image it was decoded from if its rows are bottom up.
TensorShowsImage == \A i \in DOMAIN model : ImageIn(i) /\ filled[i].height > 0 => ShowsImage(i)

\* "if height is negative, data layout is top down" (image_decode_bmp.cpp:46): a square
\* tensor shows the image it was decoded from also if its rows are top down.
TopDownShown == \A i \in DOMAIN model : ImageIn(i) /\ filled[i].height < 0 => ShowsImage(i)

\* A tensor that an image was decoded into holds nothing of the image before it, which
\* is still in the static buffer and on the stack: a byte is black or of this image,
\* whatever the shape of the tensor and the order of the rows; but for the bytes next
\* to whose places the file has no pixel because it ends before.
NoStalePixels ==
    \A i \in DOMAIN model : ImageIn(i) =>
       LET image == filled[i]
           width == model[i].shape[2]
           height == model[i].shape[3]
           n == image.channels
       IN  \A r \in 0..(height - 1), c \in 0..(width - 1), k \in Colours(image) :
              LET byte == memory[i][(r * width + c) * n + k]
              IN  \/ Black(model[i].type, byte)
                  \/ \E y \in Rows(image), x \in Columns(image) :
                        IF InFile(image, y, x, k)
                        THEN Shows(model[i].type, byte, Pixel(image, y, x, k))
                        ELSE Near(r, height, y, Height(image), n) /\ Near(c, width, x, image.width, n)

\* After SetInput() a tensor holds the elements of an array of its own type and
\* shape, in their order, if they lie in the array's memory in that order.
TensorIsArray ==
    \A i \in DOMAIN model :
       LET array == filled[i]
       IN  python /\ array # NoFile =>
              /\ array.type = model[i].type /\ array.shape = model[i].shape
              /\ array.order = "C" =>
                    \A p \in DOMAIN memory[i] : memory[i][p] = (array.first + p) % 256
=============================================================================
