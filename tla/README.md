# Verification of the Ethos-U Linux driver stack

TLA+ models of the user space part of this repository, model-checked with TLC,
and theorems about them proved with TLAPS. Paths and line numbers refer to the
repository.

## 1. The system

The stack lets Linux programs dispatch neural network inferences to a Cortex-M
subsystem with an Ethos-U NPU. A kernel driver hands out file descriptors for
buffers, networks and inferences; the firmware computes inferences at its own
pace and answers through the kernel. The repository holds the C++ driver library,
programs that use it, a Python wrapper and the interface header of the kernel
driver. The kernel driver's source is not part of it and there are no tests.

| Component | State it keeps | Operations | Interacts with |
|---|---|---|---|
| Driver library: `Device`, `Buffer`, `Network`, `Inference` (`driver_library/src/ethosu.cpp`, `include/ethosu.hpp`) | one file descriptor per object, one memory map per `Buffer`, `shared_ptr`s from `Network` and `Inference` to what they use | constructors (each a sequence of system calls), destructors, `resize`, getters | kernel: `open`, `ioctl`, `mmap`, `close`; client: shared ownership and exceptions |
| Driver library: waiting (`Inference::wait`, `cancel`, `status`) | none, the state is in the kernel | poll, cancel, query | kernel and firmware, which move on in between |
| Driver library: capabilities and `SemanticVersion` | none | copy of one answer, six comparison operators | clients that check versions |
| Driver library: `Interpreter` | one network, one arena `Buffer` for all tensors, the last `Inference`, PMU settings | constructor, `Invoke`, `SetPmuCycleCounters`, `GetPmuCounters`, tensor access | library objects above; firmware, through the arena |
| `inference_runner` | list of inferences, index of the OFM file | create one inference per IFM, wait for each, write one OFM file each | library, firmware, file system |
| `interpreter_runner` | arguments, labels | one pass: construct, set input, `Invoke`, rank and print, read counters | `Interpreter` |
| `ethosu_logd` (`dev_mem.cpp`, `main.cpp`) | a mapping of the firmware's ring buffer | look the ring up in the device tree, print, clear | device tree; firmware, through shared memory without a lock |
| Image decoding, result processing (`common/`) | a static decode buffer | decode, resize, convert, rank | runners |
| Python wrapper (`python/interpreter_wrapper.cpp`) | copies of the tensor descriptions | `set_input`, `invoke`, `get_output` | `Interpreter` |
| Kernel driver (`uapi/ethosu.h` only) | files, reference counts, inference status | ioctls | firmware |

What makes it hard:

* **Partial failure.** A constructor is several system calls, each of which may
  fail, within other constructors, with handlers that may themselves fail, and
  destructors that are declared `noexcept(false)` but run inside `shared_ptr`.
* **Timeouts racing with answers.** `wait`, `cancel` and four calls of `status`
  each see a different moment of a firmware that goes on working.
* **Shared memory.** The firmware works in the Interpreter's arena and in the log
  ring while user space reads and writes them.
* **Arithmetic on layouts.** Cells of a device tree, rows of a bitmap, padding,
  channels and types of a tensor: offsets that are right for the usual input and
  wrong for its neighbour, pixels chosen by divisions of doubles, and two buffers of
  fixed size, one static and one on the stack, that remember the last image.
* **What must hold.** No descriptor or map is leaked, closed twice or used after
  its owner's end; a failed call leaves no trace; an output file holds the result
  of its own inference and no result is silently lost; a returned `Invoke` gives
  the output of its own input; a printed log is bounded and never older than what
  was written; the mapped memory is what the device tree declares; a tensor holds
  the image it was filled from and nothing of the one before; the counters that are
  printed are those of the printed result; every call with a
  timeout comes back.

`PROJECT.json` lists the hazards line by line, with the properties that cover them.

## 2. Modules

| Module | Models | Extends / instantiates |
|---|---|---|
| `DriverLibrary` | objects of the library, descriptors, maps, shared ownership, exceptions | |
| `DriverLibrary_proofs` | six theorems about it | `DriverLibrary` |
| `MCDriverLibrary` | symmetry and names for TLC | `DriverLibrary` |
| `Interpreter` | class `Interpreter` with the library and the firmware | `DriverLibrary` (INSTANCE) |
| `Interpreter_proofs` | seven theorems about it | `Interpreter`, `DriverLibrary_proofs` (INSTANCE) |
| `BatchJob` | what `inference_runner` promises (abstract) | |
| `InferenceRunner` | `main` of `inference_runner` with kernel and firmware | `BatchJob` (INSTANCE, refinement mapping) |
| `InferenceRunner_proofs` | five theorems about it | `InferenceRunner` |
| `InterpreterRunner` | `main` of `interpreter_runner`, `getTopN`, `getBoundingBoxes` | `Interpreter` (INSTANCE) |
| `InterpreterRunner_proofs` | six theorems about it | `InterpreterRunner`, `Interpreter_proofs` (INSTANCE) |
| `MCInterpreterRunner` | output tensors for TLC, NaN and networks of other shapes among them | `InterpreterRunner` |
| `ImageDecode` | reading, decoding, resizing and conversion of a bitmap, as functions on bytes | |
| `TensorInput` | filling the input tensors, by the runners and by the Python wrapper | `ImageDecode` |
| `MCTensorInput` | models, images (complete, cut short, too large) and arrays for TLC | `TensorInput` |
| `TensorInput_proofs` | six theorems about decoding and filling | `TensorInput` |
| `DeviceTree` | the search for the ring in the device tree, as functions on cells | |
| `DeviceTree_proofs` | the lookup gives what was declared | `DeviceTree` |
| `PrintQueue` | `ethosu_logd` and the firmware's log ring | `DeviceTree` |
| `MCPrintQueue` | device trees for TLC | `PrintQueue` |
| `PrintQueue_proofs` | six theorems about it | `PrintQueue`, `DeviceTree_proofs` |
| `SemanticVersion` | the comparison operators | |
| `SemanticVersion_proofs` | four theorems about them | `SemanticVersion` |

### DriverLibrary

One client thread; every system call is a step with a successful and a failing
outcome. `pc` is the place in the library, `obj` the object whose constructor
runs, `encl` the `Inference` whose constructor runs the constructor of its arena
`Buffer`. `files` is the process's descriptor table, `fd` the member of each
object, `refs` its `shared_ptr` members, `held` the client's. A new descriptor is
the lowest free number, as in POSIX, so that use after close would hit another
object. `Throw` releases the members of what is under construction;
destructors then run in any order until nothing is unreferenced (`Destroy`,
`Released`). Handlers of a failed `mmap` or `NETWORK_INFO` close the descriptor
and, if that fails too, throw a nested exception (`BufferClose`, `NetworkClose`).
A destructor that throws inside `shared_ptr` ends the process (`DestroyFails`).

Abstractions: the vectors of IFM and OFM buffers are sets, so that one buffer is
passed at most once in each; a failing `close` releases the descriptor, as on
Linux; the `Device` outlives the other objects, which is the contract
of a class that hands out `const Device &` and which `Interpreter` is checked to
keep (`LibraryClient`); getters without effect are left out. A constructor that
runs out of descriptors fails like one whose ioctl is refused.

### Interpreter

Composes three parties: the Interpreter's own control (`at`), the steps of
`DriverLibrary` inside each call it makes, and the firmware. Its client may set
inputs, set PMU options, invoke with either kind of timeout, read counters and
destroy it in any order. Inputs are numbered; an output carries the number of the
input it was computed from, or `Partial`. An inference that `Invoke` stopped
waiting for goes on: closing its descriptor does not stop the firmware, and the
kernel keeps its buffers (README.md:105-107). Several inferences may be computed
at once (README.md:141). The members are destroyed in the reverse of their
declaration (`Declared`). `Invoke` assigns the new `Inference` before the old one
is released, so that both exist for a moment. `enableCycleCounter` is
the set of values the member may have: both, until it is set.

### BatchJob and InferenceRunner

`BatchJob` has a pointer to the inference that is settled next, the set of
written files and a result. `InferenceRunner` has one step per library call of
`main`, in the order of the code: the four calls of `status` are four steps
(`ReportBefore`, `Confirm`, `ReportAfter`, `Check`) between which the firmware may
move. Each may throw, to the handler in the loop (`WaitThrows`, exit status 1), to
the handler of `main` (`Unwind`) or, for nested exceptions and for `stoi` outside
of the try block, to nobody. Firmware steps are `Produce`, `Complete`, `Abort`.
The mapping to `BatchJob` takes `k`, the inferences with a file, and the exit
status.

Abstractions: of `getInputFromFile` the module knows whether the buffer was filled, and
that it may end the process (`CreateInferenceFails`): "abort" is the assertion of
`IMAGE_Decode`, "crash" undefined behaviour, which `TensorInput` models in detail. The
OFM data is empty, partial, the result or, as errors of the stream are not looked at,
short. Result processing is the step `PostProcess` with its ways to end, among them the
undefined behaviour that `InterpreterRunner` models in detail: a class without label,
two or three outputs, an output of one dimension. Undefined behaviour is taken to end
the process: what a program prints that goes on after it is not modelled.

### InterpreterRunner

Adds the place `main` of the program to the variables of `Interpreter`. While
`main` is inside the constructor, `Invoke` or the destructor, a step of `main` is
a step of `Interpreter` (`Construct`, `Invoking`, `Destroying` conjoin
`Interp!Step`), and in `at'` it sees whether the call has returned, thrown or
ended the process. Only `EthosU::Exception` is caught: a nested exception of the
library, and the number parsing outside of the try block, end in `terminate`;
`exit()` ends without unwinding. `InterpreterClient` states that what `main` does
is a behaviour of `Interpreter`, which in turn is one of `DriverLibrary`
(`LibraryClient`).

`main` parses `-t` and calls `Invoke()` with its default timeout nevertheless
(`options.negative` has no effect); it reads only the first IFM. What the firmware
leaves in the output tensors is an arbitrary member of `Outputs`: any number of tensors,
each of any type. Numbers are in units of 1/255 with the zero point of `int8`
(`Value`); those of a float tensor are taken to be in units that keep their order, and
may be `NaN`. `getTopN` keeps its results in a priority queue; `Best` follows the queue
element by element, and `TopRanked` compares the printed sequence with ranks that are
defined without it. `Descending` stands for the loop that pops the smallest element
until the queue is empty, and the reversal of what it has popped. NaN passes
`value < threshold` (pre_post_processing.h:123) and leaves the queue without an order,
so that any entries may remain in any order (`Unordered`); `TopRanked` speaks of outputs
without NaN, the type invariant of all.

The code does not ask whether the network has the tensors and dimensions it reads. Where
it has not, the behaviour is undefined and the process may crash: no input or one of
fewer than four dimensions (`GetInputFails`, with what `TensorInput` says of files), two
or three outputs, of which `getBoundingBoxes` reads the fourth
(pre_post_processing.h:93), or an output without a second dimension (`Lacking`,
`GetResultsCrashes`). Labels are counted: a class without a label is read from behind
the vector (`PrintCrashes`), as the file is not padded, although
interpreter_runner.cpp:63-65 speaks of padding. Detections are assumed to be at least as
many as the tensor counts, with classes that are not negative (`OutputAssumption`).

`CountersAreOwn` is about the end of `main`: the counters it reads must belong to the
inference whose results it has printed. It would be violated by a read after an
`Invoke` that failed or timed out, or before one has created an `Inference`
(`GetPmuCounters` dereferences a null pointer then).

### ImageDecode and TensorInput

`Stored` is what a bitmap file contains, `Read` the copy of the file to the local
buffer of `getInputFromFile`, `Decode` the loop of `IMAGE_Decode` with its offsets,
`Resize` the nearest neighbour of `IMAGE_Resize`, `Convert` the conversion to the
tensor's type, each a function from byte positions to bytes. A pixel's value tells where
it comes from, so that a wrong offset shows.

Both buffers are modelled. The static `s_buffer` (image_decode_bmp.cpp:30) stays between
two images. The local `s_buffer` (pre_post_processing.h:77) is not initialised, and the
file is read into it with no look at its size:

* A file that ends before its last pixel is decoded from what the stack holds. `local`
  is what the call before has left; the next call finds either that or, if the stack was
  used for other things, `Unspecified` bytes. (Any mixture of the two is possible; as
  the bytes are independent of each other, the two extremes show all values that one
  byte can have.)
* A file that is larger than the buffer is read over the stack: `ReadUndefined` ends the
  process as "undefined". So does `RunsOut`: an image whose padding lies behind the
  buffer, or whose sizes overflow the `int32_t` product that is compared with the buffer
  size (image_decode_bmp.cpp:50). A full 1920 by 1080 bitmap with 24 bits is such a
  file: its pixels fill the static buffer, and with its header it is too large for the
  local one. The image of 4 by 4 colour pixels in the run has the same proportions.
* Of a file without a whole header the leftovers of the stack are taken for the header:
  it may be decoded like any of `Images`. A header is either complete or arbitrary.

`IMAGE_Resize` divides doubles. `Nearest` is the whole part of the exact quotient, but
one less for the members of `RoundedDown`, where the quotient is whole and the doubles
fall short of it: a grey image of 400 columns resized to 220 gives column 59 instead of
60 for column 33. Only whole quotients can be affected: two divisions and a sum have a
relative error of a few 2^-53, and a quotient with denominator `dst` (or `2 dst`) that
is not whole is at least `1 / (2 dst)` away from one that is, which is larger as long as
`src` times `dst` is below 2^50. Which quotients fall short is a constant: the instance
has those that do for its sizes, computed with IEEE doubles, and the theorems hold for
every set of whole quotients (`DecodeAssumption`). `Near` therefore accepts, for grey
images, the pixel that begins exactly one before.

`TensorInput` calls these as the runners do, for one file after the other, with fresh
tensors; a step that fails leaves the tensor as it is. The Python wrapper copies an
array into a tensor after its checks of type and size. `assert(channels == dstChannels)`
is taken as active: no build file defines `NDEBUG`. Bitmaps have columns and whole
bytes per pixel; the tensors of a runner have four dimensions, and the code does not
look at the first, the batch, which is 1 for the models it is made for
(`InputAssumption`).

What the code does and the models follow: `shape[1]` and `shape[2]` are passed as width
and height, so that the image is transposed for tensors that are not square; four
channels are refused or, top down, accepted and left black; the brightest pixel of an
`int8` tensor becomes the smallest value (`Shows`); an enlarged colour image has a black
edge (`Beyond`); a float tensor is computed from floats made of pixel bytes. No
document says otherwise of these, and the properties accept them. Of bitmaps that are
stored top down image_decode_bmp.cpp:46 does say that they are decoded, and run
`TensorInputTopDown` shows that they are not.

### DeviceTree and PrintQueue

`DeviceTree` models cells: a node declares the numbers of cells, or has the
default, and `RegByIndex` computes the offset of an entry from them. `Compile` is
the device tree compiler (external), from sources that say which entry has which
address and size. Behind the end of `reg` any cell may be read. The code reads the
node's own `#address-cells`, not those of its bus, so that the property speaks of
nodes for which both agree. `isBigEndian()` is always false: cells are always
swapped, as on a little-endian machine.

`PrintQueue`: the firmware (`Boot`, `PutChar`) and the tool share `hsize`, `hread`,
`hwrite` and `ring`. The tool reads the header byte by byte, which is modelled as a
low and a high digit of the write position read in two steps, with the rest of the
header at the first: the position is torn if a carry falls in between (history
variable `torn`). Positions wrap at `Wrap`. `Start` chooses the options and maps what
any search of any of the trees may give, or size 0 with `--address`, with which the
tool therefore always fails (there is no option for the size, and the default
`LOG_SIZE_MAX` is not used); `End` unmaps it. A mapping that is too small for the
ring makes `PrintChar` fail. Characters are numbered in the order of writing, which
lets the properties speak of age.

### SemanticVersion

The operators as they are written, on records of three numbers, with
`Older` as the order that "major.minor.patch" stands for.

## 3. Runs

| Run | Question | Instance | Result |
|---|---|---|---|
| `DriverLibrary` | does any combination of failures leak, double-close or dangle, and does every call end? | 3 buffers, 1 network, 1 inference, 5 descriptors, `FdMax` 1; 202 thousand states | holds |
| `DriverLibraryIfm` | do the IFM descriptors fit? | 3 buffers, 1 network, 2 inferences, 6 descriptors, `FdMax` 1 | **violated** |
| `InferenceRunner` | are files and results right under timeouts and races, does the runner implement `BatchJob` and terminate? | 3 inferences, both kinds of timeout; 937 thousand | holds |
| `InferenceRunnerCancel` | is only what timed out cancelled, whatever the timeout? | 2 inferences | **violated** |
| `InferenceRunnerIfm` | is every inference created on filled buffers? | 2 inferences | **violated** |
| `Interpreter` | is the arena exclusive, the output fresh, the library used correctly, the end clean, and does `Invoke` return? | 2 invocations, 1 input besides none; 570 thousand | holds |
| `InterpreterCycles` | is the cycle counter only enabled on demand? | same | **violated** |
| `InterpreterRunner` | does the program print only results and counters of its own complete inference, rank them correctly, use `Interpreter` as it may, and end? | 1 inference, 2 results, outputs of up to 4 classes; 44 thousand | holds |
| `TensorInput` | do tensors hold the image or array they were filled from? | 10 models, 21 files, 36 arrays, 2 files after each other; 11 thousand | holds |
| `TensorInputTopDown` | are bitmaps that are stored top down decoded? | same | **violated** |
| `PrintQueue` | is the ring found, is the printed log bounded, never stale, exact when quiet? | ring of 2, positions modulo 9, 10 writes, 9 device trees; 1.1 million | holds |
| `VersionOrder` | is `<` the order of versions? | numbers 0..2; pairs of versions | **violated** |

What the violations show:

* `Inference::create` (ethosu.cpp:507-523) checks the IFM buffers against
  `ETHOSU_FD_MAX` but also stores the arena's descriptor in `ifm_fd`: the request
  can carry `ETHOSU_FD_MAX + 1` descriptors.
* `Inference::wait` (ethosu.cpp:555-566) returns "something is ready" for a
  negative timeout and "nothing is ready" otherwise. With `-t -1` the runner
  cancels every inference that completed. Results are not lost all the same
  (`ResultNotLost` holds), as the cancellation then has nothing to do.
* `createInference` ignores the result of `getInputFromFile`
  (inference_runner.cpp:116-122).
* `Interpreter::enableCycleCounter` is used without an initial value.
* The loop of `IMAGE_Decode` runs over the rows 0 to `height`, of which there is none
  when `height` is negative (image_decode_bmp.cpp:56), although the lines before and in
  the loop provide for rows that are stored top down. The image is accepted, and the
  tensor is black.
* `operator<` of `SemanticVersion` (ethosu.cpp:185-190) looks at minor and patch
  also when the major numbers decide: 2.0.0 < 1.1.0 and 1.1.0 < 2.0.0 both hold.
  `>` and `>=` are derived from it and inherit the error. Nothing in the repository
  compares versions.

Properties that hold only conditionally say so in their formula: `FreshOutput` and
`ArenaExclusive` speak of Interpreters that have not given up on an inference
(`Invoke` ignores the result of `wait`; afterwards nothing keeps the next
inference out of the arena), `NeverStale`, `QuietPrintIsExact` and
`ReaderNotAhead` of headers that were not torn and positions that did not wrap.
`MapsDeclaredQueue` speaks of nodes that declare the cell counts of their bus,
`TensorShowsImage` of square tensors of bytes and of images that are stored bottom up
(`TopDownShown` is the same for the others), `TopRanked` of outputs without NaN.
`TensorShowsImage` and `NoStalePixels` ask nothing of a byte next to a pixel that a file
is too short to have: there the bytes of the file before do arrive in the tensor.
`CountersSafe` begins with the first inference, `CountersAreOwn` holds from the start,
as the program reads no counter earlier. `PrintBounded` holds without any condition,
also for torn headers, of which nothing else is asked. That `ethosu_logd -c` drops
messages written between `print` and `clear`, and that it fails with `--address`, is
visible in the model, but no property asks for the opposite.

### Bounds

* 3 buffers, 1 network, 1 inference: enough for an arena of its own beside IFM and
  OFM buffers that are shared, an inference within the arena it is given, and
  cascades of five destructors. 5 descriptors are fewer than the 6 objects, so that
  the table also runs full. `FdMax` 1 puts the limit within reach. Two inferences
  alive at once are in run `Interpreter`, and in the theorems.
* 3 inferences in the runner: a first, a middle and a last one, each in any status.
* 2 invocations: an abandoned inference and its successor, with both
  `Inference` objects alive. One input and `NoInput` tell right from wrong.
* `Size` 2 and `Wrap` 9: positions pass the ring many times, wrap around once
  (10 writes), and carry from the low to the high digit three times. Mappings of 1
  to 3 characters hold the header alone, with a part of the ring, or all of it.
* Cells of `Base` 2 give addresses and sizes of 0 to 3. The trees have the entry
  first, second and third, twice, in a node of another device, in several
  compatible nodes with different cells, with an unterminated name, and in nodes
  whose cells are not those that are declared or are illegal.
* `DecodeBufferSize` 48 is a 4 by 4 colour image, `HeaderSize` is 4 and `IntMax` 111,
  so that one image fills the static buffer and not the local one, others are larger,
  and products overflow. Images are smaller, equal and larger than the tensors in each
  direction, with rows that need padding and rows that do not, top down, with 1, 3 and
  4 channels; files end in the header, with it, in the middle of the rows and with the
  last. Two sizes (14 to 18 grey, 7 to 18 colour) have a quotient that falls short in
  doubles, one per kind. Two files, so that the second meets the bytes of the first in
  both buffers.
* `TopSize` 2 with up to 4 classes: fewer classes than results, more, equal values,
  values at the `Threshold` of 59 (0.23 of 255) and beside it, up to 3 floats with NaN,
  2, 3 and 4 outputs of detections, no output and one of one dimension. 1 or 4 labels: too
  few and enough. One inference, as the program invokes once.
* Versions of 0..2 hold every way in which two versions can differ.

Constants only bound the instance; the theorems hold for every value.

### Fairness

* `DriverLibrary`: weak fairness of the thread inside a call. Nothing is
  assumed of the client between calls.
* `InferenceRunner`: weak fairness of `main`, without `WaitThrows`: `ppoll` may
  fail but cannot be relied on to fail. Nothing is asked of the firmware: with a
  timeout `ppoll` returns, and `Terminates` excepts the run in which a negative
  timeout meets an inference that is never answered.
* `InterpreterRunner`: weak fairness of `main`, without `wait` failing. Nothing is
  asked of the firmware: as the program never passes a negative timeout on, it ends
  even if the firmware never answers.
* `Interpreter`: weak fairness of the thread inside a call, nothing of the
  firmware; `InvokeReturns` is about timeouts that are not negative.

## 4. Theorems

`DriverLibrary_proofs` proves all six invariants of run `DriverLibrary`, for
every set of descriptors and objects, and every `FdMax`. The inductive invariant
`IInv` adds to the checked properties:

* `RefKinds`: inferences refer to networks and buffers, networks to buffers,
  buffers to nothing. References cannot form a cycle, which is what makes
  `shared_ptr` sufficient for `NothingLeftBehind`.
* `CallState`: which of `obj`, `encl` and `args` are in use at each place, that the
  object under construction is not yet alive, and how far it has come.
* `NoGarbage`: nothing unreferenced survives a return to the client.

`ThrowIsNeutral` compares two moments and has an invariant of its own,
`Rollback`: during a call the descriptor table differs from the snapshot only in
the objects constructed since, and these are garbage once the call has thrown.

`InferenceRunner_proofs` proves the invariants of run `InferenceRunner` for every
number of inferences and both kinds of timeout (`CancelOnlyOnTimeout` only for
timeouts that are not negative, where it is true). `RInv` adds where the loops
stand (`Control`), that a file is only written for the current inference and from
a complete result (`Files`), and that every inference the loop has passed is settled
or expired (`Settled`). `RunnerImplementsBatch` proves the refinement from it.

`DeviceTree_proofs` shows that decoding undoes the compiler: a cell at the offset
that `RegByIndex` computes is the cell of that entry (`CompiledCell`), one or two
cells give back their value (`Decoded`), the first name is the one that is found
(`NameDecoded`). `LookupFindsDeclared` puts them together for trees of any size,
searched in any order. What is read from any node lies within two cells
(`LookupRange`), also when its counts are wrong.

`PrintQueue_proofs` proves all six invariants of run `PrintQueue`, for every ring
size, word width, header and set of trees, and any number of characters. The
inductive invariant adds to the types:

* `Budget`: what has been printed and what is left to print fit into one ring, which
  `Skip` establishes; this needs nothing of the firmware.
* `Writer` and `Ring`: until it wraps, the firmware's position is the number of
  characters, and the place of a position holds its character or a newer one, its own
  for the last ring of positions. That two positions less than a ring apart never
  share a place is `SamePlace`.
* `Copied`: the low digit read is that of the position at the time, so that an untorn
  position is that position (`HeaderPosition`), which the firmware has only passed.
* `Progress`: while the firmware is quiet, what is printed is a prefix of what was to
  be printed.

`SemanticVersion_proofs` shows how far the operators are an order, for all versions:
`==` is equality (`EqualIsEquality`); an older version is always less, so that a
client that asks for "at least" never takes one that is too old (`OlderIsLess`);
versions that differ in one number are ordered correctly
(`SingleDifferenceIsOrdered`); but whenever the newer one has the smaller minor or
patch number, each of the two is less than the other (`LessIsNotAsymmetric`).

`Interpreter_proofs` proves that the Interpreter is a correct client of the library
(`ImplementsClient`) and all invariants of run `Interpreter`, for any number of
descriptors, inferences and inputs. `IInv` has these parts:

* the invariant of `DriverLibrary_proofs`, reached through the instance `LP`, and
  `OwnTypes`;
* `Holding` and `Calling`: which members exist at each place of the Interpreter, and
  inside which constructor of the library it may be;
* `Creation`: an inference exists in the kernel from the return of its constructor on,
  and from then on the Interpreter has one, which is what makes `GetPmuCounters` safe
  after the first inference (`CountersReadable`);
* `OneUser` and `Fresh`: as long as no `Invoke` has given up, what runs in the arena is
  what the current `Invoke` created, and if nothing ran when it began, its answer is
  that to its own input.

The parts are preserved together: the library's invariant holds only for steps the
library allows, and that the Interpreter's steps are such follows from `Holding` and
`Calling`. `GoneClean` then follows from the library's lemma that objects nobody holds
or refers to do not survive (`AllDropped`). `LibraryPromises` carries the library's
promises over to its use by the Interpreter, the neutrality of exceptions with the
invariant `Rollback` of its own.

`InterpreterRunner_proofs` continues one level up: `main` is a correct client of the
Interpreter (`ImplementsClient`), and therefore has all that is proved of it
(`InterpreterPromises`). `IInv` adds to the Interpreter's invariant where `main` and the
Interpreter are together (`Phase`), that nothing has run before `Invoke`
(`BeforeInvoke`), so that its answer is that to its own input and stays untouched to the
end of the process (`AfterInvoke`, which gives `OwnOutput` and, as the Interpreter still
holds that inference, `OwnCounters`), that the counters are never read without an
inference (`NoCrash`), and whose results are printed (`Report`).

`RankedTop` shows for an output of any length without NaN that `getTopN` prints the
right classes in the right order. The queue is a recursive function over the output.
Induction is done over a set, by its least counterexample (`Least`, `Induction`),
which the library's theorem about well-founded relations gives without an operator as
a parameter. With it, `QueueExists` shows that there is a function that satisfies the
recursion, so that `Best` is its last value (`BestIsQueue`), `StaysGreatest` that one
more element leaves the queue with the greatest of those that have come,
`OrderExists` that a finite set of results can be put in order, and `Ranks` that the
place in that order is given by the number of greater classes.

`TensorInput_proofs` is arithmetic first: `Division`, `Quotient` and `ProductOrder` say
when an offset splits into a row and a place in it. `WithinBuffers` says that an image
the loop goes on with, and that does not run out in the way that ends the model, is read
inside of the local and written inside of the static buffer: the undefined ends of
the model are all there are. `DecodeIsImage` shows that the loop of `IMAGE_Decode` puts
every byte that the file has of an image that is stored bottom up where it belongs,
whatever both buffers held before. `NearestIsNear` bounds how far the chosen pixel is
off, for every set of quotients that fall short; `Resized` says what the resized bytes
are, and `ElementsProduct` evaluates the product of the four sides of a tensor. The
invariant of the process is `Types`, `Ahead` (tensors are filled in their order) and
`Exact` (a filled tensor shows at every place what `IMAGE_Resize` writes there for its
own image, if the file has the pixel it takes), from which `NothingStale` and
`ImageArrives` follow for images, files and tensors of any size; `ArrayArrives` is the
same for the Python wrapper. `TypeCorrect` of this module is about types only: where the
code may write is the matter of `WithinBuffers`.

Assumptions are those on the constants (`FdAssumption`, `ObjectAssumption`,
`CountAssumption`, `InterpreterAssumption`, `RunnerAssumption` of both runners,
`OutputAssumption`, `DecodeAssumption`, `InputAssumption`, `QueueAssumption`,
`BaseAssumption`), which TLC evaluates.

Only model-checked: liveness (`CallsReturn`, `Terminates` of both runners,
`InvokeReturns`), which is outside of what the prover can do. Every invariant and every
refinement that a passing run checks is also a theorem.

## 5. Not modelled

* The kernel driver and the firmware: only their interface is in the repository.
  The models contain what user space relies on, marked external.
* The stub library (link-time replacement, not built by default), setup scripts,
  printing, logging.
* `getIfmBuffers` and `getOfmBuffers` return mutable references; no client in
  the repository changes the vectors.
* Contents, offset and size of a `Buffer` in the driver library: the models know
  whose data a buffer holds. A capacity of 4 GiB or more is cut to 32 bits for the
  kernel but not for `mmap` (ethosu.cpp:250); what the kernel's `mmap` then does is
  not in the repository.
* What a process does after undefined behaviour, and what the stack holds but for what
  an earlier call of `getInputFromFile` left.
* Bitmaps of no columns or of fewer than 8 bits per pixel, and the offset of the pixels
  that a header declares.
* The values of a float tensor beyond that they are not the pixels', and the order of
  the elements of array views that are not contiguous: no document says what they
  should be.
* The lists of tensor details and the copy in `GetOutput` of the Python wrapper,
  which change no state.

## 6. Plan

1. Done: `DriverLibrary`, `InferenceRunner` with `BatchJob`, `Interpreter`,
   `InterpreterRunner`, `ImageDecode` with `TensorInput`, `DeviceTree` with
   `PrintQueue`, `SemanticVersion`; proofs of the safety properties of all of them.
2. Left to prove: what holds where the properties make an exception, above all which
   inferences can be in the arena after an `Invoke` that gave up, what
   `ethosu_logd` prints from a torn header, and which tensors the transposed sides of a
   tensor that is not square still fill correctly.
3. Left to state: what a torn header may make `clear` do to the reader's position, if
   the owners of the firmware settle what it may rely on.
