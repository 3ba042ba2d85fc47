----------------------------- MODULE PrintQueue -----------------------------
(***************************************************************************)
(* ethosu_logd: the firmware's print queue, a ring buffer in memory that   *)
(* it shares with Linux, and the tool that prints and clears it            *)
(* (utils/ethosu_logd/dev_mem.cpp and main()).                             *)
(*                                                                         *)
(* The firmware writes while the tool reads, without any lock.  The tool   *)
(* copies the header byte by byte: the write position is read as a low     *)
(* digit and then a high digit of base Digit, and the firmware may advance *)
(* it in between.  Positions are 32 bits wide, Wrap stands for 2^32.       *)
(* Characters are numbered in the order in which they were written.        *)
(***************************************************************************)
EXTENDS DeviceTree

CONSTANTS
    Size,      \* header.size once the firmware has initialised the queue
    Digit,     \* values of one digit of header.write
    Header,    \* sizeof(LogHeader)
    DeviceTrees, \* trees the tool may find, as sets of the sources of their nodes
    MaxWrites  \* bound on the number of characters the firmware writes

Wrap == Digit * Digit

ASSUME QueueAssumption ==
    /\ Size \in Nat \ {0} /\ Digit \in Nat \ {0} /\ Header \in Nat \ {0}
    /\ \A tree \in DeviceTrees : \A source \in tree : IsSource(source)
    /\ MaxWrites \in Nat

VARIABLES
    hsize, hread, hwrite, \* the header fields size, read and write
    ring,                 \* the characters behind the header
    total,                \* history: characters written so far
    pc,
    opts,                 \* options: address given, clearBefore, clearAfter
    mapped,               \* DevMem's address and size, history: the tree they are from
    low,                  \* low digit of header.write read so far
    hdr,                  \* the tool's copy of the header
    rpos,                 \* Log::print()'s position
    out,                  \* what print() has printed, with the positions
    code,                 \* exit status of the last invocation
    since,                \* history: total when print() began
    torn                  \* history: some header.write was read inconsistently

firmware == <<hsize, hwrite, ring, total>>
vars == <<hsize, hread, hwrite, ring, total, pc, opts, mapped, low, hdr, rpos, out,
          code, since, torn>>

\* The nodes of the tree that the tool may find an entry in.
Users(tree) == {source \in tree : source.compatible}
Lookups(tree) == Lookup({Compile(source) : source \in tree})

NoChar == -1
NotMapped == [tree |-> {}, address |-> 0, size |-> 0]
NoOpts == [address |-> FALSE, before |-> FALSE, after |-> FALSE]

Init == /\ hsize = 0 /\ hread = 0 /\ hwrite = 0
        /\ ring = [i \in 0..(Size - 1) |-> NoChar]
        /\ total = 0
        /\ pc = "idle" /\ opts = NoOpts /\ mapped = NotMapped
        /\ low = 0 /\ hdr = [size |-> 0, read |-> 0, write |-> 0]
        /\ rpos = 0 /\ out = <<>> /\ code = "none" /\ since = 0 /\ torn = FALSE

-----------------------------------------------------------------------------
\* Firmware
Boot == /\ hsize = 0
        /\ hsize' = Size
        /\ UNCHANGED <<hread, hwrite, ring, total, pc, opts, mapped, low, hdr, rpos, out,
                       code, since, torn>>

PutChar == /\ hsize = Size /\ total < MaxWrites
           /\ ring' = [ring EXCEPT ![hwrite % Size] = total]
           /\ hwrite' = (hwrite + 1) % Wrap
           /\ total' = total + 1
           /\ UNCHANGED <<hsize, hread, pc, opts, mapped, low, hdr, rpos, out, code, since, torn>>

-----------------------------------------------------------------------------
\* The tool is started.  Without --address the mapping is taken from the device
\* tree, with it the size stays 0.
Start == /\ pc = "idle"
         /\ opts' \in [address : BOOLEAN, before : BOOLEAN, after : BOOLEAN]
         /\ IF opts'.address THEN mapped' = NotMapped
            ELSE \E tree \in DeviceTrees : \E entry \in Lookups(tree) \ {Failed} :
                    mapped' = [tree |-> tree, address |-> entry.address, size |-> entry.size]
         /\ pc' = IF opts'.before THEN "clearBefore" ELSE "print"
         /\ out' = <<>> /\ code' = "none" /\ since' = total
         /\ UNCHANGED <<firmware, hread, low, hdr, rpos, torn>>

\* An option that is not known or -h, /dev/mem cannot be opened or mapped, no
\* device tree entry: the tool ends before it touches the queue.
StartFails == /\ pc = "idle"
              /\ code' \in {"0", "1"}
              /\ opts' = NoOpts /\ out' = <<>>
              /\ UNCHANGED <<firmware, hread, pc, mapped, low, hdr, rpos, since, torn>>

\* The destructor of DevMem unmaps the memory.
End(status) == pc' = "idle" /\ code' = status /\ mapped' = NotMapped

\* An exception reaches main().
Fail == End("1")

\* DevMem::read() of the header, as far as the low digit of header.write ...
ReadLow == /\ pc \in {"clearBefore", "print", "clearAfter"}
           /\ Header <= mapped.size
           /\ low' = hwrite % Digit
           /\ hdr' = [size |-> hsize, read |-> hread, write |-> hwrite]
           /\ pc' = CASE pc = "clearBefore" -> "highBefore"
                      [] pc = "print" -> "high"
                      [] pc = "clearAfter" -> "highAfter"
           /\ UNCHANGED <<firmware, hread, opts, mapped, rpos, out, code, since, torn>>

ReadFails == /\ pc \in {"clearBefore", "print", "clearAfter"}
             /\ Header > mapped.size
             /\ Fail
             /\ UNCHANGED <<firmware, hread, opts, low, hdr, rpos, out, since, torn>>

\* ... and the high digit.  The value is wrong when the carry fell in between.
HeaderWrite == (hwrite \div Digit) * Digit + low
Torn == hwrite \div Digit # hdr.write \div Digit

\* Mutant: clear() writes the position after the next character.
ClearTooFar == /\ pc \in {"highBefore", "highAfter"}
               /\ hread' = HeaderWrite + 1
               /\ torn' = (torn \/ Torn)
               /\ End("0")
               /\ UNCHANGED <<firmware, opts, low, hdr, rpos, out, since>>

\* Log::clear(), before and after print().  The size is not checked.
Clear == /\ pc \in {"highBefore", "highAfter"}
         /\ hread' = HeaderWrite
         /\ torn' = (torn \/ Torn)
         /\ IF pc = "highBefore" THEN pc' = "print" /\ UNCHANGED <<code, mapped>>
            ELSE End("0")
         /\ since' = IF pc = "highBefore" THEN total ELSE since
         /\ UNCHANGED <<firmware, opts, low, hdr, rpos, out>>

\* Mutants: the reader is never moved forward, always, or one too far.
SkipNever(r, w) == r
SkipAlways(r, w) == w - hdr.size
SkipTooFar(r, w) == IF r + hdr.size < w THEN w - hdr.size + 1 ELSE r

\* Log::print()'s first position: at most `size' behind the writer.
Skip(r, w) == IF r + hdr.size < w THEN w - hdr.size ELSE r

\* Log::print() with its copy of the header.  A size other than the one the
\* firmware sets is outside of LOG_SIZE_MIN..LOG_SIZE_MAX.
PrintBegin == /\ pc = "high"
              /\ hdr.size = Size
              /\ hdr' = [hdr EXCEPT !.write = HeaderWrite]
              /\ rpos' = Skip(hdr.read, HeaderWrite)
              /\ torn' = (torn \/ Torn)
              /\ pc' = "loop"
              /\ UNCHANGED <<firmware, hread, opts, mapped, low, out, code, since>>

\* "Incorrect ring buffer values"
PrintRefuses == /\ pc = "high" /\ hdr.size # Size
                /\ Fail
                /\ UNCHANGED <<firmware, hread, opts, low, hdr, rpos, out, since, torn>>

\* Mutant: the position is advanced before it is used.
OffsetOffByOne(r) == (r + 1) % hdr.size

\* The index of position r behind the header.
Offset(r) == r % hdr.size

PrintChar == /\ pc = "loop" /\ rpos < hdr.write
             /\ Offset(rpos) + Header + 1 <= mapped.size
             /\ out' = Append(out, [pos |-> rpos, char |-> ring[Offset(rpos)]])
             /\ rpos' = rpos + 1
             /\ UNCHANGED <<firmware, hread, pc, opts, mapped, low, hdr, code, since, torn>>

PrintCharFails == /\ pc = "loop" /\ rpos < hdr.write
                  /\ Offset(rpos) + Header + 1 > mapped.size
                  /\ Fail
                  /\ UNCHANGED <<firmware, hread, opts, low, hdr, rpos, out, since, torn>>

PrintEnd == /\ pc = "loop" /\ rpos >= hdr.write
            /\ IF opts.after THEN pc' = "clearAfter" /\ UNCHANGED <<code, mapped>>
               ELSE End("0")
            /\ UNCHANGED <<firmware, hread, opts, low, hdr, rpos, out, since, torn>>

Next == \/ Boot \/ PutChar
        \/ Start \/ StartFails
        \/ ReadLow \/ ReadFails \/ Clear
        \/ PrintBegin \/ PrintRefuses \/ PrintChar \/ PrintCharFails \/ PrintEnd

Spec == Init /\ [][Next]_vars

-----------------------------------------------------------------------------
Locations == {"idle", "clearBefore", "highBefore", "print", "high", "loop",
              "clearAfter", "highAfter"}

TypeOK == /\ hsize \in {0, Size} /\ hread \in 0..(Wrap - 1) /\ hwrite \in 0..(Wrap - 1)
          /\ ring \in [0..(Size - 1) -> 0..MaxWrites \cup {NoChar}]
          /\ total \in 0..MaxWrites
          /\ pc \in Locations
          /\ opts \in [address : BOOLEAN, before : BOOLEAN, after : BOOLEAN]
          /\ mapped \in [tree : DeviceTrees \cup {{}}, address : 0..(Base * Base - 1),
                        size : 0..(Base * Base - 1)]
          /\ low \in 0..(Digit - 1)
          /\ hdr \in [size : {0, Size}, read : 0..(Wrap - 1), write : 0..(Wrap - 1)]
          /\ rpos \in Nat /\ since \in 0..MaxWrites
          /\ out \in Seq([pos : Nat, char : 0..MaxWrites \cup {NoChar}])
          /\ code \in {"none", "0", "1"} /\ torn \in BOOLEAN

\* One invocation prints at most one ring of characters, whatever the firmware
\* does meanwhile and however the header was read: print() comes to an end.
PrintBounded == Len(out) <= Size

\* A position is printed as the character that was written there or as a newer
\* one that has replaced it, never as an older one and never as memory that was
\* not written, if no header was torn and the position did not wrap around.
NeverStale ==
    ~torn /\ total < Wrap =>
       \A j \in 1..Len(out) : out[j].char >= out[j].pos

\* When the firmware is quiet the output is exact: what was written since the
\* last clear, the last `Size' characters of it if there were more.
QuietPrintIsExact ==
    pc = "loop" /\ rpos >= hdr.write /\ total = since /\ ~torn /\ total < Wrap =>
       LET first == IF hread + Size < total THEN total - Size ELSE hread
       IN  out = [j \in 1..(total - first) |-> [pos |-> first + j - 1, char |-> first + j - 1]]

\* clear() never moves the reader past the writer, where it would hide the
\* messages to come, unless the header was torn or the position wrapped.
ReaderNotAhead == ~torn /\ total < Wrap => hread <= total

\* Whatever order the directories are read in, the tool maps the memory that a
\* compatible node declares as its first "print_queue"; for nodes whose cells are
\* those of their bus.
MapsDeclaredQueue ==
    mapped.tree # {} /\ (\A source \in Users(mapped.tree) : Described(source)) =>
       \E source \in Users(mapped.tree) : \E i \in Queues(source) :
          /\ \A j \in Queues(source) : i <= j
          /\ mapped.address = source.entries[i].address /\ mapped.size = source.entries[i].size
=============================================================================
