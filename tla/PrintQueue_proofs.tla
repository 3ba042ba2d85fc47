-------------------------- MODULE PrintQueue_proofs --------------------------
(***************************************************************************)
(* Proofs about PrintQueue, for every ring size, header, word width and    *)
(* set of device trees, and any number of characters.                      *)
(***************************************************************************)
EXTENDS PrintQueue, DeviceTree_proofs, SequenceTheorems

Char == 0..MaxWrites \cup {NoChar}
Printed == [pos : Nat, char : Char]

\* In the loop, what has been printed and what is still to be printed make at
\* most one ring; before it nothing has been printed.
Budget == /\ pc \in {"clearBefore", "highBefore", "print", "high"} => out = <<>>
          /\ pc = "loop" => hdr.size = Size /\ (rpos < hdr.write => Len(out) + (hdr.write - rpos) <= Size)
          /\ Len(out) <= Size

QInv == TypeOK /\ Budget

\* Until it wraps around, the firmware's position counts the characters.
Writer == /\ total < Wrap => hwrite = total
          /\ since <= total

\* A place of the ring holds the character of any position that it stands for or a
\* newer one; for the last ring of positions it is exact.
Ring == total < Wrap =>
           \A p \in 0..(total - 1) : /\ ring[p % Size] >= p
                                     /\ p >= total - Size => ring[p % Size] = p

\* The copy of the header is not ahead of the firmware, nor is the reader.
Copied == /\ pc \in {"highBefore", "high", "highAfter"} =>
                low = hdr.write % Digit /\ (total < Wrap => hdr.write <= total)
          /\ pc = "loop" /\ ~torn /\ total < Wrap => hdr.write <= total

\* While the firmware is quiet, what has been printed is what was to be printed up
\* to rpos.
Quiet == total = since /\ ~torn /\ total < Wrap
First == IF hread + Size < total THEN total - Size ELSE hread
Progress ==
    Quiet =>
       /\ pc \in {"high", "loop"} => hdr.write = total /\ hdr.read = hread
       /\ pc = "loop" => /\ rpos \in First..total
                         /\ Len(out) = rpos - First
                         /\ \A j \in 1..Len(out) :
                               out[j] = [pos |-> First + j - 1, char |-> First + j - 1]

History == Writer /\ Ring /\ Copied /\ ReaderNotAhead /\ NeverStale /\ Progress
HInv == QInv /\ History

-----------------------------------------------------------------------------
\* A position and a digit give a position, its own digits the position itself.
LEMMA DigitArithmetic ==
    ASSUME NEW a \in 0..(Wrap - 1), NEW l \in 0..(Digit - 1)
    PROVE  /\ (a \div Digit) * Digit + l \in 0..(Wrap - 1)
           /\ a % Digit \in 0..(Digit - 1)
           /\ (a \div Digit) * Digit + (a % Digit) = a
<1> USE QueueAssumption DEF QueueAssumption
<1>1. Digit \in Nat \ {0}
  OBVIOUS
<1>2. a \in Nat /\ a < Digit * Digit
  BY <1>1 DEF Wrap
<1> DEFINE q == a \div Digit
           r == a % Digit
<1>3. q \in Nat /\ r \in 0..(Digit - 1) /\ a = Digit * q + r
  BY <1>1, <1>2
<1> HIDE DEF q, r
<1>4. q >= Digit => Digit * q >= Digit * Digit
  BY <1>1, <1>3
<1>5. q \in 0..(Digit - 1)
  BY <1>1, <1>2, <1>3, <1>4
<1>6. (Digit - 1 - q) * Digit >= 0 /\ q * Digit >= 0
  BY <1>1, <1>5
<1>7. (Digit - 1 - q) * Digit = Digit * Digit - Digit - q * Digit
  BY <1>1, <1>5
<1>8. q * Digit + l \in 0..(Digit * Digit - 1)
  BY <1>1, <1>3, <1>6, <1>7
<1>9. q * Digit = Digit * q
  BY <1>1, <1>3
<1> QED  BY <1>3, <1>8, <1>9 DEF q, r, Wrap

\* Two positions less than one ring apart share a place only if they are equal.
LEMMA SamePlace ==
    ASSUME NEW a \in Nat, NEW b \in Nat, a <= b, b < a + Size, a % Size = b % Size
    PROVE  a = b
<1>1. Size \in Nat \ {0}
  BY QueueAssumption DEF QueueAssumption
<1> DEFINE qa == a \div Size
           qb == b \div Size
           r == a % Size
<1>2. qa \in Nat /\ qb \in Nat /\ r \in Nat /\ a = Size * qa + r /\ b = Size * qb + r
  <2>1. \A c \in Nat : c \div Size \in Nat /\ c % Size \in Nat /\ c = Size * (c \div Size) + (c % Size)
    BY <1>1
  <2> QED  BY <2>1
<1> HIDE DEF qa, qb, r
<1>3. b - a = Size * (qb - qa)
  BY <1>1, <1>2
<1>4. qb - qa >= 1 => Size * (qb - qa) >= Size
  BY <1>1, <1>2
<1>5. qb - qa <= -1 => Size * (qb - qa) <= -Size
  BY <1>1, <1>2
<1>6. qb - qa = 0
  BY <1>1, <1>2, <1>3, <1>4, <1>5
<1>7. Size * 0 = 0
  BY <1>1
<1> QED  BY <1>3, <1>6, <1>7

\* The header's position is a position, the one that was there if it is not torn.
LEMMA HeaderPosition ==
    ASSUME TypeOK
    PROVE  /\ HeaderWrite \in 0..(Wrap - 1)
           /\ hwrite % Digit \in 0..(Digit - 1)
           /\ ~Torn /\ low = hdr.write % Digit => HeaderWrite = hdr.write
<1>1. hwrite \in 0..(Wrap - 1) /\ low \in 0..(Digit - 1) /\ hdr.write \in 0..(Wrap - 1)
  BY DEF TypeOK
<1>2. ~Torn => hwrite \div Digit = hdr.write \div Digit
  BY DEF Torn
<1> QED  BY <1>1, <1>2, DigitArithmetic DEF HeaderWrite

-----------------------------------------------------------------------------
\* The initial state.
LEMMA QueueInit == Init => QInv
<1> SUFFICES ASSUME Init PROVE QInv
  OBVIOUS
<1> USE QueueAssumption, BaseAssumption DEF QueueAssumption, BaseAssumption
<1>1. 0 \in 0..(Wrap - 1)
  <2>1. Digit * Digit >= 1
    OBVIOUS
  <2> QED  BY <2>1 DEF Wrap
<1>2. 0 \in 0..(Base * Base - 1)
  <2>1. Base * Base >= 1
    OBVIOUS
  <2> QED  BY <2>1
<1>3. mapped \in [tree : DeviceTrees \cup {{}}, address : 0..(Base * Base - 1),
                  size : 0..(Base * Base - 1)]
  BY <1>2 DEF Init, NotMapped
<1>4. torn \in BOOLEAN
  BY Zenon DEF Init
<1>5. TypeOK
  BY <1>1, <1>3, <1>4 DEF Init, TypeOK, NoChar, NoOpts, Locations
<1> QED  BY <1>5 DEF Init, QInv, Budget

\* A mapping that the device tree gives is well-typed.
LEMMA MappingType ==
    ASSUME NEW tree \in DeviceTrees, NEW entry \in Lookups(tree) \ {Failed}
    PROVE  entry.address \in 0..(Base * Base - 1) /\ entry.size \in 0..(Base * Base - 1)
<1>1. \A source \in tree : IsSource(source)
  BY QueueAssumption DEF QueueAssumption
<1> QED  BY <1>1, LookupRange DEF Lookups, Values

\* No step of the tool or of the firmware breaks a type.
LEMMA TypeStep == TypeOK /\ Budget /\ [Next]_vars => TypeOK'
<1> SUFFICES ASSUME TypeOK, Budget, [Next]_vars PROVE TypeOK'
  OBVIOUS
<1> USE QueueAssumption, BaseAssumption DEF QueueAssumption, BaseAssumption
<1>1. Wrap \in Nat \ {0}
  <2>1. Digit * Digit >= 1 /\ Digit * Digit \in Int
    OBVIOUS
  <2> QED  BY <2>1 DEF Wrap
<1>2. NotMapped \in [tree : DeviceTrees \cup {{}}, address : 0..(Base * Base - 1),
                     size : 0..(Base * Base - 1)]
  <2>1. Base * Base >= 1
    OBVIOUS
  <2> QED  BY <2>1 DEF NotMapped
<1> USE <1>1
<1>3. CASE Boot
  BY <1>3 DEF Boot, TypeOK
<1>4. CASE PutChar
  <2>1. hwrite \in 0..(Wrap - 1) /\ total + 1 \in 0..MaxWrites
    BY <1>4 DEF PutChar, TypeOK
  <2>2. (hwrite + 1) % Wrap \in 0..(Wrap - 1)
    BY <2>1
  <2> QED  BY <1>4, <2>1, <2>2 DEF PutChar, TypeOK
<1>5. CASE Start
  <2>1. mapped' \in [tree : DeviceTrees \cup {{}}, address : 0..(Base * Base - 1),
                     size : 0..(Base * Base - 1)]
    <3>1. CASE opts'.address
      BY <1>2, <1>5, <3>1 DEF Start
    <3>2. CASE ~opts'.address
      <4>1. PICK tree \in DeviceTrees : \E entry \in Lookups(tree) \ {Failed} :
               mapped' = [tree |-> tree, address |-> entry.address, size |-> entry.size]
        BY <1>5, <3>2 DEF Start
      <4>2. PICK entry \in Lookups(tree) \ {Failed} :
               mapped' = [tree |-> tree, address |-> entry.address, size |-> entry.size]
        BY <4>1
      <4> QED  BY <4>2, MappingType
    <3> QED  BY <3>1, <3>2
  <2>2. pc' \in Locations /\ out' = <<>> /\ code' = "none" /\ since' = total
        /\ UNCHANGED <<hsize, hread, hwrite, ring, total, low, hdr, rpos, torn>>
    BY <1>5 DEF Start, firmware, Locations
  <2>3. opts' \in [address : BOOLEAN, before : BOOLEAN, after : BOOLEAN]
    BY <1>5, Zenon DEF Start
  <2> QED  BY <2>1, <2>2, <2>3 DEF TypeOK
<1>6. CASE StartFails
  BY <1>6 DEF StartFails, TypeOK, firmware, NoOpts
<1>7. CASE ReadLow
  <2>1. pc' \in Locations
    BY <1>7 DEF ReadLow, Locations
  <2> QED  BY <1>7, <2>1, HeaderPosition DEF ReadLow, TypeOK, firmware
<1>8. CASE ReadFails \/ PrintRefuses \/ PrintCharFails
  BY <1>2, <1>8 DEF ReadFails, PrintRefuses, PrintCharFails, Fail, End, TypeOK, firmware, Locations
<1>9. CASE Clear
  <2>1. pc' \in Locations /\ code' \in {"none", "0", "1"} /\ mapped' \in {mapped, NotMapped}
        /\ since' \in 0..MaxWrites
    BY <1>9 DEF Clear, End, Locations, TypeOK
  <2>2. torn' \in BOOLEAN
    BY <1>9, Zenon DEF Clear
  <2> QED  BY <1>2, <1>9, <2>1, <2>2, HeaderPosition DEF Clear, TypeOK, firmware
<1>10. CASE PrintBegin
  <2>1. hdr' \in [size : {0, Size}, read : 0..(Wrap - 1), write : 0..(Wrap - 1)]
    BY <1>10, HeaderPosition DEF PrintBegin, TypeOK
  <2>2. rpos' \in Nat
    <3>1. HeaderWrite \in Nat /\ hdr.read \in Nat /\ hdr.size \in Nat
      <4>1. 0..(Wrap - 1) \subseteq Nat /\ hdr \in [size : {0, Size}, read : 0..(Wrap - 1), write : 0..(Wrap - 1)]
        BY DEF TypeOK
      <4> QED  BY <4>1, HeaderPosition
    <3>2. rpos' = IF hdr.read + hdr.size < HeaderWrite THEN HeaderWrite - hdr.size ELSE hdr.read
      BY <1>10 DEF PrintBegin, Skip
    <3> QED  BY <3>1, <3>2
  <2>3. torn' \in BOOLEAN
    BY <1>10, Zenon DEF PrintBegin
  <2> QED  BY <1>10, <2>1, <2>2, <2>3 DEF PrintBegin, TypeOK, firmware, Locations
<1>11. CASE PrintChar
  <2>1. hdr.size = Size /\ rpos \in Nat
    BY <1>11 DEF PrintChar, Budget, TypeOK
  <2>2. rpos % Size \in 0..(Size - 1)
    BY <2>1
  <2>3. [pos |-> rpos, char |-> ring[rpos % Size]] \in Printed
    BY <2>1, <2>2 DEF TypeOK, Printed, Char
  <2>4. out' \in Seq(Printed)
    BY <1>11, <2>1, <2>3, AppendProperties DEF PrintChar, Offset, TypeOK, Printed, Char
  <2> QED  BY <1>11, <2>1, <2>4 DEF PrintChar, TypeOK, firmware, Printed, Char
<1>12. CASE PrintEnd
  BY <1>2, <1>12 DEF PrintEnd, End, TypeOK, firmware, Locations
<1>13. CASE UNCHANGED vars
  BY <1>13 DEF vars, TypeOK
<1> QED
  BY <1>3, <1>4, <1>5, <1>6, <1>7, <1>8, <1>9, <1>10, <1>11, <1>12, <1>13 DEF Next

\* Every step keeps the budget.
LEMMA BudgetStep == TypeOK /\ Budget /\ [Next]_vars => Budget'
<1> SUFFICES ASSUME TypeOK, Budget, [Next]_vars PROVE Budget'
  OBVIOUS
<1> USE QueueAssumption DEF QueueAssumption
<1>1. HeaderWrite \in Nat /\ Len(out) \in Nat /\ Len(<<>>) = 0
  <2>1. 0..(Wrap - 1) \subseteq Nat
    OBVIOUS
  <2> QED  BY <2>1, HeaderPosition DEF TypeOK
<1>2. CASE Boot \/ PutChar
  BY <1>2 DEF Boot, PutChar, Budget
<1>3. CASE Start
  <2>1. pc' # "loop" /\ out' = <<>>
    BY <1>3 DEF Start
  <2> QED  BY <1>1, <2>1 DEF Budget
<1>4. CASE StartFails
  BY <1>1, <1>4 DEF StartFails, Budget
<1>5. CASE ReadLow
  <2>1. pc' \in {"highBefore", "high", "highAfter"} /\ (pc' # "highAfter" => out = <<>>) /\ out' = out
    BY <1>5 DEF ReadLow, Budget
  <2> QED  BY <2>1 DEF Budget
<1>6. CASE ReadFails \/ PrintRefuses \/ PrintCharFails
  BY <1>6 DEF ReadFails, PrintRefuses, PrintCharFails, Fail, End, Budget
<1>7. CASE Clear
  BY <1>7 DEF Clear, End, Budget
<1>8. CASE PrintBegin
  <2>1. /\ hdr.size = Size /\ out = <<>> /\ out' = out /\ pc' = "loop"
        /\ hdr' = [hdr EXCEPT !.write = HeaderWrite]
        /\ rpos' = IF hdr.read + Size < HeaderWrite THEN HeaderWrite - Size ELSE hdr.read
    BY <1>8 DEF PrintBegin, Skip, Budget
  <2>2. hdr'.size = Size /\ hdr'.write = HeaderWrite
    BY <2>1 DEF TypeOK
  <2>3. hdr.read \in Nat
    <3>1. 0..(Wrap - 1) \subseteq Nat /\ hdr.read \in 0..(Wrap - 1)
      BY DEF TypeOK
    <3> QED  BY <3>1
  <2>4. HeaderWrite - rpos' <= Size /\ rpos' \in Int
    BY <1>1, <2>1, <2>3
  <2>5. Len(out') = 0
    BY <2>1
  <2> QED  BY <1>1, <2>1, <2>2, <2>4, <2>5 DEF Budget
<1>9. CASE PrintChar
  <2>1. /\ hdr.size = Size /\ rpos < hdr.write /\ rpos' = rpos + 1 /\ hdr' = hdr /\ pc' = "loop"
        /\ Len(out) + (hdr.write - rpos) <= Size
    BY <1>9 DEF PrintChar, Budget
  <2>2. Len(out') = Len(out) + 1
    BY <1>9, AppendProperties DEF PrintChar, TypeOK
  <2>3. rpos \in Nat /\ hdr.write \in Nat
    BY DEF TypeOK
  <2> QED  BY <1>1, <2>1, <2>2, <2>3 DEF Budget
<1>10. CASE PrintEnd
  BY <1>10 DEF PrintEnd, End, Budget
<1>11. CASE UNCHANGED vars
  BY <1>11 DEF vars, Budget
<1> QED
  BY <1>2, <1>3, <1>4, <1>5, <1>6, <1>7, <1>8, <1>9, <1>10, <1>11 DEF Next

\* Types and budget are an inductive invariant.
LEMMA QueueInductive == QInv /\ [Next]_vars => QInv'
BY TypeStep, BudgetStep DEF QInv

\* Every variable stays within its type: positions within 32 bits, the mapping
\* within what the cells of the device tree can say.
THEOREM QueueTypes == Spec => []TypeOK
<1>1. QInv => TypeOK
  BY DEF QInv
<1> QED  BY <1>1, QueueInit, QueueInductive, PTL DEF Spec

\* Log::print() reads and prints at most header.size characters, with the
\* firmware writing all the time and with any header.write it may have seen.
THEOREM PrintEnds == Spec => []PrintBounded
<1>1. QInv => PrintBounded
  BY DEF QInv, Budget, PrintBounded
<1> QED  BY <1>1, QueueInit, QueueInductive, PTL DEF Spec

-----------------------------------------------------------------------------
\* The ages of characters: what a step does to positions and to their histories.

\* The firmware writes a character over the one a ring before.
LEMMA PutCharHistory == QInv /\ History /\ PutChar => History'
<1> SUFFICES ASSUME QInv, History, PutChar PROVE History'
  OBVIOUS
<1> USE QueueAssumption DEF QueueAssumption
<1>1. /\ total' = total + 1 /\ hwrite' = (hwrite + 1) % Wrap
      /\ ring' = [ring EXCEPT ![hwrite % Size] = total]
      /\ UNCHANGED <<hread, pc, low, hdr, rpos, out, since, torn>>
  BY DEF PutChar
<1>2. /\ total \in Nat /\ since \in Nat /\ hwrite \in 0..(Wrap - 1) /\ hread \in Nat /\ hdr.write \in Nat
      /\ ring \in [0..(Size - 1) -> Int]
  BY DEF QInv, TypeOK, NoChar
<1>3. Wrap \in Nat /\ Wrap' = Wrap
  <2>1. Digit * Digit \in Nat
    OBVIOUS
  <2> QED  BY <2>1 DEF Wrap
<1>4. Writer'
  <2>1. total + 1 < Wrap => (hwrite + 1) % Wrap = total + 1
    BY <1>2, <1>3 DEF History, Writer
  <2> QED  BY <1>1, <1>2, <1>3, <2>1 DEF History, Writer
<1>5. Ring'
  <2> SUFFICES ASSUME total' < Wrap, NEW p \in 0..(total' - 1)
               PROVE  ring'[p % Size] >= p /\ (p >= total' - Size => ring'[p % Size] = p)
    BY DEF Ring
  <2>1. hwrite = total /\ total < Wrap
    BY <1>1, <1>2, <1>3 DEF History, Writer
  <2>2. total % Size \in 0..(Size - 1) /\ p % Size \in 0..(Size - 1) /\ p \in Nat /\ p <= total
    BY <1>1, <1>2
  <2>3. CASE p % Size = total % Size
    <3>1. ring'[p % Size] = total
      BY <1>1, <1>2, <2>1, <2>2, <2>3
    <3>2. p >= total' - Size => p = total
      <4> SUFFICES ASSUME p >= total' - Size PROVE p = total
        OBVIOUS
      <4>1. total < p + Size
        BY <1>1, <1>2, <2>2
      <4> QED  BY <1>2, <2>2, <2>3, <4>1, SamePlace
    <3> QED  BY <1>2, <2>2, <3>1, <3>2
  <2>4. CASE p % Size # total % Size
    <3>1. p # total
      BY <2>4
    <3>2. p \in 0..(total - 1)
      BY <1>2, <2>2, <3>1
    <3>3. ring'[p % Size] = ring[p % Size]
      BY <1>1, <1>2, <2>1, <2>2, <2>4
    <3>4. p >= total' - Size => p >= total - Size
      BY <1>1, <1>2, <2>2
    <3> QED  BY <2>1, <3>2, <3>3, <3>4 DEF History, Ring
  <2> QED  BY <2>3, <2>4
<1>6. total' < Wrap => total < Wrap
  BY <1>1, <1>2, <1>3
<1>7. Copied'
  <2>1. (total < Wrap => hdr.write <= total) => (total' < Wrap => hdr.write <= total')
    BY <1>1, <1>2, <1>6
  <2> QED  BY <1>1, <1>2, <1>3, <1>6, <2>1 DEF History, Copied
<1>8. ReaderNotAhead'
  BY <1>1, <1>2, <1>3, <1>6 DEF History, ReaderNotAhead
<1>9. NeverStale'
  <2> SUFFICES ASSUME ~torn, total' < Wrap PROVE \A j \in 1..Len(out) : out[j].char >= out[j].pos
    BY <1>1, <1>3 DEF NeverStale
  <2> QED  BY <1>6 DEF History, NeverStale
<1>10. Progress'
  <2>1. ~(total' = since')
    BY <1>1, <1>2 DEF History, Writer
  <2> QED  BY <2>1 DEF Progress, Quiet
<1> QED  BY <1>4, <1>5, <1>7, <1>8, <1>9, <1>10 DEF History

\* The steps of the tool that only read the header or come to an end.
LEMMA ControlHistory ==
    QInv /\ History /\ (Boot \/ Start \/ StartFails \/ ReadLow \/ ReadFails \/ PrintRefuses
                        \/ PrintCharFails \/ PrintEnd \/ UNCHANGED vars) => History'
<1> USE QueueAssumption DEF QueueAssumption
<1>1. ASSUME QInv, History, UNCHANGED <<hread, hwrite, ring, total, low, hdr, rpos, out, since, torn>>,
             pc' = pc \/ pc' \notin {"highBefore", "high", "highAfter", "loop"}
      PROVE  History'
  <2>1. Writer' /\ Ring' /\ ReaderNotAhead' /\ NeverStale'
    BY <1>1 DEF History, Writer, Ring, ReaderNotAhead, NeverStale
  <2>2. Copied' /\ Progress'
    <3>1. CASE pc' = pc
      BY <1>1, <3>1 DEF History, Copied, Progress, Quiet, First
    <3>2. CASE pc' # pc
      BY <1>1, <3>2 DEF Copied, Progress
    <3> QED  BY <3>1, <3>2
  <2> QED  BY <2>1, <2>2 DEF History
<1>2. ASSUME QInv, History, Start \/ StartFails PROVE History'
  <2>1. /\ out' = <<>> /\ since' \in {since, total}
        /\ UNCHANGED <<hread, hwrite, ring, total, low, hdr, rpos, torn>>
        /\ pc' \notin {"highBefore", "high", "highAfter", "loop"}
    <3>1. CASE Start
      BY <3>1 DEF Start, firmware
    <3>2. CASE StartFails
      BY <3>2 DEF StartFails, firmware
    <3> QED  BY <1>2, <3>1, <3>2
  <2>2. Writer' /\ Ring' /\ ReaderNotAhead'
    BY <1>2, <2>1 DEF QInv, TypeOK, History, Writer, Ring, ReaderNotAhead
  <2>3. NeverStale' /\ Copied' /\ Progress'
    BY <2>1 DEF NeverStale, Copied, Progress
  <2> QED  BY <2>2, <2>3 DEF History
<1>3. ASSUME QInv, History, ReadLow PROVE History'
  <2>1. /\ low' = hwrite % Digit /\ hdr' = [size |-> hsize, read |-> hread, write |-> hwrite]
        /\ pc' \in {"highBefore", "high", "highAfter"}
        /\ UNCHANGED <<hread, hwrite, ring, total, rpos, out, since, torn>>
    BY <1>3 DEF ReadLow, firmware
  <2>2. Writer' /\ Ring' /\ ReaderNotAhead' /\ NeverStale'
    BY <1>3, <2>1 DEF History, Writer, Ring, ReaderNotAhead, NeverStale
  <2>3. Copied'
    BY <1>3, <2>1 DEF QInv, TypeOK, History, Writer, Copied
  <2>4. Progress'
    BY <1>3, <2>1 DEF QInv, TypeOK, History, Writer, Progress, Quiet
  <2> QED  BY <2>2, <2>3, <2>4 DEF History
<1>4. ASSUME QInv, History, Boot \/ ReadFails \/ PrintRefuses \/ PrintCharFails \/ PrintEnd \/ UNCHANGED vars
      PROVE  History'
  <2>1. /\ UNCHANGED <<hread, hwrite, ring, total, low, hdr, rpos, out, since, torn>>
        /\ pc' = pc \/ pc' \notin {"highBefore", "high", "highAfter", "loop"}
    BY <1>4 DEF Boot, ReadFails, PrintRefuses, PrintCharFails, PrintEnd, Fail, End, firmware, vars
  <2> QED  BY <1>1, <1>4, <2>1
<1> QED  BY <1>2, <1>3, <1>4

\* clear(): the reader's new position is the firmware's of a moment ago.
LEMMA ClearHistory == QInv /\ History /\ Clear => History'
<1> SUFFICES ASSUME QInv, History, Clear PROVE History'
  OBVIOUS
<1>1. /\ hread' = HeaderWrite /\ torn' = (torn \/ Torn) /\ since' \in {since, total}
      /\ pc' \in {"print", "idle"} /\ pc \in {"highBefore", "highAfter"}
      /\ UNCHANGED <<hwrite, ring, total, low, hdr, rpos, out>>
  BY DEF Clear, End, firmware
<1>2. Writer' /\ Ring'
  BY <1>1 DEF QInv, TypeOK, History, Writer, Ring
<1>3. Copied' /\ Progress'
  BY <1>1 DEF Copied, Progress
<1>4. NeverStale'
  BY <1>1 DEF History, NeverStale
<1>5. ReaderNotAhead'
  <2> SUFFICES ASSUME ~torn', total < Wrap PROVE HeaderWrite <= total
    BY <1>1 DEF ReaderNotAhead
  <2>1. ~Torn
    BY <1>1
  <2>2. HeaderWrite = hdr.write
    BY <1>1, <2>1, HeaderPosition DEF QInv, History, Copied
  <2> QED  BY <1>1, <2>2 DEF History, Copied
<1> QED  BY <1>2, <1>3, <1>4, <1>5 DEF History

\* print() starts at most one ring behind the firmware.
LEMMA PrintBeginHistory == QInv /\ History /\ PrintBegin => History'
<1> SUFFICES ASSUME QInv, History, PrintBegin PROVE History'
  OBVIOUS
<1> USE QueueAssumption DEF QueueAssumption
<1>1. /\ pc = "high" /\ hdr.size = Size /\ hdr' = [hdr EXCEPT !.write = HeaderWrite]
      /\ rpos' = IF hdr.read + Size < HeaderWrite THEN HeaderWrite - Size ELSE hdr.read
      /\ torn' = (torn \/ Torn) /\ pc' = "loop" /\ out = <<>>
      /\ UNCHANGED <<hread, hwrite, ring, total, low, out, since>>
  BY DEF PrintBegin, Skip, firmware, QInv, Budget
<1>2. /\ hdr.read \in Nat /\ hread \in Nat /\ total \in Nat /\ hdr'.write = HeaderWrite /\ hdr'.read = hdr.read
  BY <1>1 DEF QInv, TypeOK
<1>3. ~torn' => ~torn /\ HeaderWrite = hdr.write
  BY <1>1, HeaderPosition DEF QInv, History, Copied
<1>4. Writer' /\ Ring' /\ NeverStale' /\ ReaderNotAhead'
  BY <1>1 DEF History, Writer, Ring, NeverStale, ReaderNotAhead
<1>5. Copied'
  BY <1>1, <1>2, <1>3 DEF History, Copied
<1>6. Progress'
  <2> SUFFICES ASSUME Quiet'
               PROVE  /\ HeaderWrite = total /\ hdr.read = hread
                      /\ rpos' \in First..total /\ 0 = rpos' - First
    <3>1. First' = First /\ Len(out') = 0 /\ total' = total /\ hread' = hread /\ rpos' = rpos'
      BY <1>1 DEF First
    <3> QED  BY <1>2, <3>1 DEF Progress
  <2>1. Quiet
    BY <1>1, <1>3 DEF Quiet
  <2>2. HeaderWrite = total /\ hdr.read = hread
    BY <1>1, <1>3, <2>1 DEF History, Progress, Quiet
  <2>3. hread <= total
    BY <2>1 DEF History, ReaderNotAhead, Quiet
  <2> QED  BY <1>1, <1>2, <2>2, <2>3 DEF First
<1> QED  BY <1>4, <1>5, <1>6 DEF History

\* A character is printed from a place that holds it or a newer one.
LEMMA PrintCharHistory == QInv /\ History /\ PrintChar => History'
<1> SUFFICES ASSUME QInv, History, PrintChar PROVE History'
  OBVIOUS
<1> USE QueueAssumption DEF QueueAssumption
<1> DEFINE entry == [pos |-> rpos, char |-> ring[rpos % Size]]
<1>1. /\ pc = "loop" /\ rpos < hdr.write /\ out' = Append(out, entry) /\ rpos' = rpos + 1
      /\ UNCHANGED <<hread, hwrite, ring, total, pc, low, hdr, since, torn>>
  BY DEF PrintChar, Offset, firmware, QInv, Budget
<1>2. rpos \in Nat /\ hdr.write \in Nat /\ total \in Nat /\ hread \in Nat
  BY DEF QInv, TypeOK
<1>3. /\ Len(out) \in Nat /\ Len(out') = Len(out) + 1 /\ out'[Len(out) + 1] = entry
      /\ \A j \in 1..Len(out) : out'[j] = out[j]
  <2>1. out \in Seq([pos : Nat, char : 0..MaxWrites \cup {NoChar}])
    BY DEF QInv, TypeOK
  <2>2. entry \in [pos : Nat, char : 0..MaxWrites \cup {NoChar}]
    <3>1. rpos % Size \in 0..(Size - 1)
      BY <1>2
    <3> QED  BY <1>2, <3>1 DEF QInv, TypeOK
  <2> HIDE DEF entry
  <2> QED  BY <1>1, <2>1, <2>2, AppendProperties
<1>4. Writer' /\ Ring' /\ Copied' /\ ReaderNotAhead'
  BY <1>1 DEF History, Writer, Ring, Copied, ReaderNotAhead
<1>5. ~torn /\ total < Wrap => rpos \in 0..(total - 1)
  BY <1>1, <1>2 DEF History, Copied
<1>6. NeverStale'
  <2> SUFFICES ASSUME ~torn, total < Wrap, NEW j \in 1..(Len(out) + 1)
               PROVE  out'[j].char >= out'[j].pos
    BY <1>1, <1>3 DEF NeverStale
  <2>1. CASE j \in 1..Len(out)
    BY <1>3, <2>1 DEF History, NeverStale
  <2>2. CASE j = Len(out) + 1
    BY <1>3, <1>5, <2>2 DEF History, Ring
  <2> QED  BY <1>3, <2>1, <2>2
<1>7. Progress'
  <2>1. First' = First /\ (Quiet' => Quiet)
    BY <1>1 DEF First, Quiet, Wrap
  <2> SUFFICES ASSUME Quiet
               PROVE  /\ hdr'.write = total' /\ hdr'.read = hread'
                      /\ rpos' \in First'..total' /\ Len(out') = rpos' - First'
                      /\ \A j \in 1..Len(out') :
                            out'[j] = [pos |-> First' + j - 1, char |-> First' + j - 1]
    BY <2>1 DEF Progress
  <2>2. /\ hdr.write = total /\ hdr.read = hread /\ rpos \in First..total /\ Len(out) = rpos - First
        /\ \A j \in 1..Len(out) : out[j] = [pos |-> First + j - 1, char |-> First + j - 1]
    BY <1>1 DEF History, Progress
  <2>3. First \in Nat /\ First >= total - Size
    BY <1>2 DEF First
  <2>4. ring[rpos % Size] = rpos
    BY <1>2, <1>5, <2>2, <2>3 DEF History, Ring, Quiet
  <2>5. rpos = First + (Len(out) + 1) - 1
    BY <1>2, <1>3, <2>2, <2>3
  <2>6. out'[Len(out) + 1] = [pos |-> First + (Len(out) + 1) - 1, char |-> First + (Len(out) + 1) - 1]
    BY <1>3, <2>4, <2>5
  <2>7. ASSUME NEW j \in 1..Len(out')
        PROVE  out'[j] = [pos |-> First' + j - 1, char |-> First' + j - 1]
    <3>1. CASE j \in 1..Len(out)
      BY <1>3, <2>1, <2>2, <3>1
    <3>2. CASE j = Len(out) + 1
      BY <2>1, <2>6, <3>2
    <3> QED  BY <1>3, <3>1, <3>2
  <2> QED  BY <1>1, <1>2, <1>3, <2>1, <2>2, <2>3, <2>7
<1> QED  BY <1>4, <1>6, <1>7 DEF History

\* The whole invariant holds in the initial state.
LEMMA HistoryInit == Init => HInv
<1> SUFFICES ASSUME Init PROVE HInv
  OBVIOUS
<1>1. QInv
  BY QueueInit
<1>2. Writer /\ Ring /\ Copied /\ ReaderNotAhead /\ NeverStale /\ Progress
  BY DEF Init, Writer, Ring, Copied, ReaderNotAhead, NeverStale, Progress
<1> QED  BY <1>1, <1>2 DEF HInv, History

\* No step breaks it.
LEMMA HistoryInductive == HInv /\ [Next]_vars => HInv'
<1> SUFFICES ASSUME HInv, [Next]_vars PROVE HInv'
  OBVIOUS
<1>1. QInv /\ History
  BY DEF HInv
<1>2. QInv'
  BY <1>1, QueueInductive
<1>3. History'
  BY <1>1, PutCharHistory, ControlHistory, ClearHistory, PrintBeginHistory, PrintCharHistory DEF Next
<1> QED  BY <1>2, <1>3 DEF HInv

\* The log never shows a character older than its position, and never memory that
\* was not written, while the firmware overtakes the reader as it likes.
THEOREM PrintsNothingStale == Spec => []NeverStale
<1>1. HInv => NeverStale
  BY DEF HInv, History
<1> QED  BY <1>1, HistoryInit, HistoryInductive, PTL DEF Spec

\* Log::clear() hides no message that is still to be written.
THEOREM ClearHidesNothing == Spec => []ReaderNotAhead
<1>1. HInv => ReaderNotAhead
  BY DEF HInv, History
<1> QED  BY <1>1, HistoryInit, HistoryInductive, PTL DEF Spec

\* Log::print() with a quiet firmware prints exactly the last messages, in order.
THEOREM PrintIsExact == Spec => []QuietPrintIsExact
<1>1. HInv => QuietPrintIsExact
  <2> SUFFICES ASSUME HInv, pc = "loop", rpos >= hdr.write, Quiet
               PROVE  out = [j \in 1..(total - First) |-> [pos |-> First + j - 1, char |-> First + j - 1]]
    BY DEF QuietPrintIsExact, Quiet, First
  <2>1. /\ rpos \in First..total /\ hdr.write = total /\ Len(out) = rpos - First
        /\ \A j \in 1..Len(out) : out[j] = [pos |-> First + j - 1, char |-> First + j - 1]
    BY DEF HInv, History, Progress
  <2>2. First \in Int /\ total \in Int
    BY QueueAssumption DEF HInv, QInv, TypeOK, First, QueueAssumption
  <2>3. Len(out) = total - First
    BY <2>1, <2>2
  <2>4. out = [j \in 1..Len(out) |-> out[j]]
    BY DEF HInv, QInv, TypeOK
  <2> QED  BY <2>1, <2>3, <2>4
<1> QED  BY <1>1, HistoryInit, HistoryInductive, PTL DEF Spec

-----------------------------------------------------------------------------
\* No step but Start maps anything.
LEMMA MappingStep == MapsDeclaredQueue /\ [Next]_vars => MapsDeclaredQueue'
<1> SUFFICES ASSUME MapsDeclaredQueue, [Next]_vars PROVE MapsDeclaredQueue'
  OBVIOUS
<1>1. CASE mapped' = mapped
  BY <1>1 DEF MapsDeclaredQueue
<1>2. CASE mapped' = NotMapped
  BY <1>2 DEF MapsDeclaredQueue, NotMapped
<1>3. CASE Start /\ ~opts'.address
  <2>1. PICK tree \in DeviceTrees : \E entry \in Lookups(tree) \ {Failed} :
           mapped' = [tree |-> tree, address |-> entry.address, size |-> entry.size]
    BY <1>3 DEF Start
  <2>2. PICK entry \in Lookups(tree) \ {Failed} :
           mapped' = [tree |-> tree, address |-> entry.address, size |-> entry.size]
    BY <2>1
  <2> SUFFICES ASSUME \A source \in Users(tree) : Described(source)
               PROVE  \E source \in Users(tree) : \E i \in Queues(source) :
                         /\ \A j \in Queues(source) : i <= j
                         /\ mapped'.address = source.entries[i].address
                         /\ mapped'.size = source.entries[i].size
    BY <2>2 DEF MapsDeclaredQueue
  <2>3. \A source \in tree : IsSource(source) /\ (source.compatible => Described(source))
    BY QueueAssumption DEF QueueAssumption, Users
  <2>4. PICK source \in tree : \E i \in Queues(source) :
              /\ source.compatible
              /\ \A j \in Queues(source) : i <= j
              /\ entry = Found(source.entries[i].address, source.entries[i].size)
    BY <2>2, <2>3, LookupFindsDeclared DEF Lookups
  <2> QED  BY <2>2, <2>4 DEF Users, Found
<1> QED
  BY <1>1, <1>2, <1>3
     DEF Next, vars, Boot, PutChar, Start, StartFails, ReadLow, ReadFails, Clear, PrintBegin,
         PrintRefuses, PrintChar, PrintCharFails, PrintEnd, Fail, End

\* The tool maps the memory that the device tree declares for the print queue.
THEOREM MapsTheQueue == Spec => []MapsDeclaredQueue
<1>1. Init => MapsDeclaredQueue
  BY DEF Init, NotMapped, MapsDeclaredQueue
<1> QED  BY <1>1, MappingStep, PTL DEF Spec
=============================================================================
