-------------------------- MODULE DeviceTree_proofs --------------------------
(***************************************************************************)
(* Proofs about DeviceTree: what the lookup returns, for cells of any      *)
(* width and trees of any size.                                            *)
(***************************************************************************)
EXTENDS DeviceTree, NaturalsInduction, WellFoundedInduction, TLAPS

Values == 0..(Base * Base - 1)

\* The remainder and the quotient of a value of two cells are cells, and two
\* cells give a value.
LEMMA CellArithmetic ==
    ASSUME NEW v \in Nat
    PROVE  /\ v % Base \in 0..(Base - 1)
           /\ v \in Values => v \div Base \in 0..(Base - 1)
           /\ (v \div Base) * Base + (v % Base) = v
           /\ v < Base => v % Base = v
<1> USE BaseAssumption DEF BaseAssumption
<1>1. v \div Base \in Nat /\ v % Base \in 0..(Base - 1) /\ v = Base * (v \div Base) + (v % Base)
  OBVIOUS
<1> DEFINE q == v \div Base
           r == v % Base
<1>2. q \in Nat /\ r \in 0..(Base - 1) /\ v = Base * q + r
  BY <1>1
<1> HIDE DEF q, r
<1>3. q >= Base => Base * q >= Base * Base
  BY <1>2
<1>4. Base * q = q * Base
  BY <1>2
<1>5. v \in Values => q \in 0..(Base - 1)
  BY <1>2, <1>3 DEF Values
<1>6. v < Base => q = 0
  <2>1. q >= 1 => Base * q >= Base
    BY <1>2
  <2> QED  BY <1>2, <2>1
<1>7. v < Base => r = v
  BY <1>2, <1>6
<1> QED  BY <1>2, <1>4, <1>5, <1>7 DEF q, r

\* Two cells give a value of two cells.
LEMMA PairRange ==
    ASSUME NEW a \in 0..(Base - 1), NEW b \in 0..(Base - 1)
    PROVE  a * Base + b \in Values
<1> USE BaseAssumption DEF BaseAssumption
<1>1. a * Base >= 0
  OBVIOUS
<1>2. (Base - 1 - a) * Base >= 0
  OBVIOUS
<1>3. (Base - 1 - a) * Base = Base * Base - Base - a * Base
  OBVIOUS
<1>4. a * Base \in Int /\ Base * Base \in Int
  OBVIOUS
<1> HIDE BaseAssumption
<1> QED  BY <1>1, <1>2, <1>3, <1>4, BaseAssumption DEF Values, BaseAssumption

\* Position k of the cells of entry i, counted as getRegByIndex() counts.
LEMMA CellPosition ==
    ASSUME NEW w \in {2, 3, 4}, NEW n \in Nat, NEW i \in 1..n, NEW k \in 1..w
    PROVE  /\ (i - 1) * w + k \in 1..(n * w)
           /\ (((i - 1) * w + k - 1) \div w) + 1 = i
           /\ (((i - 1) * w + k - 1) % w) + 1 = k
<1>1. CASE w = 2
  BY <1>1
<1>2. CASE w = 3
  BY <1>2
<1>3. CASE w = 4
  BY <1>3
<1> QED  BY <1>1, <1>2, <1>3

\* A bus has one or two cells for addresses and for sizes.
LEMMA BusShape ==
    ASSUME NEW source, IsSource(source)
    PROVE  source.bus.address \in {1, 2} /\ source.bus.size \in {1, 2}
<1>1. source.bus \in Legal
  BY Zenon DEF IsSource
<1> QED  BY <1>1 DEF Legal

\* The entries of a source are numbered from 1.
LEMMA EntriesShape ==
    ASSUME NEW source, IsSource(source)
    PROVE  /\ Len(source.entries) \in Nat
           /\ DOMAIN source.entries = 1..Len(source.entries)
           /\ \A i \in 1..Len(source.entries) :
                 source.entries[i] \in [name : STRING, address : Nat, size : Nat]
<1> DEFINE E == [name : STRING, address : Nat, size : Nat]
<1>1. source.entries \in Seq(E)
  BY Zenon DEF IsSource
<1> HIDE DEF E
<1>2. /\ Len(source.entries) \in Nat
      /\ DOMAIN source.entries = 1..Len(source.entries)
      /\ \A i \in 1..Len(source.entries) : source.entries[i] \in E
  BY <1>1
<1> QED  BY <1>2 DEF E

\* The address and the size of an entry fit into the cells of the bus.
LEMMA EntryFits ==
    ASSUME NEW source, IsSource(source), NEW i \in 1..Len(source.entries)
    PROVE  /\ source.entries[i].address \in Nat /\ source.entries[i].size \in Nat
           /\ source.entries[i].name \in STRING
           /\ Fits(source.entries[i].address, source.bus.address)
           /\ Fits(source.entries[i].size, source.bus.size)
<1>1. i \in DOMAIN source.entries /\ source.entries[i] \in [name : STRING, address : Nat, size : Nat]
  BY EntriesShape
<1>2. \A j \in DOMAIN source.entries : /\ Fits(source.entries[j].address, source.bus.address)
                                      /\ Fits(source.entries[j].size, source.bus.size)
  BY Zenon DEF IsSource
<1>3. Fits(source.entries[i].address, source.bus.address) /\ Fits(source.entries[i].size, source.bus.size)
  BY <1>1, <1>2, Zenon
<1> QED  BY <1>1, <1>3

\* The compiled cells of entry i.
LEMMA CompiledCell ==
    ASSUME NEW source, IsSource(source), NEW i \in 1..Len(source.entries),
           NEW k \in 1..(source.bus.address + source.bus.size)
    PROVE  LET p == (i - 1) * (source.bus.address + source.bus.size) + k
               entry == source.entries[i]
           IN  /\ p \in DOMAIN Reg(source.entries, source.bus)
               /\ Reg(source.entries, source.bus)[p] =
                     IF k <= source.bus.address THEN CellOf(entry.address, source.bus.address, k)
                     ELSE CellOf(entry.size, source.bus.size, k - source.bus.address)
<1> DEFINE w == source.bus.address + source.bus.size
           p == (i - 1) * w + k
<1>1. w \in {2, 3, 4} /\ Len(source.entries) \in Nat
  BY BusShape, EntriesShape
<1>2. /\ p \in 1..(Len(source.entries) * w)
      /\ ((p - 1) \div w) + 1 = i
      /\ ((p - 1) % w) + 1 = k
  <2> HIDE DEF w
  <2>1. k \in 1..w
    BY DEF w
  <2> QED  BY <1>1, <2>1, CellPosition
<1> HIDE DEF w
<1> QED  BY <1>1, <1>2 DEF Reg, w

\* GetInt() gives back what the compiler has encoded in the cells.
LEMMA Decoded ==
    ASSUME NEW reg, NEW offset \in Nat, NEW n \in {1, 2}, NEW v \in Nat, Fits(v, n),
           \A k \in 1..n : offset + k \in DOMAIN reg /\ reg[offset + k] = CellOf(v, n, k)
    PROVE  GetInt(reg, offset, n) = {v}
<1>1. CASE n = 1
  <2>1. v % Base = v
    BY <1>1, CellArithmetic, BaseAssumption DEF Fits, BaseAssumption
  <2>2. reg[offset + 1] = v /\ offset + 1 \in DOMAIN reg
    BY <1>1, <2>1 DEF CellOf
  <2> QED  BY <1>1, <2>2 DEF GetInt, Cell
<1>2. CASE n = 2
  <2>1. /\ reg[offset + 1] = v \div Base /\ offset + 1 \in DOMAIN reg
        /\ reg[offset + 2] = v % Base /\ offset + 2 \in DOMAIN reg
    BY <1>2 DEF CellOf
  <2>2. GetInt(reg, offset, n) = {(v \div Base) * Base + (v % Base)}
    BY <1>2, <2>1 DEF GetInt, Cell
  <2> QED  BY <2>2, CellArithmetic
<1> QED  BY <1>1, <1>2

\* getRegByIndex() of a node with the cell counts of its bus gives one result, the
\* entry that the source declares there.
LEMMA EntryDecoded ==
    ASSUME NEW source, IsSource(source), Described(source), NEW i \in 1..Len(source.entries)
    PROVE  RegByIndex(Compile(source), i - 1)
             = {Found(source.entries[i].address, source.entries[i].size)}
<1> DEFINE node == Compile(source)
           n == source.bus
           entry == source.entries[i]
           offset == (i - 1) * (n.address + n.size)
<1>1. n.address \in {1, 2} /\ n.size \in {1, 2} /\ i - 1 \in Nat
  <2>1. Len(source.entries) \in Nat
    BY EntriesShape
  <2> QED  BY <2>1, BusShape
<1>2. /\ entry.address \in Nat /\ entry.size \in Nat
      /\ Fits(entry.address, n.address) /\ Fits(entry.size, n.size)
  BY EntryFits
<1>3. offset \in Nat
  BY <1>1
<1>4. node.reg = Reg(source.entries, source.bus)
  BY DEF Compile
<1>5. ASSUME NEW k \in 1..(n.address + n.size)
      PROVE  /\ offset + k \in DOMAIN node.reg
             /\ node.reg[offset + k] = IF k <= n.address THEN CellOf(entry.address, n.address, k)
                                       ELSE CellOf(entry.size, n.size, k - n.address)
  BY <1>4, CompiledCell
<1>6. CellCounts(node) = n
  BY DEF Described, CellCounts, Compile
<1> HIDE DEF node, n, entry, offset
<1>7. GetInt(node.reg, offset, n.address) = {entry.address}
  <2>1. \A k \in 1..n.address : k \in 1..(n.address + n.size) /\ k <= n.address
    BY <1>1
  <2>2. \A k \in 1..n.address : /\ offset + k \in DOMAIN node.reg
                                /\ node.reg[offset + k] = CellOf(entry.address, n.address, k)
    BY <1>5, <2>1
  <2>3. n.address \in {1, 2} /\ entry.address \in Nat /\ Fits(entry.address, n.address)
    BY <1>1, <1>2
  <2> QED  BY <1>3, <2>2, <2>3, Decoded
<1>8. GetInt(node.reg, offset + n.address, n.size) = {entry.size}
  <2>1. \A k \in 1..n.size :
           LET m == n.address + k
           IN  /\ m \in 1..(n.address + n.size) /\ ~(m <= n.address) /\ m - n.address = k
               /\ offset + m = offset + n.address + k
    BY <1>1, <1>3
  <2>2. \A k \in 1..n.size :
           /\ offset + n.address + k \in DOMAIN node.reg
           /\ node.reg[offset + n.address + k] = CellOf(entry.size, n.size, k)
    BY <1>5, <2>1
  <2> QED  BY <1>1, <1>2, <1>3, <2>2, Decoded
<1>9. RegByIndex(node, i - 1) = {Found(entry.address, entry.size)}
  <2>1. RegByIndex(node, i - 1) = {Found(a, s) : a \in GetInt(node.reg, offset, n.address),
                                                 s \in GetInt(node.reg, offset + n.address, n.size)}
    BY <1>6 DEF RegByIndex, offset
  <2>2. \A x : x \in RegByIndex(node, i - 1) <=> x = Found(entry.address, entry.size)
    BY <1>7, <1>8, <2>1
  <2> QED  BY <2>2
<1> QED  BY <1>9 DEF node, entry

\* A set of positions that is not empty has a first one.
LEMMA FirstPosition ==
    ASSUME NEW S, S \subseteq Nat, S # {}
    PROVE  \E i \in S : \A j \in S : i <= j
<1>1. PICK i \in S : \A j \in S : ~(<<j, i>> \in OpToRel(<, Nat))
  BY WFMin, NatLessThanWellFounded, Zenon
<1>2. \A j \in S : ~(j < i)
  BY <1>1 DEF OpToRel
<1> QED  BY <1>2

\* getRegByName() of such a node: the first entry of that name, or nothing.
LEMMA NameDecoded ==
    ASSUME NEW source, IsSource(source), Described(source)
    PROVE  \/ Queues(source) = {} /\ RegByName(Compile(source)) = {Failed}
           \/ \E i \in Queues(source) :
                 /\ \A j \in Queues(source) : i <= j
                 /\ RegByName(Compile(source))
                      = {Found(source.entries[i].address, source.entries[i].size)}
<1> DEFINE node == Compile(source)
           queues == {i \in DOMAIN Names(node) : Names(node)[i] = PrintQueueName}
<1>1. Names(node) = [i \in DOMAIN source.entries |-> source.entries[i].name]
  BY DEF Names, Compile, Described
<1>2. DOMAIN source.entries = 1..Len(source.entries)
  BY EntriesShape
<1>3. queues = Queues(source)
  BY <1>1 DEF Queues
<1>4. CASE queues = {}
  BY <1>3, <1>4 DEF RegByName
<1>5. CASE queues # {}
  <2> DEFINE first == CHOOSE i \in queues : \A j \in queues : i <= j
  <2>1. queues \subseteq Nat
    BY <1>2, <1>3 DEF Queues
  <2>2. first \in queues /\ \A j \in queues : first <= j
    <3> HIDE DEF queues
    <3> QED  BY <1>5, <2>1, FirstPosition
  <2>3. first \in 1..Len(source.entries)
    BY <1>2, <1>3, <2>2 DEF Queues
  <2> HIDE DEF first
  <2>4. RegByIndex(node, first - 1) = {Found(source.entries[first].address, source.entries[first].size)}
    BY <2>3, EntryDecoded
  <2>5. RegByName(node) = RegByIndex(node, first - 1)
    <3>1. RegByIndex(node, first - 1) # {}
      BY <2>4
    <3> QED  BY <1>5, <3>1 DEF RegByName, first
  <2> QED  BY <1>3, <2>2, <2>4, <2>5
<1> QED  BY <1>4, <1>5

\* What is read from any node lies within the values of two cells.
LEMMA CellRange ==
    ASSUME NEW source, IsSource(source), NEW offset \in Nat, NEW n \in Int
    PROVE  GetInt(Compile(source).reg, offset, n) \subseteq Values
<1> DEFINE reg == Compile(source).reg
           entries == source.entries
           width == source.bus.address + source.bus.size
<1> USE BaseAssumption DEF BaseAssumption
<1>1. ASSUME NEW v, NEW m \in {1, 2}, v \in Nat, Fits(v, m), NEW k \in Int
      PROVE  CellOf(v, m, k) \in 0..(Base - 1)
  <2>1. CASE m = 1
    <3>1. v % Base = v /\ v < Base
      BY <1>1, <2>1, CellArithmetic DEF Fits
    <3>2. v \in Values
      BY <1>1, <3>1, PairRange DEF Values
    <3> QED  BY <1>1, <3>1, <3>2, CellArithmetic DEF CellOf
  <2>2. CASE m = 2
    <3>1. v \in Values
      BY <1>1, <2>2 DEF Fits, Values
    <3>2. v \div Base \in 0..(Base - 1) /\ v % Base \in 0..(Base - 1)
      BY <1>1, <3>1, CellArithmetic
    <3> QED  BY <3>2 DEF CellOf
  <2> QED  BY <2>1, <2>2
<1>2. width \in {2, 3, 4} /\ source.bus.address \in {1, 2} /\ source.bus.size \in {1, 2}
      /\ Len(entries) \in Nat
  BY BusShape, EntriesShape
<1>3. ASSUME NEW p \in DOMAIN reg PROVE reg[p] \in 0..(Base - 1)
  <2>1. p \in 1..(Len(entries) * width)
    BY <1>3 DEF Compile, Reg
  <2> DEFINE i == ((p - 1) \div width) + 1
             k == ((p - 1) % width) + 1
  <2>2. i \in 1..Len(entries) /\ k \in Int
    <3>1. ASSUME NEW w \in {2, 3, 4}, NEW len \in Nat, NEW q \in 1..(len * w)
          PROVE  ((q - 1) \div w) + 1 \in 1..len /\ ((q - 1) % w) + 1 \in Int
      <4>1. CASE w = 2
        BY <4>1
      <4>2. CASE w = 3
        BY <4>2
      <4>3. CASE w = 4
        BY <4>3
      <4> QED  BY <4>1, <4>2, <4>3
    <3> HIDE DEF width, entries
    <3> QED  BY <1>2, <2>1, <3>1
  <2>3. reg[p] = IF k <= source.bus.address THEN CellOf(entries[i].address, source.bus.address, k)
                 ELSE CellOf(entries[i].size, source.bus.size, k - source.bus.address)
    BY <2>1 DEF Compile, Reg
  <2>4. /\ entries[i].address \in Nat /\ entries[i].size \in Nat
        /\ Fits(entries[i].address, source.bus.address) /\ Fits(entries[i].size, source.bus.size)
    BY <2>2, EntryFits
  <2> HIDE DEF i, k, reg, entries
  <2>5. CASE k <= source.bus.address
    BY <1>1, <1>2, <2>2, <2>3, <2>4, <2>5
  <2>6. CASE ~(k <= source.bus.address)
    <3>1. k - source.bus.address \in Int
      BY <1>2, <2>2
    <3> QED  BY <1>1, <1>2, <2>3, <2>4, <2>6, <3>1
  <2> QED  BY <2>5, <2>6
<1> HIDE DEF reg
<1>4. \A j : Cell(reg, j) \subseteq 0..(Base - 1)
  BY <1>3 DEF Cell
<1>5. 0..(Base - 1) \subseteq Values
  <2>1. 0 \in 0..(Base - 1) /\ Base - 1 \in 0..(Base - 1) /\ 0 * Base + (Base - 1) = Base - 1
    OBVIOUS
  <2>2. Base - 1 \in Values
    BY <2>1, PairRange
  <2> QED  BY <2>2 DEF Values
<1>6. GetInt(reg, offset, n) \subseteq Values
  <2>1. CASE n = 1
    BY <1>4, <1>5, <2>1 DEF GetInt
  <2>2. CASE n = 2
    <3>1. GetInt(reg, offset, n) = {high * Base + value : high \in Cell(reg, offset + 1),
                                                          value \in Cell(reg, offset + 2)}
      BY <2>2 DEF GetInt
    <3>2. SUFFICES ASSUME NEW high \in Cell(reg, offset + 1), NEW value \in Cell(reg, offset + 2)
                   PROVE  high * Base + value \in Values
      BY <3>1
    <3>3. high \in 0..(Base - 1) /\ value \in 0..(Base - 1)
      BY <1>4
    <3> QED  BY <3>3, PairRange
  <2>3. CASE n \notin {1, 2}
    BY <2>3 DEF GetInt
  <2> QED  BY <2>1, <2>2, <2>3
<1> QED  BY <1>6 DEF reg

\* An entry that was looked up is one of a compatible node.
LEMMA LookupUser ==
    ASSUME NEW tree, NEW entry \in Lookup({Compile(source) : source \in tree}), entry # Failed
    PROVE  \E source \in tree : source.compatible /\ entry \in RegByName(Compile(source))
<1>1. \A source : Compile(source).compatible = source.compatible
  BY DEF Compile
<1> QED  BY <1>1, Zenon DEF Lookup

\* The address and the size that a lookup gives are values of at most two cells,
\* even if the node does not describe its cells.
LEMMA LookupRange ==
    ASSUME NEW tree, \A source \in tree : IsSource(source),
           NEW entry \in Lookup({Compile(source) : source \in tree}), entry # Failed
    PROVE  entry.address \in Values /\ entry.size \in Values
<1>1. PICK source \in tree : entry \in RegByName(Compile(source))
  BY LookupUser
<1> DEFINE node == Compile(source)
           n == CellCounts(node)
           queues == {i \in DOMAIN Names(node) : Names(node)[i] = PrintQueueName}
           first == CHOOSE i \in queues : \A j \in queues : i <= j
           offset == (first - 1) * (n.address + n.size)
<1>2. IsSource(source)
  BY <1>1
<1>3. queues # {} /\ entry \in RegByIndex(node, first - 1)
  BY <1>1 DEF RegByName
<1>4. n.address \in Nat /\ n.size \in Nat => offset \in Nat /\ offset + n.address \in Nat
  <2>1. queues \subseteq Nat \ {0}
    <3>1. node.names \in Seq(STRING)
      <4>1. /\ Len(source.entries) \in Nat /\ DOMAIN source.entries = 1..Len(source.entries)
            /\ node.names = [i \in DOMAIN source.entries |-> source.entries[i].name]
        BY <1>2, EntriesShape DEF Compile
      <4>2. \A i \in 1..Len(source.entries) : source.entries[i].name \in STRING
        BY <1>2, EntryFits
      <4> QED  BY <4>1, <4>2
    <3>2. DOMAIN Names(node) \subseteq Nat \ {0}
      <4>1. CASE node.terminated \/ node.names = <<>>
        BY <3>1, <4>1 DEF Names
      <4>2. CASE ~(node.terminated \/ node.names = <<>>)
        <5>1. Len(node.names) - 1 \in Nat
          BY <3>1, <4>2
        <5> QED  BY <3>1, <4>2, <5>1 DEF Names
      <4> QED  BY <4>1, <4>2
    <3> QED  BY <3>2
  <2>2. first \in queues
    <3>1. queues \subseteq Nat
      BY <2>1
    <3> HIDE DEF queues
    <3> QED  BY <1>3, <3>1, FirstPosition
  <2>3. first - 1 \in Nat
    BY <2>1, <2>2
  <2> HIDE DEF first, n
  <2> QED  BY <2>3
<1>5. n.address \in Int /\ n.size \in Int
  <2>1. source.cells.address \in Int /\ source.cells.size \in Int
    <3>1. source.cells \in [address : Int, size : Int]
      BY <1>2, Zenon DEF IsSource
    <3> QED  BY <3>1
  <2>2. n = [k \in {"address", "size"} |-> IF source.cells[k] = None THEN 2 ELSE source.cells[k]]
    BY DEF CellCounts, Compile
  <2> QED  BY <2>1, <2>2
<1> HIDE DEF node, n, first
<1>6. PICK a \in GetInt(node.reg, offset, n.address), s \in GetInt(node.reg, offset + n.address, n.size) :
         entry = Found(a, s)
  BY <1>3 DEF RegByIndex, n
<1>7. n.address \in {1, 2} /\ n.size \in {1, 2}
  BY <1>6 DEF GetInt
<1>8. a \in Values /\ s \in Values
  BY <1>2, <1>4, <1>5, <1>6, <1>7, CellRange DEF node
<1> QED  BY <1>6, <1>8 DEF Found

\* getAddressSizeFromDtb(): whatever order the directories are read in, an entry
\* that is found is the first "print_queue" that some compatible node declares, if
\* the compatible nodes have the cell counts of their buses.
THEOREM LookupFindsDeclared ==
    ASSUME NEW tree, \A source \in tree : IsSource(source),
           \A source \in tree : source.compatible => Described(source),
           NEW entry \in Lookup({Compile(source) : source \in tree}), entry # Failed
    PROVE  \E source \in tree : \E i \in Queues(source) :
              /\ source.compatible
              /\ \A j \in Queues(source) : i <= j
              /\ entry = Found(source.entries[i].address, source.entries[i].size)
<1>1. PICK source \in tree : source.compatible /\ entry \in RegByName(Compile(source))
  BY LookupUser
<1>2. IsSource(source) /\ Described(source)
  BY <1>1
<1>3. RegByName(Compile(source)) # {Failed}
  BY <1>1
<1>4. PICK i \in Queues(source) :
         /\ \A j \in Queues(source) : i <= j
         /\ RegByName(Compile(source)) = {Found(source.entries[i].address, source.entries[i].size)}
  BY <1>2, <1>3, NameDecoded
<1> QED  BY <1>1, <1>4
=============================================================================
