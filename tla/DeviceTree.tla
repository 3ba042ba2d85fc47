----------------------------- MODULE DeviceTree -----------------------------
(***************************************************************************)
(* How ethosu_logd finds the print queue in the device tree                *)
(* (utils/ethosu_logd/main.cpp, Path::find(), DTS).                        *)
(*                                                                         *)
(* A tree is a set of nodes: whether `compatible' names "arm,ethosu", the  *)
(* strings of `reg-names' and whether the last one is terminated, the      *)
(* numbers of cells that the node itself declares, if it does, and the     *)
(* 32-bit cells of `reg', of Base values each.                             *)
(***************************************************************************)
EXTENDS Integers, Sequences

CONSTANT Base

ASSUME BaseAssumption == Base \in Nat \ {0}

PrintQueueName == "print_queue"
Failed == [ok |-> FALSE]
Found(address, size) == [ok |-> TRUE, address |-> address, size |-> size]

None == -1

\* #address-cells and #size-cells: 2 when the node has no such property.
CellCounts(node) == [k \in {"address", "size"} |-> IF node.cells[k] = None THEN 2 ELSE node.cells[k]]

\* getString(): what follows the last terminator is not a name.
Names(node) == IF node.terminated \/ node.names = <<>> THEN node.names
               ELSE SubSeq(node.names, 1, Len(node.names) - 1)

\* A cell of `reg'; behind its end the memory may hold anything.
Cell(reg, i) == IF i \in DOMAIN reg THEN {reg[i]} ELSE 0..(Base - 1)

\* getInt() and toCpu(): the values, most significant cell first, that the n cells
\* behind the first `offset' ones may give; none if n is not a legal size.
GetInt(reg, offset, n) ==
    CASE n = 1 -> Cell(reg, offset + 1)
      [] n = 2 -> {high * Base + value : high \in Cell(reg, offset + 1), value \in Cell(reg, offset + 2)}
      [] OTHER -> {}

\* Mutant: the offset counts entries of one address cell and one size cell.
RegByIndexOfTwo(node, index) ==
    LET n == CellCounts(node)
    IN  {Found(a, s) : a \in GetInt(node.reg, index * 2, n.address),
                       s \in GetInt(node.reg, index * 2 + n.address, n.size)}

\* getRegByIndex(): the entries that may be read, none if a size is illegal.
RegByIndex(node, index) ==
    LET n == CellCounts(node)
        offset == index * (n.address + n.size)
    IN  {Found(a, s) : a \in GetInt(node.reg, offset, n.address),
                       s \in GetInt(node.reg, offset + n.address, n.size)}

\* getRegByName(): the entry of the first name that is equal.
RegByName(node) ==
    LET queues == {i \in DOMAIN Names(node) : Names(node)[i] = PrintQueueName}
        first == CHOOSE i \in queues : \A j \in queues : i <= j
        entries == IF queues = {} THEN {} ELSE RegByIndex(node, first - 1)
    IN  IF entries = {} THEN {Failed} ELSE entries

\* getAddressSizeFromDtb(): the first compatible node of a search in no particular
\* order decides, there is no second one when its lookup fails.
Lookup(tree) ==
    LET compatible == {node \in tree : node.compatible}
    IN  IF compatible = {} THEN {Failed} ELSE UNION {RegByName(node) : node \in compatible}

-----------------------------------------------------------------------------
\* The device tree compiler: entries [name, address, size] in the cells that the
\* bus of the node declares.
CellOf(value, n, i) == IF i < n THEN value \div Base ELSE value % Base

Reg(entries, bus) ==
    LET width == bus.address + bus.size
    IN  [i \in 1..(Len(entries) * width) |->
           LET entry == entries[((i - 1) \div width) + 1]
               k == ((i - 1) % width) + 1
           IN  IF k <= bus.address THEN CellOf(entry.address, bus.address, k)
               ELSE CellOf(entry.size, bus.size, k - bus.address)]

Compile(source) ==
    [compatible |-> source.compatible, terminated |-> source.terminated, cells |-> source.cells,
     names |-> [i \in DOMAIN source.entries |-> source.entries[i].name],
     reg |-> Reg(source.entries, source.bus)]

\* A source declares the cells that its values are encoded in, ...
Described(source) == source.terminated /\ CellCounts(source) = source.bus

\* ... and its entries of that name.
Queues(source) == {i \in DOMAIN source.entries : source.entries[i].name = PrintQueueName}

\* A value fits into n cells; one or two can be read.
Fits(value, n) == value \in 0..((IF n = 1 THEN Base ELSE Base * Base) - 1)
Legal == [address : {1, 2}, size : {1, 2}]

IsSource(source) ==
    /\ source.bus \in Legal /\ source.cells \in [address : Int, size : Int]
    /\ source.entries \in Seq([name : STRING, address : Nat, size : Nat])
    /\ \A i \in DOMAIN source.entries : /\ Fits(source.entries[i].address, source.bus.address)
                                       /\ Fits(source.entries[i].size, source.bus.size)
=============================================================================
