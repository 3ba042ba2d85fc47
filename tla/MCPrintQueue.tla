---------------------------- MODULE MCPrintQueue ----------------------------
(***************************************************************************)
(* Device trees for checking PrintQueue: queues of 1 to 3 bytes, with the  *)
(* entry first or last, on buses of one and two cells, one or two devices, *)
(* names and nodes that do not match, and nodes that do not describe their *)
(* own cells.                                                              *)
(***************************************************************************)
EXTENDS PrintQueue

Unset == [address |-> None, size |-> None]
Bus(address, size) == [address |-> address, size |-> size]
Entry(name, address, size) == [name |-> name, address |-> address, size |-> size]
Queue(size) == Entry("print_queue", 2, size)
Other == Entry("tcm", 1, 1)

Source(entries, bus, cells) ==
    [compatible |-> TRUE, entries |-> entries, bus |-> bus, cells |-> cells, terminated |-> TRUE]

Wide(entries) == Source(entries, Bus(2, 2), Unset)
Narrow(entries) == Source(entries, Bus(1, 1), Bus(1, 1))
Mixed(entries) == Source(entries, Bus(2, 1), [Unset EXCEPT !.size = 1])
Stranger == [Wide(<<Queue(1)>>) EXCEPT !.compatible = FALSE]

MCDeviceTrees ==
    {{}, {Stranger},
     {Wide(<<Queue(3), Queue(2)>>), Stranger},
     {Wide(<<Other, Queue(2)>>)},
     {Mixed(<<Other, Other, Queue(1)>>), Wide(<<Queue(2)>>), Wide(<<Other>>)},
     {Narrow(<<Entry("tcm", 0, 0), Entry("print_queue", 1, 1)>>)},
     {[Wide(<<Other, Queue(2)>>) EXCEPT !.terminated = FALSE]},
     {Source(<<Queue(1)>>, Bus(2, 1), Unset)},
     {Source(<<Queue(2)>>, Bus(2, 2), Bus(2, 0))}}
=============================================================================
