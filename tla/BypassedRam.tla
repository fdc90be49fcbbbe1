---------------------------- MODULE BypassedRam ----------------------------
(***************************************************************************)
(* KanagawaSimpleDualPortRAM (sync_ram.sv) with its output register and    *)
(* KanagawaMemoryBypass (memory_bypass.sv).  What is read leaves the RAM   *)
(* two cycles after its address was given; writes that came too late for   *)
(* the RAM to show them are kept in as many bypass slots, the youngest in  *)
(* the highest one.                                                        *)
(***************************************************************************)
EXTENDS Integers

READ_LATENCY == 2   \* the RAM's address register and its output register

NUM_BYPASS_SLOTS == 2

(* A RAM with arbitrary contents, of which nothing was written recently:   *)
(* the bypass slots are not reset, but reset is held long enough for them  *)
(* to empty.                                                               *)
RamAfterReset(mem, addr, data) ==
    [mem    |-> mem,
     output |-> [i \in 1..READ_LATENCY |-> data],
     addr   |-> [i \in 1..READ_LATENCY |-> addr],
     slots  |-> [i \in 0..(NUM_BYPASS_SLOTS - 1) |->
                    [valid |-> FALSE, addr |-> addr, data |-> data]]]

(* The bypass slots that hold a write to the address being shown. *)
Matching(ram) ==
    {i \in 0..(NUM_BYPASS_SLOTS - 1) :
        ram.slots[i].valid /\ ram.slots[i].addr = ram.addr[READ_LATENCY]}

MutYoungest(slots) == CHOOSE i \in slots : \A j \in slots : i <= j

(* The loop over the slots lets a later slot override an earlier one. *)
Youngest(slots) == CHOOSE i \in slots : \A j \in slots : i >= j

data_out(ram) ==
    IF Matching(ram) # {} THEN ram.slots[Youngest(Matching(ram))].data
    ELSE ram.output[READ_LATENCY]

(* A clock edge with "readaddr" on the read port and "write" on the write  *)
(* port; a read of the address being written returns the old content.      *)
RamEdge(ram, readaddr, write) ==
    [mem    |-> IF write.valid THEN [ram.mem EXCEPT ![write.addr] = write.data]
                ELSE ram.mem,
     output |-> [i \in 1..READ_LATENCY |->
                    IF i = 1 THEN ram.mem[readaddr] ELSE ram.output[i - 1]],
     addr   |-> [i \in 1..READ_LATENCY |->
                    IF i = 1 THEN readaddr ELSE ram.addr[i - 1]],
     slots  |-> [i \in 0..(NUM_BYPASS_SLOTS - 1) |->
                    IF i = NUM_BYPASS_SLOTS - 1 THEN write ELSE ram.slots[i + 1]]]
-----------------------------------------------------------------------------
(* What the RAM's registers hold. *)
Writes(addresses, data) == [valid : BOOLEAN, addr : addresses, data : data]

Rams(addresses, data) ==
    [mem    : [addresses -> data],
     output : [1..READ_LATENCY -> data],
     addr   : [1..READ_LATENCY -> addresses],
     slots  : [0..(NUM_BYPASS_SLOTS - 1) -> Writes(addresses, data)]]

(* The RAM's output shows the current content of the address it was given  *)
(* READ_LATENCY cycles ago.                                                *)
ShowsCurrent(ram) == data_out(ram) = ram.mem[ram.addr[READ_LATENCY]]

(* What was loaded one cycle ago, before it reaches the output, is current *)
(* but for the write of that cycle, which is in the youngest slot.         *)
LoadedCurrent(ram) ==
    LET slot == ram.slots[NUM_BYPASS_SLOTS - 1]
    IN  ram.mem[ram.addr[1]] =
           IF slot.valid /\ slot.addr = ram.addr[1] THEN slot.data ELSE ram.output[1]
=============================================================================
