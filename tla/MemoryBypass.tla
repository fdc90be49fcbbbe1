---------------------------- MODULE MemoryBypass ----------------------------
(***************************************************************************)
(* A BypassedRam on its own, read and written at any address in any cycle. *)
(* The RAM shows the entry whose address it was given two cycles ago.      *)
(***************************************************************************)
EXTENDS BypassedRam

CONSTANTS Address, Datum

VARIABLE ram

(* The RAM has been read, and not written, while reset was held. *)
Init == \E mem \in [Address -> Datum], addr \in Address :
            ram = RamAfterReset(mem, addr, mem[addr])

Cycle(readaddr, write) == ram' = RamEdge(ram, readaddr, write)

Next == \E readaddr, addr \in Address, data \in Datum, valid \in BOOLEAN :
            Cycle(readaddr, [valid |-> valid, addr |-> addr, data |-> data])

Spec == Init /\ [][Next]_ram
-----------------------------------------------------------------------------
(* Where two writes are on their way, the data shown are those of the      *)
(* youngest write to the address, as if the memory were read in the very   *)
(* cycle in which its data are shown.                                      *)
ShowsYoungestWrite == ShowsCurrent(ram)

(* The inductive invariant behind it. *)
IInv == ram \in Rams(Address, Datum) /\ LoadedCurrent(ram) /\ ShowsCurrent(ram)
=============================================================================
