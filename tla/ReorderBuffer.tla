--------------------------- MODULE ReorderBuffer ---------------------------
(***************************************************************************)
(* KanagawaReorderBuffer (reorder_buffer.sv) behind an ordered loop.  The  *)
(* code ReorderHelper::EmitPreamble (ir.cpp) generates in front of the     *)
(* loop gives every thread the next slot id; threads finish the loop in    *)
(* any order and are written to the slot of their id; the buffer hands     *)
(* them on in the order of the ids.  One flag per slot tells whether its   *)
(* thread has arrived, and the meaning of the flag changes on every round. *)
(* A thread is represented by its slot id.                                 *)
(***************************************************************************)
EXTENDS FifoPtrsEx, BypassedRam

CONSTANTS MaxThreads,  \* _maxThreadCountInsideFunction
          WRITE_DELAY  \* KANAGAWA_LARGE_AND_FAST_WRITE_DELAY

SlotId  == 0..(2 * DEPTH - 1)   \* one bit more than a slot number
Address == 0..(DEPTH - 1)

(* ReorderHelper sizes the slot id for the threads of the function, and    *)
(* the buffer is as deep as the id without its top bit can count.          *)
ASSUME ReorderBufferAssumption ==
    /\ LOG_DEPTH \in Nat \ {0} /\ DEPTH = 2^LOG_DEPTH
    /\ DEPTH \in Nat \ {0, 1} /\ 2^(LOG_DEPTH + 1) = 2 * DEPTH
    /\ MaxThreads \in 1..DEPTH
    /\ WRITE_DELAY \in Nat

VARIABLES slot_allocator,        \* the global ReorderSlotAllocator
          looping,               \* the threads still in the loop
          left,                  \* the id of the next thread due to leave
          flag_memory,           \* slot_flag_memory: KanagawaReorderMemory
          slot_data, q,          \* slot_data_memory and its output
          num_slots_initialized, read_pointer_ff, wren_chain

vars == <<slot_allocator, looping, left, flag_memory, slot_data, q,
          num_slots_initialized, read_pointer_ff, wren_chain, fifoPtrsExVars>>

Slot(id) == id % DEPTH
Flag(id) == id \div DEPTH
NextId(id) == (id + 1) % (2 * DEPTH)
-----------------------------------------------------------------------------
(* KanagawaReorderMemory: random writes, sequential reads.  The entry at   *)
(* the read position is in the data register or at the RAM's output.       *)

valid_out(m) == m.state \in {"full", "memory_reg_valid", "data_reg_valid"}

ShownByMemory(m) ==
    IF m.state = "memory_reg_valid" THEN data_out(m.ram) ELSE m.data_reg

state_next(m, rden) ==
    CASE m.state = "idle" -> "initial_load"
      [] m.state = "initial_load" -> "memory_reg_valid"
      [] m.state = "full" /\ rden -> "data_reg_valid"
      [] m.state \in {"memory_reg_valid", "data_reg_valid"} /\ rden -> "memory_reg_valid"
      [] OTHER -> "full"

MutDataRegAddr(m, rden) == (m.read_addr - 1) % DEPTH

(* The address of the entry that will be in the data register. *)
data_reg_addr_next(m, rden) ==
    IF m.state = "full" /\ rden THEN m.read_addr ELSE (m.read_addr - 1) % DEPTH

(* A clock edge; before the first load the address of the data register's  *)
(* entry is undefined, and "x" is what the register takes.                 *)
MemoryEdge(m, rden, write, x) ==
    LET state == state_next(m, rden)
        read_addr == IF state = "full" THEN m.read_addr ELSE (m.read_addr + 1) % DEPTH
    IN  [state     |-> state,
         read_addr |-> read_addr,
         data_reg  |-> IF m.state \in {"idle", "initial_load"} THEN x
                       ELSE IF write.valid /\ write.addr = data_reg_addr_next(m, rden)
                         THEN write.data
                       ELSE IF (m.state = "full") = rden /\ m.state # "data_reg_valid"
                         THEN data_out(m.ram)
                       ELSE m.data_reg,
         ram       |-> RamEdge(m.ram, read_addr, write)]
-----------------------------------------------------------------------------
Init ==
    /\ slot_allocator = 0 /\ looping = {} /\ left = 0
    /\ \E mem \in [Address -> 0..1], x \in 0..1 :
          flag_memory = [state |-> "idle", read_addr |-> DEPTH - 1, data_reg |-> x,
                         ram |-> RamAfterReset(mem, DEPTH - 1, x)]
    /\ slot_data = [a \in Address |-> 0] /\ q = 0
    /\ num_slots_initialized = 0 /\ read_pointer_ff = 0
    /\ wren_chain = [i \in 1..WRITE_DELAY |-> FALSE]
    /\ FifoPtrsExInit

initialized == num_slots_initialized = DEPTH
full  == ~initialized
empty == empty_ff

(* The oldest thread has arrived: its flag has the value of this round. *)
Arrived ==
    /\ initialized
    /\ valid_out(flag_memory)
    /\ ShownByMemory(flag_memory) = Flag(read_pointer_ff)

MutFlagWrite(wrreq, id) ==
    IF initialized THEN [valid |-> wrreq, addr |-> Slot(id), data |-> Flag(id)]
    ELSE [valid |-> TRUE, addr |-> num_slots_initialized, data |-> 0]

(* What the flag memory's write port does while thread "id" (or NONE, if   *)
(* ~wrreq) is written: until all flags are initialised it writes ones.     *)
FlagWrite(wrreq, id) ==
    IF initialized THEN [valid |-> wrreq, addr |-> Slot(id), data |-> Flag(id)]
    ELSE [valid |-> TRUE, addr |-> num_slots_initialized, data |-> 1]

(* A clock edge.  A thread may take a slot id and enter the loop, one may  *)
(* leave the loop and be written, the block behind the buffer may read.    *)
Cycle(enter, wrreq, id, rdreq, x) ==
    LET threads == (slot_allocator - left) % (2 * DEPTH)
        readaddr == IF initialized /\ rdreq THEN NextPtr(rdptr_ff) ELSE rdptr_ff
    IN  /\ enter => threads < MaxThreads
        /\ wrreq => id \in looping /\ ~full
        /\ rdreq => ~empty
        /\ slot_allocator' = IF enter THEN NextId(slot_allocator) ELSE slot_allocator
        /\ looping' = (looping \ (IF wrreq THEN {id} ELSE {}))
                         \cup (IF enter THEN {slot_allocator} ELSE {})
        /\ left' = IF rdreq THEN NextId(left) ELSE left
        /\ flag_memory' = MemoryEdge(flag_memory, Arrived, FlagWrite(wrreq, id), x)
        /\ slot_data' = IF wrreq THEN [slot_data EXCEPT ![Slot(id)] = id] ELSE slot_data
        /\ q' = slot_data[readaddr]
        /\ num_slots_initialized' = num_slots_initialized + Bit(~initialized)
        /\ read_pointer_ff' = IF Arrived THEN NextId(read_pointer_ff) ELSE read_pointer_ff
        /\ wren_chain' = ChainShift(wren_chain, WRITE_DELAY, Arrived)
        /\ FifoPtrsExEdge(FALSE, ChainOut(wren_chain, WRITE_DELAY, Arrived), rdreq)

(* The undefined value only matters before the first load. *)
DontCare == IF valid_out(flag_memory) THEN {0} ELSE 0..1

Next ==
    \E enter, rdreq \in BOOLEAN, x \in DontCare :
       \/ Cycle(enter, FALSE, 0, rdreq, x)
       \/ \E id \in looping : Cycle(enter, TRUE, id, rdreq, x)

Spec == Init /\ [][Next]_vars

(* The clock runs; a thread whose loop ends is written, and the block      *)
(* behind the buffer reads what it is offered.                             *)
Tick == (ENABLED <<Cycle(FALSE, FALSE, 0, FALSE, 0)>>_vars) /\ Next
Read == \E enter \in BOOLEAN, x \in DontCare :
           \/ Cycle(enter, FALSE, 0, TRUE, x)
           \/ \E id \in looping : Cycle(enter, TRUE, id, TRUE, x)
Finish(id) == \E enter, rdreq \in BOOLEAN, x \in DontCare : Cycle(enter, TRUE, id, rdreq, x)
FairSpec == /\ Spec /\ WF_vars(Tick) /\ WF_vars(Read)
            /\ \A id \in SlotId : WF_vars(Finish(id))
-----------------------------------------------------------------------------
(* The flag memory shows, without a cycle's delay, the flag of the slot    *)
(* that is read next, whatever is written at the same time or was written  *)
(* in the cycles in which the RAM could not show it.                       *)
FlagShownIsCurrent ==
    valid_out(flag_memory) =>
        ShownByMemory(flag_memory) = flag_memory.ram.mem[Slot(read_pointer_ff)]

(* Threads leave the buffer in the order in which they took their slot ids *)
(* before the loop, each with its own data, however they finished.         *)
LeavesInOrder == ~empty => q = left

(* Every thread that entered the loop leaves the buffer: as long as there  *)
(* are threads, one after the other leaves (and they leave in order).      *)
EveryThreadLeaves == []<>(left = slot_allocator) \/ []<><<left' # left>>_vars
-----------------------------------------------------------------------------
(* The inductive invariant behind FlagShownIsCurrent and LeavesInOrder.    *)

(* The number of threads from id "from" to id "to". *)
Later(from, to) == (to - from) % (2 * DEPTH)

ReorderMemories ==
    [state : {"idle", "initial_load", "full", "memory_reg_valid", "data_reg_valid"},
     read_addr : Address, data_reg : 0..1, ram : Rams(Address, 0..1)]

TypeOK ==
    /\ slot_allocator \in SlotId /\ left \in SlotId /\ read_pointer_ff \in SlotId
    /\ looping \subseteq SlotId
    /\ flag_memory \in ReorderMemories
    /\ slot_data \in [Address -> SlotId] /\ q \in SlotId
    /\ num_slots_initialized \in 0..DEPTH
    /\ wren_chain \in Chains(WRITE_DELAY, BOOLEAN)
    /\ FifoPtrsExTypeOK

(* Where the flag memory stands in its sequential read: the entry at the   *)
(* read position is at the RAM's output, or in the data register with its  *)
(* successor at the RAM's output.                                          *)
ReadsAhead(m, position) ==
    LET next == NextPtr(position)
    IN  /\ m.state = "idle" => position = 0 /\ m.read_addr = DEPTH - 1
        /\ m.state = "initial_load" => position = 0 /\ m.read_addr = 0
        /\ valid_out(m) => m.read_addr = next
        /\ m.state # "idle" => m.ram.addr[1] = m.read_addr /\ LoadedCurrent(m.ram)
        /\ valid_out(m) =>
              /\ m.ram.addr[READ_LATENCY] = IF m.state = "full" THEN next ELSE position
              /\ ShowsCurrent(m.ram)
        /\ m.state \in {"full", "data_reg_valid"} => m.data_reg = m.ram.mem[position]

(* Threads that have been passed on, threads that have not left. *)
Passed  == Later(left, read_pointer_ff)
Threads == Later(left, slot_allocator)

InOrder ==
    /\ usedw_ff + Pulses(wren_chain, WRITE_DELAY, 0) = Passed
    /\ Passed <= Threads /\ Threads <= MaxThreads
    /\ \A id \in looping : Passed <= Later(left, id) /\ Later(left, id) < Threads
    /\ rdptr_ff = Slot(left)
    /\ empty_ff <=> usedw_ff = 0

(* A slot that has not been written in this round. *)
Expected(id) == id \in looping \/ Later(left, id) >= Threads

(* Each of the next DEPTH ids has a slot of its own; its flag tells        *)
(* whether the thread has been written in this round, and then the slot    *)
(* holds its data.                                                         *)
SlotsExact ==
    \A id \in SlotId :
        Later(left, id) < DEPTH =>
           /\ Slot(id) < num_slots_initialized =>
                 (flag_memory.ram.mem[Slot(id)] = Flag(id) <=> ~Expected(id))
           /\ ~Expected(id) => slot_data[Slot(id)] = id

NothingBeforeInit ==
    ~initialized => left = 0 /\ read_pointer_ff = 0 /\ \A id \in SlotId : Expected(id)

IInv ==
    /\ TypeOK
    /\ ReadsAhead(flag_memory, Slot(read_pointer_ff))
    /\ InOrder
    /\ SlotsExact
    /\ NothingBeforeInit
    /\ LeavesInOrder
=============================================================================
