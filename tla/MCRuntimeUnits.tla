--------------------------- MODULE MCRuntimeUnits ---------------------------
(***************************************************************************)
(* The runtime's units around ordered loops, external calls, memories and  *)
(* reset and the FIFOs made of registers, side by side.  They share no     *)
(* state; which of them is clocked is chosen once, so that their state     *)
(* spaces add up.                                                          *)
(***************************************************************************)
EXTENDS ReorderBuffer

CONSTANTS LoopFifoDepth, LoopThreads, MaxTrips,
          NUM_OUTPUT_PORTS, MatchWidth, MaxCalls, Tag, None,
          DELAY_CYCLES, HOLD_CYCLES, ADDTIONAL_LATENCY,
          RamAddress, RamDatum,           \* of the plain RAM
          Item, NoItem, ReadBufferDepth   \* of the register FIFOs

VARIABLES loop_slot_allocator, exit_slot, entry, backward, block, inside

VARIABLES due, next_tag, indices, results, index_valid, data_valid, index_ready,
          data_ready, index_sidetrack, data_sidetrack, switch, ready, sidetrack,
          output

VARIABLES counter, counter_not_zero, delay_chain, sequence_counter,
          finished_this_cycle, finished_ff, done_chain, past

VARIABLES stage, delivered, sent, received, in_which, out_which, wrptr, rdptr, dual_q,
          dual_delivered, dual_sent, dual_received,
          input_ready_ff, internal_input_ready_ff, output_valid_ff,
          internal_output_valid_ff, overflow_valid_ff, output_data_ff,
          overflow_data_ff, skid_delivered, skid_sent, skid_received

VARIABLES ram, clocked

(* Call sites in chain order; their indices have a gap. *)
CallSite == [p \in 1..NUM_OUTPUT_PORTS |-> (p * 3) % (NUM_OUTPUT_PORTS + 2)]

Loop == INSTANCE ReorderByLooping
            WITH MinFifoDepth <- LoopFifoDepth, MaxThreads <- LoopThreads,
                 slot_allocator <- loop_slot_allocator
Router == INSTANCE ExternReturnRouter
Reset == INSTANCE ResetControl
Ram == INSTANCE MemoryBypass WITH Address <- RamAddress, Datum <- RamDatum
Regs == INSTANCE RegisterFifos
            WITH DEPTH <- ReadBufferDepth, wrptr_ff <- wrptr, rdptr_ff <- rdptr

ASSUME RegistersAssumption == Regs!ReadBufferAssumption
ASSUME LoopAssumption == Loop!ReorderByLoopingAssumption
ASSUME RouterAssumption == Router!RouterAssumption
ASSUME ResetAssumption == Reset!ResetControlAssumption

bufferVars == vars
loopVars == <<loop_slot_allocator, exit_slot, entry, backward, block, inside>>
routerVars == <<due, next_tag, indices, results, index_valid, data_valid, index_ready,
                data_ready, index_sidetrack, data_sidetrack, switch, ready, sidetrack,
                output>>
resetVars == <<counter, counter_not_zero, delay_chain, sequence_counter,
               finished_this_cycle, finished_ff, done_chain, past>>
registerVars == <<stage, delivered, sent, received, in_which, out_which, wrptr, rdptr,
                  dual_q, dual_delivered, dual_sent, dual_received, input_ready_ff,
                  internal_input_ready_ff, output_valid_ff, internal_output_valid_ff,
                  overflow_valid_ff, output_data_ff, overflow_data_ff, skid_delivered,
                  skid_sent, skid_received>>
mcVars == <<bufferVars, loopVars, routerVars, resetVars, ram, registerVars, clocked>>

RegisterUnits == {"read_buffer", "dual", "skid_buffer"}

MCInit == /\ clocked \in {"buffer", "loop", "router", "reset", "ram"} \cup RegisterUnits
          /\ Init /\ Loop!Init /\ Router!Init /\ Reset!Init /\ Ram!Init
          /\ Regs!RegistersInit
          \* the undefined contents of a unit that is not clocked do not matter
          /\ clocked # "buffer" => flag_memory.ram.mem = [a \in Address |-> 0]
                                   /\ flag_memory.data_reg = 0
          /\ clocked # "router" => switch[1].match_counter = 0
          /\ clocked # "ram" => LET a == CHOOSE a \in RamAddress : TRUE
                                    d == CHOOSE d \in RamDatum : TRUE
                                IN  ram = RamAfterReset([b \in RamAddress |-> d], a, d)

MCNext ==
    /\ \/ /\ clocked = "buffer" /\ Next
          /\ UNCHANGED <<loopVars, routerVars, resetVars, ram, registerVars>>
       \/ /\ clocked = "loop" /\ Loop!Next
          /\ UNCHANGED <<bufferVars, routerVars, resetVars, ram, registerVars>>
       \/ /\ clocked = "router" /\ Router!Next
          /\ UNCHANGED <<bufferVars, loopVars, resetVars, ram, registerVars>>
       \/ /\ clocked = "reset" /\ Reset!Next
          /\ UNCHANGED <<bufferVars, loopVars, routerVars, ram, registerVars>>
       \/ /\ clocked = "ram" /\ Ram!Next
          /\ UNCHANGED <<bufferVars, loopVars, routerVars, resetVars, registerVars>>
       \/ /\ Regs!RegistersNext
          /\ UNCHANGED <<bufferVars, loopVars, routerVars, resetVars, ram>>
    /\ UNCHANGED clocked

MCSpec ==
    /\ MCInit /\ [][MCNext]_mcVars
    /\ WF_bufferVars(clocked = "buffer" /\ Tick)
    /\ WF_bufferVars(clocked = "buffer" /\ Read)
    /\ \A id \in SlotId : WF_bufferVars(clocked = "buffer" /\ Finish(id))
    /\ WF_loopVars(clocked = "loop" /\ Loop!Block)
    /\ WF_routerVars(clocked = "router" /\ Router!Serve)
    /\ Regs!RegistersFairness
-----------------------------------------------------------------------------
(* memory_bypass.sv: of two recent writes the RAM shows the youngest. *)
ShowsYoungestWrite == Ram!ShowsYoungestWrite

(* ir.cpp, ReorderHelper: threads that wait for their turn by circulating  *)
(* leave the loop in order, after the last of their own trips.             *)
LeavesInOrderAndDone == Loop!LeavesInOrderAndDone

(* extern_return_router.sv: every result goes to the call it answers. *)
RoutedToCaller == Router!RoutedToCaller

(* reset_control.sv: a pulse is stretched to exactly its window. *)
ResetWindowExact == Reset!ResetWindowExact

(* Every thread that enters an ordered loop leaves it, by either method of *)
(* reordering, and every external call is answered.                        *)
EveryoneLeaves == EveryThreadLeaves /\ Loop!EveryThreadLeaves /\ Router!EveryCallAnswered

(* register_fifo_skid.sv, register_fifo_dual.sv, skid_buffer.sv: each      *)
(* passes on exactly the items it accepted, in order.                      *)
AllImplementFifo == Regs!AllImplementFifo

(* The FIFOs made of registers never hold an item back from a reader that  *)
(* takes it, or stay closed to a writer (skid_fifo_read_buffer.sv,         *)
(* skid_buffer.sv).                                                        *)
RegistersKeepMoving == Regs!KeepMoving
=============================================================================
