--------------------------- MODULE RegisterFifos ---------------------------
(***************************************************************************)
(* The three small FIFOs made of registers, side by side.  They share no   *)
(* state; which of them is clocked is chosen once, so that their state     *)
(* spaces add up instead of multiplying.                                   *)
(***************************************************************************)
EXTENDS SkidFifoReadBuffer

VARIABLES in_which, out_which, wrptr_ff, rdptr_ff, dual_q,
          dual_delivered, dual_sent, dual_received

VARIABLES input_ready_ff, internal_input_ready_ff, output_valid_ff,
          internal_output_valid_ff, overflow_valid_ff, output_data_ff,
          overflow_data_ff, skid_delivered, skid_sent, skid_received

VARIABLE clocked   \* the FIFO under test

Dual == INSTANCE RegisterFifoDual
            WITH q <- dual_q, delivered <- dual_delivered, sent <- dual_sent,
                 received <- dual_received
Skid == INSTANCE SkidBuffer
            WITH delivered <- skid_delivered, sent <- skid_sent, received <- skid_received

dualVars == <<in_which, out_which, wrptr_ff, rdptr_ff, dual_q,
              dual_delivered, dual_sent, dual_received>>
skidVars == <<input_ready_ff, internal_input_ready_ff, output_valid_ff,
              internal_output_valid_ff, overflow_valid_ff, output_data_ff,
              overflow_data_ff, skid_delivered, skid_sent, skid_received>>
registerVars == <<vars, dualVars, skidVars>>

RegistersInit == Init /\ Dual!Init /\ Skid!Init

RegistersNext ==
    \/ clocked = "read_buffer" /\ Next /\ UNCHANGED <<dualVars, skidVars>>
    \/ clocked = "dual" /\ Dual!Next /\ UNCHANGED <<vars, skidVars>>
    \/ clocked = "skid_buffer" /\ Skid!Next /\ UNCHANGED <<vars, dualVars>>

RegistersFairness == /\ WF_vars(clocked = "read_buffer" /\ Tick)
                     /\ WF_skidVars(clocked = "skid_buffer" /\ Skid!Receive)
-----------------------------------------------------------------------------
(* Each passes on exactly the items it accepted, in order: the stages of   *)
(* the read buffer moving on each other's old flags, the two halves of the *)
(* dual FIFO used in turn, the skid buffer with its overflow register.     *)
AllImplementFifo == ImplementsFifo /\ Dual!ImplementsFifo /\ Skid!ImplementsFifo

(* Items bubble through the read buffer on their own, and the skid buffer  *)
(* does not stay closed while its receiver accepts items.                  *)
KeepMoving == ReachesReader /\ Skid!ReadyAgain
=============================================================================
