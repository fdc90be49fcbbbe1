------------------------- MODULE InternalBufferFifo -------------------------
(***************************************************************************)
(* KanagawaInternalBufferFifo (internal_buffer_fifo.sv): a WriteDelayFifo  *)
(* whose reader is a two-entry register FIFO, so that the consumer's empty *)
(* and q come straight out of registers.  The two exchange items by        *)
(* themselves, in every cycle in which the memory FIFO is not empty and    *)
(* the register FIFO is not full; the consumer sees the register FIFO only.*)
(***************************************************************************)
EXTENDS WriteDelayFifo

Skid == INSTANCE RegisterFifoSkid

VARIABLES register_fifo,   \* the registers of the register FIFO
          consumed,        \* what the consumer read last
          reads            \* parity of the consumer's reads

bufferVars == <<vars, register_fifo, consumed, reads>>

MutTransfer == ~empty
MutTransferBehind == ~empty /\ ~register_fifo.full /\ ~register_fifo.empty

internal_transfer == ~empty /\ ~register_fifo.full

BufferInit ==
    /\ Init
    /\ register_fifo = Skid!SkidReset
    /\ consumed = NoItem /\ reads = 0

(* A clock edge: the consumer reads (rdreq) or not, the transfer happens   *)
(* whenever it can.                                                        *)
BufferCycle(start, rdreq, reset) ==
    /\ rdreq => ~register_fifo.empty /\ ~rst
    /\ Cycle(start, internal_transfer /\ ~rst, reset)
    /\ LET next == Skid!SkidNext(register_fifo, internal_transfer, q, rdreq)
       IN  register_fifo' = IF rst THEN Skid!SkidCleared(next) ELSE next
    /\ consumed' = IF rst THEN NoItem
                   ELSE IF rdreq THEN register_fifo.output_data ELSE consumed
    /\ reads' = IF rst THEN 0 ELSE (reads + Bit(rdreq)) % 2

BufferNext ==
    \E start \in Slot, rdreq, reset \in BOOLEAN : BufferCycle(start, rdreq, reset)

BufferSpec == BufferInit /\ [][BufferNext]_bufferVars

(* The clock runs (see Tick in WriteDelayFifo), and the consumer reads     *)
(* whenever it can.                                                        *)
BufferTick ==
    (ENABLED <<BufferCycle(NoItem, FALSE, FALSE)>>_bufferVars) /\ BufferNext
Consume == \E start \in Slot : BufferCycle(start, TRUE, FALSE)
FairBufferSpec == BufferSpec /\ WF_bufferVars(BufferTick) /\ WF_bufferVars(Consume)
-----------------------------------------------------------------------------
BufferContents == IF rst THEN <<>> ELSE Skid!SkidItems(register_fifo) \o Contents

AbstractBuffer ==
    INSTANCE Fifo WITH queue <- BufferContents, CAPACITY <- DEPTH + 2,
                       delivered <- IF rst THEN NoItem ELSE consumed,
                       sent <- IF rst THEN 0 ELSE sent,
                       received <- IF rst THEN 0 ELSE reads

(* The hand-over between the two FIFOs loses, duplicates and reorders      *)
(* nothing: together they are one FIFO with two more entries.              *)
BufferImplementsFifo == AbstractBuffer!Spec

(* What a writer has completed reaches a consumer that keeps reading: the  *)
(* last transaction does not stay behind in the memory FIFO.               *)
ReachesConsumer == Undelivered ~> (rst \/ ~register_fifo.empty)
=============================================================================
