------------------------- MODULE MCWriteDelayFifos -------------------------
(***************************************************************************)
(* Two FIFOs for TLC: the one the constants describe, which is meant to be *)
(* transactional, and one with a pipelined empty.  Which of them is        *)
(* clocked is chosen once.                                                 *)
(***************************************************************************)
EXTENDS WriteDelayFifo

VARIABLE pipelined   \* the FIFO with the pipelined empty is under test

(* Seven entries, of which the last four are announced as almost empty. *)
Pipelined ==
    INSTANCE WriteDelayFifo WITH DEPTH <- 7, LOG_DEPTH <- 3, ALMOSTFULL_ENTRIES <- 1,
        ALMOSTEMPTY_VAL <- 4, WRITE_DELAY <- 0, FORWARD_DELAY <- 0, BACKWARD_DELAY <- 0,
        IS_TRANSACTIONAL <- FALSE, TRANSACTION_SIZE <- 1

ASSUME PipelinedAssumption == Pipelined!WriteDelayFifoAssumption

mcVars == <<vars, pipelined>>

MCInit == pipelined \in BOOLEAN /\ IF pipelined THEN Pipelined!Init ELSE Init

MCNext == pipelined' = pipelined /\ IF pipelined THEN Pipelined!Next ELSE Next

MCSpec ==
    /\ MCInit /\ [][MCNext]_mcVars
    /\ WF_vars(IF pipelined THEN Pipelined!Tick ELSE Tick)
    /\ WF_vars(IF pipelined THEN Pipelined!Read ELSE Read)
-----------------------------------------------------------------------------
(* What one of the two holds and has delivered, empty for the other. *)
Observed(on, contents) ==
    IF on /\ ~rst
    THEN [queue |-> contents, delivered |-> delivered, sent |-> sent, received |-> received]
    ELSE [queue |-> <<>>, delivered |-> NoItem, sent |-> 0, received |-> 0]

Single == Observed(~pipelined, Contents)
Second == Observed(pipelined, Pipelined!Contents)

AbstractSingle ==
    INSTANCE Fifo WITH CAPACITY <- DEPTH, queue <- Single.queue,
        delivered <- Single.delivered, sent <- Single.sent, received <- Single.received
AbstractSecond ==
    INSTANCE Fifo WITH CAPACITY <- 7, Item <- Pipelined!Item, queue <- Second.queue,
        delivered <- Second.delivered, sent <- Second.sent, received <- Second.received

(* Items are delivered in order, exactly once, through both delays and     *)
(* with either kind of empty (write_delay_fifo.sv).                        *)
BothImplementFifo == AbstractSingle!Spec /\ AbstractSecond!Spec

(* A reader that has begun a transaction is never made to wait inside it.  *)
NeverStallsInside == ~pipelined => NoStallInsideTransaction

(* The sign bit of the transaction counter is exact (transaction_count_ff  *)
(* of write_delay_fifo.sv).                                                *)
TransactionsExact == ~pipelined => TransactionEmptyExact

(* Almost-full back-pressure and store-and-forward do not block each       *)
(* other, and whatever is under way becomes readable, with either kind of  *)
(* empty (full and empty of write_delay_fifo.sv).                          *)
NothingStuck ==
    /\ []<>(pipelined \/ ~full \/ ~empty)
    /\ (~pipelined /\ Undelivered) ~> (~empty \/ rst)
    /\ (pipelined /\ Pipelined!Undelivered) ~> (~Pipelined!empty \/ rst)
=============================================================================
