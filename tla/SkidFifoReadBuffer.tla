------------------------- MODULE SkidFifoReadBuffer -------------------------
(***************************************************************************)
(* KanagawaSkidFifoReadBuffer (skid_fifo_read_buffer.sv): DEPTH register   *)
(* FIFOs in a row that pull items out of an existing FIFO and offer them to*)
(* its reader, so that the two can be far apart.  All stages move at the   *)
(* same clock edge, each on the flags its neighbours had before the edge.  *)
(***************************************************************************)
EXTENDS Naturals, Sequences, SequencesExt, RegisterFifoSkid

CONSTANTS Item, DEPTH

VARIABLES stage,      \* the register FIFOs, stage 0 next to the existing FIFO
          delivered,  \* what the reader read last
          sent, received   \* parity of the items pulled in and read

vars == <<stage, delivered, sent, received>>

ReadBufferAssumption == DEPTH \in Nat \ {0} /\ NoItem \notin Item

Stages == 0..(DEPTH - 1)
LastStage == DEPTH - 1

rdempty_out == stage[LastStage].empty
rddata_out == stage[LastStage].output_data

Init ==
    /\ stage = [i \in Stages |-> SkidReset]
    /\ delivered = NoItem
    /\ sent = 0 /\ received = 0

MutMovesWhenFull(i) == stage[i - 1].full /\ ~stage[i].full

(* Stage i-1 hands an item to stage i. *)
Moves(i) == ~stage[i - 1].empty /\ ~stage[i].full

(* Stage 0 reads the existing FIFO. *)
Pulls(head) == head # NoItem /\ ~stage[0].full

(* A clock edge at which the existing FIFO shows "head" (NoItem: it is     *)
(* empty) and the reader reads (rdreq) or not.                             *)
Cycle(head, rdreq) ==
    LET wrreq(i) == IF i = 0 THEN Pulls(head) ELSE Moves(i)
        data(i)  == IF i = 0 THEN head ELSE stage[i - 1].output_data
        rd(i)    == IF i = LastStage THEN rdreq ELSE Moves(i + 1)
    IN  /\ rdreq => ~rdempty_out
        /\ stage' = [i \in Stages |-> SkidNext(stage[i], wrreq(i), data(i), rd(i))]
        /\ delivered' = IF rdreq THEN rddata_out ELSE delivered
        /\ sent' = IF wrreq(0) THEN 1 - sent ELSE sent
        /\ received' = IF rdreq THEN 1 - received ELSE received

Next == \E head \in Item \cup {NoItem}, rdreq \in BOOLEAN : Cycle(head, rdreq)

Spec == Init /\ [][Next]_vars

(* The clock runs: edges come as long as an edge at which nothing is       *)
(* pulled in or read would change a register.                              *)
Tick == (ENABLED <<Cycle(NoItem, FALSE)>>_vars) /\ Next
FairSpec == Spec /\ WF_vars(Tick)
-----------------------------------------------------------------------------
(* Everything in the buffer, oldest first: the last stage holds the oldest. *)
Contents == FlattenSeq([k \in 1..DEPTH |-> SkidItems(stage[DEPTH - k])])

Abstract == INSTANCE Fifo WITH queue <- Contents, CAPACITY <- 2 * DEPTH

(* The stages, moving on each other's old flags, neither lose nor duplicate*)
(* nor reorder an item.                                                    *)
ImplementsFifo == Abstract!Spec

(* An item bubbles through to the reader without the help of new items. *)
ReachesReader == Contents # <<>> ~> ~rdempty_out
=============================================================================
