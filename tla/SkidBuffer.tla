----------------------------- MODULE SkidBuffer -----------------------------
(***************************************************************************)
(* KanagawaSkidBuffer (skid_buffer.sv): a register stage on a ready/valid  *)
(* path in which ready is registered too.  The sender learns one cycle late*)
(* that the receiver has stopped, so the item it sends in that cycle goes  *)
(* to an overflow register.  The sender may withdraw or change an item     *)
(* that was not accepted, and the receiver may be ready at any time.       *)
(***************************************************************************)
EXTENDS Naturals, Sequences

CONSTANTS Item, NoItem

VARIABLES input_ready_ff, internal_input_ready_ff,
          output_valid_ff, internal_output_valid_ff,
          overflow_valid_ff, output_data_ff, overflow_data_ff,
          delivered,  \* what the receiver accepted last
          sent, received   \* parity of the items accepted from and by the neighbours

vars == <<input_ready_ff, internal_input_ready_ff, output_valid_ff,
          internal_output_valid_ff, overflow_valid_ff, output_data_ff,
          overflow_data_ff, delivered, sent, received>>

Init ==
    /\ input_ready_ff = TRUE /\ internal_input_ready_ff = TRUE
    /\ output_valid_ff = FALSE /\ internal_output_valid_ff = FALSE
    /\ overflow_valid_ff = FALSE
    /\ output_data_ff = NoItem /\ overflow_data_ff = NoItem
    /\ delivered = NoItem /\ sent = 0 /\ received = 0

(* The output register can take a new item at this edge. *)
Direct(output_ready) == output_ready \/ ~internal_output_valid_ff

Sink(output_ready) == internal_output_valid_ff /\ output_ready

(* A clock edge at which the sender offers "data" (NoItem: nothing) and    *)
(* the receiver is ready (output_ready) or not.                            *)
Cycle(data, output_ready) ==
    LET sink   == Sink(output_ready)
        source == data # NoItem /\ internal_input_ready_ff
        taken  == output_valid_ff /\ output_ready
        direct == source /\ Direct(output_ready)
        spill  == source /\ ~direct
        ready(r) == ~spill /\ (sink \/ r)
        valid(v) == source \/ (v /\ ~(sink /\ ~overflow_valid_ff))
    IN  /\ input_ready_ff' = ready(input_ready_ff)
        /\ internal_input_ready_ff' = ready(internal_input_ready_ff)
        /\ output_valid_ff' = valid(output_valid_ff)
        /\ internal_output_valid_ff' = valid(internal_output_valid_ff)
        /\ overflow_valid_ff' = (spill \/ (overflow_valid_ff /\ ~sink))
        /\ output_data_ff' = IF direct THEN data
                             ELSE IF sink /\ overflow_valid_ff THEN overflow_data_ff
                             ELSE output_data_ff
        /\ overflow_data_ff' = IF source THEN data ELSE overflow_data_ff
        /\ delivered' = IF taken THEN output_data_ff ELSE delivered
        /\ received' = IF taken THEN 1 - received ELSE received
        /\ sent' = IF data # NoItem /\ input_ready_ff THEN 1 - sent ELSE sent

Next == \E data \in Item \cup {NoItem}, output_ready \in BOOLEAN :
            Cycle(data, output_ready)

Spec == Init /\ [][Next]_vars

(* A receiver that is offered an item takes it in the end. *)
Receive == output_valid_ff /\ \E data \in Item \cup {NoItem} : Cycle(data, TRUE)
FairSpec == Spec /\ WF_vars(Receive)
-----------------------------------------------------------------------------
Contents ==
    IF ~output_valid_ff THEN <<>>
    ELSE IF overflow_valid_ff THEN <<output_data_ff, overflow_data_ff>>
    ELSE <<output_data_ff>>

Abstract == INSTANCE Fifo WITH queue <- Contents, CAPACITY <- 2

(* Exactly the items that were offered while ready was high come out, in   *)
(* order, whatever the interleaving of valid and ready.                    *)
ImplementsFifo == Abstract!Spec

(* The stage never stays closed to a sender whose receiver accepts items. *)
ReadyAgain == []<>input_ready_ff
=============================================================================
