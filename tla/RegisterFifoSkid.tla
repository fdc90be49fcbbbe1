-------------------------- MODULE RegisterFifoSkid --------------------------
(***************************************************************************)
(* KanagawaRegisterFifoSkid (register_fifo_skid.sv): a two-entry FIFO whose*)
(* outputs full, empty and q are all registers.  Its registers are a       *)
(* record; empty_ff and its duplicate internal_empty_ff, which the logic   *)
(* reads so that the output has no internal load, are both kept.           *)
(***************************************************************************)
CONSTANT NoItem

SkidStates(Item) ==
    [full : BOOLEAN, overflow : BOOLEAN, empty : BOOLEAN, internal_empty : BOOLEAN,
     output_data : Item \cup {NoItem}, overflow_data : Item \cup {NoItem}]

(* rst sets the flags; the data registers keep whatever they hold. *)
SkidCleared(s) ==
    [s EXCEPT !.full = FALSE, !.overflow = FALSE, !.empty = TRUE, !.internal_empty = TRUE]

(* The registers after the power-up reset. *)
SkidReset ==
    [full |-> FALSE, overflow |-> FALSE, empty |-> TRUE, internal_empty |-> TRUE,
     output_data |-> NoItem, overflow_data |-> NoItem]

(* A write goes to the output register if that is free after this edge. *)
Direct(s, wrreq, rdreq) == wrreq /\ (rdreq \/ s.internal_empty)

(* The registers after a clock edge.  The source statements come after the *)
(* sink statements and override them.                                      *)
SkidNext(s, wrreq, data, rdreq) ==
    LET direct == Direct(s, wrreq, rdreq)
        spill  == wrreq /\ ~direct
        drain  == rdreq /\ ~s.overflow
        isEmpty(e) == ~wrreq /\ (drain \/ e)
    IN  [full           |-> spill \/ (s.full /\ ~rdreq),
         overflow       |-> spill \/ (s.overflow /\ ~rdreq),
         empty          |-> isEmpty(s.empty),
         internal_empty |-> isEmpty(s.internal_empty),
         output_data    |-> IF direct THEN data
                            ELSE IF rdreq /\ s.overflow THEN s.overflow_data
                            ELSE s.output_data,
         overflow_data  |-> IF wrreq THEN data ELSE s.overflow_data]

(* What the two entries hold, oldest first. *)
SkidItems(s) ==
    IF s.empty THEN <<>>
    ELSE IF s.overflow THEN <<s.output_data, s.overflow_data>>
    ELSE <<s.output_data>>
=============================================================================
