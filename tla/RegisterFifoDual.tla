-------------------------- MODULE RegisterFifoDual --------------------------
(***************************************************************************)
(* KanagawaRegisterFifoDual (register_fifo_dual.sv), the two-entry FIFO    *)
(* behind KanagawaTwoRegisterFifo: two one-entry KanagawaRegisterFifos     *)
(* (register_fifo.sv) written and read in turn.  A one-entry FIFO compares *)
(* a one-bit write pointer with a one-bit read pointer; it can be written  *)
(* or read at most every other cycle, the pair in every cycle.             *)
(***************************************************************************)
EXTENDS Naturals, Sequences

CONSTANTS Item, NoItem

VARIABLES in_which, out_which,   \* the half that is written and read next
          wrptr_ff, rdptr_ff, q, \* of the halves FALSE (first) and TRUE (second)
          delivered,             \* what the reader read last
          sent, received         \* parity of the items written and read

vars == <<in_which, out_which, wrptr_ff, rdptr_ff, q, delivered,
          sent, received>>

Halves == BOOLEAN

half_empty(h) == rdptr_ff[h] = wrptr_ff[h]

full == ~half_empty(in_which)
empty == half_empty(out_which)

Init ==
    /\ in_which = FALSE /\ out_which = FALSE
    /\ wrptr_ff = [h \in Halves |-> FALSE]
    /\ rdptr_ff = [h \in Halves |-> FALSE]
    /\ q = [h \in Halves |-> NoItem]
    /\ delivered = NoItem /\ sent = 0 /\ received = 0

(* The half whose turn it is after a request. *)
Turn(which, req) == IF req THEN ~which ELSE which

MutToggle(ptr, h, req) == IF req THEN [ptr EXCEPT ![h] = TRUE] ELSE ptr

(* A pointer of half h after an edge. *)
Toggle(ptr, h, req) == IF req THEN [ptr EXCEPT ![h] = ~ptr[h]] ELSE ptr

(* A clock edge at which "data" is written (NoItem: nothing) and the       *)
(* reader reads (rdreq) or not.                                            *)
Cycle(data, rdreq) ==
    LET wrreq == data # NoItem
    IN  /\ wrreq => ~full
        /\ rdreq => ~empty
        /\ in_which' = Turn(in_which, wrreq)
        /\ out_which' = Turn(out_which, rdreq)
        /\ wrptr_ff' = Toggle(wrptr_ff, in_which, wrreq)
        /\ rdptr_ff' = Toggle(rdptr_ff, out_which, rdreq)
        /\ q' = IF wrreq THEN [q EXCEPT ![in_which] = data] ELSE q
        /\ delivered' = IF rdreq THEN q[out_which] ELSE delivered
        /\ sent' = IF wrreq THEN 1 - sent ELSE sent
        /\ received' = IF rdreq THEN 1 - received ELSE received

Next == \E data \in Item \cup {NoItem}, rdreq \in BOOLEAN : Cycle(data, rdreq)

Spec == Init /\ [][Next]_vars
-----------------------------------------------------------------------------
(* The entries, oldest first: the half that is read next holds the oldest. *)
Contents ==
    (IF half_empty(out_which) THEN <<>> ELSE <<q[out_which]>>)
    \o (IF half_empty(~out_which) THEN <<>> ELSE <<q[~out_which]>>)

Abstract == INSTANCE Fifo WITH queue <- Contents, CAPACITY <- 2

(* The two halves, filled and drained in turn, are one FIFO of two entries. *)
ImplementsFifo == Abstract!Spec
=============================================================================
