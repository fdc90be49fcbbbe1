------------------------------ MODULE FifoPtrs ------------------------------
(***************************************************************************)
(* KanagawaFifoPtrs (fifo_ptrs.sv): the occupancy counter of a FIFO whose  *)
(* write requests reach it WRITE_DELAY cycles late and whose almost_full   *)
(* is seen by the writer WRITE_DELAY cycles late.  One step is one clock   *)
(* edge with rst low.                                                      *)
(***************************************************************************)
EXTENDS FlipFlopChain

CONSTANTS LOG_DEPTH, WRITE_DELAY, MAX_SIZE

VARIABLES delay_wrreq,        \* write requests under way to the counter
          delay_almost_full,  \* almost_full values under way to the writer
          usedw_ff, almost_full_raw, empty

fifoPtrsVars == <<delay_wrreq, delay_almost_full, usedw_ff, almost_full_raw, empty>>

(* usedw_ff is a register of LOG_DEPTH+1 bits. *)
USEDW_MODULUS == 2^(LOG_DEPTH + 1)

MutMarginOneWay == WRITE_DELAY
ALMOST_FULL_MARGIN == WRITE_DELAY * 2
ALMOST_FULL_THRESHOLD == MAX_SIZE - ALMOST_FULL_MARGIN

(* The output ports. *)
almost_full == ChainOut(delay_almost_full, WRITE_DELAY, almost_full_raw)

(* The request that reaches the counter while wrreq is on the input. *)
wrreq_delayed(wrreq) == ChainOut(delay_wrreq, WRITE_DELAY, wrreq)

MutReadLostOnWrite(wr, rd) ==
    (usedw_ff + (IF wr THEN 1 ELSE -Bit(rd))) % USEDW_MODULUS

(* add_table, indexed by {wrreq_delayed, rdreq}, added modulo the width. *)
usedw_next(wr, rd) == (usedw_ff + Bit(wr) - Bit(rd)) % USEDW_MODULUS

(* rst is held until the chains, which have no reset, have drained. *)
FifoPtrsInit ==
    /\ delay_wrreq = [i \in 1..WRITE_DELAY |-> FALSE]
    /\ delay_almost_full = [i \in 1..WRITE_DELAY |-> FALSE]
    /\ usedw_ff = 0
    /\ almost_full_raw = FALSE
    /\ empty = FALSE

MutStickyFull(next) == almost_full_raw \/ next >= ALMOST_FULL_THRESHOLD

almost_full_next(next) == next >= ALMOST_FULL_THRESHOLD

(* A clock edge with wrreq and rdreq on the inputs. *)
FifoPtrsCycle(wrreq, rdreq) ==
    LET next == usedw_next(wrreq_delayed(wrreq), rdreq)
    IN  /\ delay_wrreq' = ChainShift(delay_wrreq, WRITE_DELAY, wrreq)
        /\ delay_almost_full' =
              ChainShift(delay_almost_full, WRITE_DELAY, almost_full_raw)
        /\ usedw_ff' = next
        /\ almost_full_raw' = almost_full_next(next)
        /\ empty' = (next = 0)

FifoPtrsTypeOK ==
    /\ delay_wrreq \in Chains(WRITE_DELAY, BOOLEAN)
    /\ delay_almost_full \in Chains(WRITE_DELAY, BOOLEAN)
    /\ usedw_ff \in 0..(USEDW_MODULUS - 1)
    /\ almost_full_raw \in BOOLEAN
    /\ empty \in BOOLEAN
=============================================================================
