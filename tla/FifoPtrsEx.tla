----------------------------- MODULE FifoPtrsEx -----------------------------
(***************************************************************************)
(* KanagawaFifoPtrsEx (fifo_ptrs_ex.sv): pointers, occupancy and registered*)
(* flags of a FIFO without its storage.  While rst is high the FIFO shows  *)
(* itself both full and empty, so that nobody uses it; the flags are only  *)
(* recomputed when something is written or read, or in the first cycle     *)
(* after reset.                                                            *)
(***************************************************************************)
EXTENDS FlipFlopChain

CONSTANTS DEPTH, LOG_DEPTH, ALMOST_FULL_MARGIN, ALMOST_EMPTY_MARGIN

VARIABLES wrptr_ff, rdptr_ff, usedw_ff, full_ff, almost_full_ff, empty_ff,
          almost_empty_ff, rst_d1

fifoPtrsExVars == <<wrptr_ff, rdptr_ff, usedw_ff, full_ff, almost_full_ff,
                    empty_ff, almost_empty_ff, rst_d1>>

(* usedw_ff is a register of LOG_DEPTH+1 bits. *)
USEDW_MODULUS == 2^(LOG_DEPTH + 1)

WRALMOST_FULL_THRESHOLD == DEPTH - ALMOST_FULL_MARGIN

(* A pointer wraps at DEPTH, which need not be a power of two. *)
NextPtr(ptr) == IF ptr = DEPTH - 1 THEN 0 ELSE ptr + 1

usedw_nxt(wr, rd) == (usedw_ff + Bit(wr) - Bit(rd)) % USEDW_MODULUS

FifoPtrsExInit ==
    /\ wrptr_ff = 0 /\ rdptr_ff = 0 /\ usedw_ff = 0
    /\ full_ff = TRUE /\ almost_full_ff = TRUE
    /\ empty_ff = TRUE /\ almost_empty_ff = TRUE
    /\ rst_d1 = TRUE

FifoPtrsExReset ==
    /\ wrptr_ff' = 0 /\ rdptr_ff' = 0 /\ usedw_ff' = 0
    /\ full_ff' = TRUE /\ almost_full_ff' = TRUE
    /\ empty_ff' = TRUE /\ almost_empty_ff' = TRUE

MutEnableOnWrite(wr, rd) == wr \/ rst_d1
reg_enable(wr, rd) == wr \/ rd \/ rst_d1

FifoPtrsExUpdate(wr, rd) ==
    LET used == usedw_nxt(wr, rd)
    IN  /\ wrptr_ff' = IF wr THEN NextPtr(wrptr_ff) ELSE wrptr_ff
        /\ rdptr_ff' = IF rd THEN NextPtr(rdptr_ff) ELSE rdptr_ff
        /\ usedw_ff' = used
        /\ full_ff' = (used = DEPTH)
        /\ almost_full_ff' = (used >= WRALMOST_FULL_THRESHOLD)
        /\ empty_ff' = (used = 0)
        /\ almost_empty_ff' = (used <= ALMOST_EMPTY_MARGIN)

(* A clock edge. *)
FifoPtrsExEdge(rst, wr, rd) ==
    /\ rst_d1' = rst
    /\ CASE rst -> FifoPtrsExReset
         [] ~rst /\ reg_enable(wr, rd) -> FifoPtrsExUpdate(wr, rd)
         [] OTHER -> UNCHANGED <<wrptr_ff, rdptr_ff, usedw_ff, full_ff,
                                 almost_full_ff, empty_ff, almost_empty_ff>>

FifoPtrsExTypeOK ==
    /\ wrptr_ff \in 0..(DEPTH - 1)
    /\ rdptr_ff \in 0..(DEPTH - 1)
    /\ usedw_ff \in 0..(USEDW_MODULUS - 1)
    /\ {full_ff, almost_full_ff, empty_ff, almost_empty_ff, rst_d1} \subseteq BOOLEAN
=============================================================================
