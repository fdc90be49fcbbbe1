------------------------ MODULE WriteDelayFifoProofs ------------------------
(***************************************************************************)
(* KanagawaWriteDelayFifo, alone and inside KanagawaInternalBufferFifo,    *)
(* neither overflows nor underflows, for every depth, block length, delay  *)
(* and choice the auto-pipeliner makes, provided that the reset is held    *)
(* long enough (ResetCoversDelays; the run short_reset shows what happens  *)
(* otherwise).  The inductive invariant is IInv of WriteDelayFifo.         *)
(*                                                                         *)
(* On it rest three more results: both are FIFOs in the sense of Fifo; the *)
(* transaction counter is exact across its wrap-around; and a reader is    *)
(* not stopped inside a transaction if writes pass at most one register    *)
(* and empty is not pipelined.                                             *)
(***************************************************************************)
EXTENDS InternalBufferFifo, MCWriteDelayFifos, RuntimeLemmas

(* What the assumptions say of the numbers. *)
LEMMA Parameters ==
    /\ DEPTH \in Nat \ {0} /\ ALMOSTFULL_ENTRIES \in Nat /\ WRITE_DELAY \in Nat
    /\ ALMOSTEMPTY_VAL \in Nat
    /\ FORWARD_DELAY \in 0..WRITE_DELAY /\ BACKWARD_DELAY \in 0..WRITE_DELAY
    /\ FORWARD_DELAY \in Nat /\ BACKWARD_DELAY \in Nat
    /\ ALMOSTFULL_ENTRIES + 2 * WRITE_DELAY < DEPTH
    /\ WRALMOST_FULL_THRESHOLD = DEPTH - (ALMOSTFULL_ENTRIES + 2 * WRITE_DELAY)
    /\ TRANSACTION_SIZE \in Nat \ {0} /\ MaxResets \in Nat
  BY WriteDelayFifoAssumption DEF WRALMOST_FULL_THRESHOLD, ALMOSTFULL_ENTRIES_INTERNAL

(* The occupancy register is wide enough for DEPTH. *)
LEMMA WidthFits == USEDW_MODULUS \in Nat /\ DEPTH < USEDW_MODULUS
  BY WriteDelayFifoAssumption, Zenon DEF USEDW_MODULUS

(* A number of the register's range is its own remainder. *)
LEMMA ModSmall == \A n \in 0..(USEDW_MODULUS - 1) : n % USEDW_MODULUS = n
  BY WidthFits, Parameters

(* A remainder fits the register. *)
LEMMA ModType == \A n \in Int : n % USEDW_MODULUS \in 0..(USEDW_MODULUS - 1)
  BY WidthFits, Parameters

(* The reset is held for at least six cycles. *)
LEMMA HoldType == RESET_HOLD \in Nat /\ RESET_HOLD >= 6
  <1> DEFINE S == {RESET_LATENCY, 1, ALMOSTFULL_ENTRIES}
  <1>1. RESET_LATENCY \in Nat /\ ALMOSTFULL_ENTRIES \in Nat /\ BYPASS_SLOTS \in Nat \ {0, 1}
    BY WriteDelayFifoAssumption
  <1>2. \E x \in S : \A y \in S : x >= y
    BY <1>1
  <1>3. Max(S) \in S /\ Max(S) >= 1
    <2> HIDE DEF S
    <2>1. Max(S) \in S /\ \A y \in S : Max(S) >= y
      BY <1>2 DEF Max
    <2> QED BY <2>1 DEF S
  <1> HIDE DEF S
  <1>4. Max(S) \in Nat
    BY <1>1, <1>3 DEF S
  <1> QED BY <1>1, <1>3, <1>4 DEF RESET_HOLD, S
-----------------------------------------------------------------------------
(* The number of writes under way in a chain is bounded by its length. *)
LEMMA UnderWayType ==
    ASSUME NEW depth \in Nat, NEW chain
    PROVE  /\ Writes(chain, depth) \in Chains(depth, BOOLEAN)
           /\ UnderWay(chain, depth) \in 0..depth
  BY PulsesType DEF UnderWay, Writes, Chains

(* A clock edge adds the write that enters and drops the one that leaves. *)
LEMMA UnderWayEdge ==
    ASSUME NEW depth \in Nat, NEW chain, NEW in
    PROVE  UnderWay(ChainShift(chain, depth, in), depth)
             = UnderWay(chain, depth) + Bit(in # NoItem)
               - Bit(ChainOut(chain, depth, in) # NoItem)
  <1> DEFINE w == Writes(chain, depth)
  <1>1. w \in Chains(depth, BOOLEAN)
    BY UnderWayType
  <1>2. Writes(ChainShift(chain, depth, in), depth) = ChainShift(w, depth, in # NoItem)
    BY DEF Writes, ChainShift
  <1>3. ChainOut(w, depth, in # NoItem) = (ChainOut(chain, depth, in) # NoItem)
    BY DEF Writes, ChainOut
  <1>4. Pulses(ChainShift(w, depth, in # NoItem), depth, 0)
          = Pulses(w, depth, 0) + Bit(in # NoItem) - Bit(ChainOut(w, depth, in # NoItem))
    BY <1>1, PulsesEdge
  <1> QED BY <1>2, <1>3, <1>4 DEF UnderWay
-----------------------------------------------------------------------------
(* At power-up the FIFO is empty, whatever the chains hold. *)
LEMMA InitInv == Init => IInv
  <1> SUFFICES ASSUME Init PROVE IInv
    OBVIOUS
  <1> USE Parameters, WidthFits, HoldType
  <1>1. FifoPtrsExTypeOK
    BY DEF Init, FifoPtrsExInit, FifoPtrsExTypeOK
  <1>2. TypeOK
    <2>1. /\ transaction_count_ff \in 0..(USEDW_MODULUS - 1)
          /\ rst_hold \in 0..RESET_HOLD /\ resets \in 0..MaxResets
          /\ opened \in 0..(TRANSACTION_SIZE - 1)
          /\ sent \in {0, 1} /\ received \in {0, 1}
      BY DEF Init
    <2>2. delivered \in Slot /\ values \in [0..(DEPTH - 1) -> Slot]
      BY DEF Init, Slot
    <2> QED
      BY <1>1, <2>1, <2>2, Zenon DEF Init, TypeOK
  <1>3. /\ UnderWay(delay_wrreq_data, FORWARD_DELAY) \in 0..FORWARD_DELAY
        /\ UnderWay(pipeline, ALMOSTFULL_ENTRIES) \in 0..ALMOSTFULL_ENTRIES
    BY UnderWayType
  <1>4. /\ Committed \in Nat
        /\ Committed <= FORWARD_DELAY + ALMOSTFULL_ENTRIES
    BY <1>3 DEF Committed, Init, FifoPtrsExInit
  <1>5. Committed <= DEPTH /\ Promise
    BY <1>4 DEF Promise
  <1>6. FlagsExact
    BY DEF FlagsExact, Init, FifoPtrsExInit
  <1>7. EmptyInTime
    BY DEF EmptyInTime, Init
  <1>8. ResetProgress
    BY DEF ResetProgress, ResetEdges, Init
  <1> QED
    BY <1>2, <1>5, <1>6, <1>7, <1>8 DEF IInv, Init, NoOverflow, NoUnderflow

(* A read that empty allows finds an entry. *)
LEMMA ReadFindsEntry ==
    ASSUME IInv, ~empty, ~rst
    PROVE  ~empty_ff /\ ~rst_d1 /\ usedw_ff > 0
  <1> USE Parameters, WidthFits
  <1>1. empty_ff \in BOOLEAN /\ rst_d1 \in BOOLEAN /\ usedw_ff \in Nat
    BY DEF IInv, TypeOK, FifoPtrsExTypeOK
  <1>2. ~empty_ff
    <2>1. ~empty_pre_transaction
      BY DEF empty
    <2> QED
      BY <2>1 DEF empty_pre_transaction, IInv, EmptyInTime
  <1>3. ~rst_d1
    BY <1>2 DEF IInv, FlagsExact
  <1> QED
    BY <1>1, <1>2, <1>3 DEF IInv, FlagsExact

(* In the first cycle after a reset no write arrives. *)
LEMMA NoWriteAfterReset ==
    ASSUME ResetCoversDelays, IInv, rst_d1, ~rst
    PROVE  /\ full
           /\ \A i \in 1..ALMOSTFULL_ENTRIES : pipeline[i] = NoItem
           /\ \A i \in 1..FORWARD_DELAY : delay_wrreq_data[i] = NoItem
  <1> USE Parameters, HoldType
  <1>1. ResetEdges = RESET_HOLD
    BY DEF rst, ResetEdges, IInv, TypeOK
  <1>2. /\ \A i \in 1..ALMOSTFULL_ENTRIES : pipeline[i] = NoItem
        /\ \A i \in 1..FORWARD_DELAY : delay_wrreq_data[i] = NoItem
        /\ \A i \in 1..BACKWARD_DELAY : delay_afull[i]
    BY <1>1 DEF IInv, ResetProgress, ResetCoversDelays
  <1>3. almost_full_ff
    BY DEF IInv, FlagsExact
  <1> QED
    BY <1>2, <1>3 DEF full, ChainOut

(* The write that leaves the block at this edge, and the one that reaches  *)
(* the FIFO.                                                               *)
WrItem(start) == ChainOut(pipeline, ALMOSTFULL_ENTRIES, start)
InItem(start) == ChainOut(delay_wrreq_data, FORWARD_DELAY, WrItem(start))

(* The books of a clock edge: the entries that are used or spoken for, and *)
(* where the pointers go.                                                  *)
LEMMA Occupancy ==
    ASSUME ResetCoversDelays, IInv, NEW start \in Slot, NEW rdreq \in BOOLEAN,
           NEW reset \in BOOLEAN, Cycle(start, rdreq, reset)
    PROVE  LET wr == InItem(start) # NoItem
               inBlock == UnderWay(pipeline, ALMOSTFULL_ENTRIES)
               inChain == UnderWay(delay_wrreq_data, FORWARD_DELAY)
           IN  /\ WrItem(start) \in Slot /\ InItem(start) \in Slot
               /\ inBlock \in 0..ALMOSTFULL_ENTRIES /\ inChain \in 0..FORWARD_DELAY
               /\ inBlock' \in 0..ALMOSTFULL_ENTRIES /\ inChain' \in 0..FORWARD_DELAY
               /\ inBlock' = inBlock + Bit(start # NoItem) - Bit(WrItem(start) # NoItem)
               /\ inChain' = inChain + Bit(WrItem(start) # NoItem) - Bit(wr)
               /\ Committed = usedw_ff + inChain + inBlock
               /\ Committed' = usedw_ff' + inChain' + inBlock'
               /\ start # NoItem => Committed < DEPTH
               /\ usedw_ff + Bit(wr) <= DEPTH
               /\ rdreq => ~empty_ff /\ ~rst_d1 /\ usedw_ff > 0
               /\ ~rst /\ rst_d1 => ~wr
               /\ usedw_ff' = IF rst THEN 0 ELSE usedw_ff + Bit(wr) - Bit(rdreq)
               /\ usedw_ff' \in 0..DEPTH
               /\ wrptr_ff' = IF rst THEN 0 ELSE IF wr THEN NextPtr(wrptr_ff) ELSE wrptr_ff
               /\ rdptr_ff' = IF rst THEN 0
                              ELSE IF rdreq THEN NextPtr(rdptr_ff) ELSE rdptr_ff
  <1> DEFINE A == ALMOSTFULL_ENTRIES
             F == FORWARD_DELAY
             B == BACKWARD_DELAY
             wrItem == WrItem(start)
             inItem == InItem(start)
             wr     == inItem # NoItem
             inBlock == UnderWay(pipeline, A)
             inChain == UnderWay(delay_wrreq_data, F)
  <1> USE Parameters, WidthFits, HoldType
  <1>1. /\ delay_wrreq_data \in Chains(F, Slot)
        /\ pipeline \in Chains(A, Slot)
        /\ almost_full_ff \in BOOLEAN /\ full_ff \in BOOLEAN /\ rst_d1 \in BOOLEAN
        /\ empty_ff \in BOOLEAN /\ almost_empty_ff \in BOOLEAN
        /\ wrptr_ff \in 0..(DEPTH - 1) /\ rdptr_ff \in 0..(DEPTH - 1)
        /\ usedw_ff \in Nat
    BY DEF IInv, TypeOK, FifoPtrsExTypeOK
  <1>2. /\ start # NoItem => CanStart(start)
        /\ rdreq => ~empty /\ ~rst
        /\ pipeline' = ChainShift(pipeline, A, start)
        /\ delay_wrreq_data' = ChainShift(delay_wrreq_data, F, wrItem)
        /\ FifoPtrsExEdge(rst, wr, rdreq)
    BY DEF Cycle, WrItem, InItem
  <1>3. wrItem \in Slot /\ inItem \in Slot
    <2>1. wrItem \in Slot
      BY <1>1, <1>2, ChainShiftType DEF WrItem
    <2>2. inItem = ChainOut(delay_wrreq_data, F, wrItem)
      BY DEF InItem, WrItem
    <2> HIDE DEF wrItem, inItem
    <2> QED
      BY <1>1, <1>2, <2>1, <2>2, ChainShiftType
  <1>4. /\ inBlock \in 0..A /\ inChain \in 0..F /\ inBlock' \in 0..A /\ inChain' \in 0..F
        /\ inBlock' = inBlock + Bit(start # NoItem) - Bit(wrItem # NoItem)
        /\ inChain' = inChain + Bit(wrItem # NoItem) - Bit(wr)
        /\ Committed = usedw_ff + inChain + inBlock
        /\ Committed' = usedw_ff' + inChain' + inBlock'
    BY <1>2, UnderWayType, UnderWayEdge DEF Committed, WrItem, InItem
  <1>5. start # NoItem => Committed < DEPTH
    <2> SUFFICES ASSUME start # NoItem PROVE Committed < DEPTH
      OBVIOUS
    <2>1. full = FullAt(B)
      BY DEF full, ChainOut, FullAt
    <2>2. ~FullAt(B)
      BY <1>2, <2>1 DEF CanStart
    <2>3. Committed + (B - B) < DEPTH
      BY <2>2 DEF IInv, Promise
    <2> QED
      BY <1>1, <1>4, <2>3
  <1> HIDE DEF wrItem, inItem, inBlock, inChain
  <1>6. usedw_ff + Bit(wr) <= DEPTH
    <2>1. usedw_ff + inChain + inBlock + Bit(start # NoItem) <= DEPTH
      BY <1>1, <1>4, <1>5 DEF IInv, Bit
    <2>2. Bit(wr) <= inChain + inBlock + Bit(start # NoItem)
      BY <1>4 DEF Bit
    <2> QED
      BY <1>1, <1>4, <2>1, <2>2 DEF Bit
  <1>7. rdreq => ~empty_ff /\ ~rst_d1 /\ usedw_ff > 0
    BY <1>2, ReadFindsEntry
  <1>8. ~rst /\ rst_d1 => ~wr
    <2> SUFFICES ASSUME ~rst, rst_d1, wr PROVE FALSE
      OBVIOUS
    <2>1. start = NoItem
      BY <1>2, NoWriteAfterReset DEF CanStart
    <2>2. wrItem = NoItem
      BY <2>1, NoWriteAfterReset DEF wrItem, WrItem, ChainOut
    <2>3. inItem = NoItem
      BY <2>2, NoWriteAfterReset DEF inItem, wrItem, InItem, WrItem, ChainOut
    <2> QED BY <2>3
  <1>9. /\ usedw_ff' = IF rst THEN 0 ELSE usedw_ff + Bit(wr) - Bit(rdreq)
        /\ usedw_ff' \in 0..DEPTH
        /\ wrptr_ff' = IF rst THEN 0 ELSE IF wr THEN NextPtr(wrptr_ff) ELSE wrptr_ff
        /\ rdptr_ff' = IF rst THEN 0 ELSE IF rdreq THEN NextPtr(rdptr_ff) ELSE rdptr_ff
    <2>1. usedw_ff + Bit(wr) - Bit(rdreq) \in 0..DEPTH
      BY <1>1, <1>6, <1>7 DEF Bit
    <2>2. usedw_nxt(wr, rdreq) = usedw_ff + Bit(wr) - Bit(rdreq)
      BY <2>1, ModSmall DEF usedw_nxt
    <2>3. CASE rst
      BY <1>2, <2>3 DEF FifoPtrsExEdge, FifoPtrsExReset
    <2>4. CASE ~rst /\ reg_enable(wr, rdreq)
      <3>1. FifoPtrsExUpdate(wr, rdreq)
        BY <1>2, <2>4 DEF FifoPtrsExEdge
      <3> QED
        BY <1>1, <2>1, <2>2, <2>4, <3>1 DEF FifoPtrsExUpdate, NextPtr
    <2>5. CASE ~rst /\ ~reg_enable(wr, rdreq)
      <3>1. /\ usedw_ff' = usedw_ff /\ wrptr_ff' = wrptr_ff /\ rdptr_ff' = rdptr_ff
            /\ ~wr /\ ~rdreq
        BY <1>2, <2>5 DEF FifoPtrsExEdge, reg_enable
      <3> QED
        BY <1>1, <2>1, <2>5, <3>1 DEF Bit
    <2> QED BY <2>3, <2>4, <2>5
  <1> QED
    BY <1>3, <1>4, <1>5, <1>6, <1>7, <1>8, <1>9 DEF wrItem, inItem, inBlock, inChain

(* The invariant holds again after every clock edge. *)
LEMMA CycleInv ==
    ASSUME ResetCoversDelays, IInv, NEW start \in Slot, NEW rdreq \in BOOLEAN,
           NEW reset \in BOOLEAN, Cycle(start, rdreq, reset)
    PROVE  IInv'
  <1> DEFINE A == ALMOSTFULL_ENTRIES
             F == FORWARD_DELAY
             B == BACKWARD_DELAY
             wrItem == WrItem(start)
             inItem == InItem(start)
             wr     == inItem # NoItem
             inBlock == UnderWay(pipeline, A)
             inChain == UnderWay(delay_wrreq_data, F)
  <1> USE Parameters, WidthFits, HoldType
  <1>1. /\ delay_wrreq_data \in Chains(F, Slot)
        /\ delay_afull \in Chains(B, BOOLEAN)
        /\ pipeline \in Chains(A, Slot)
        /\ almost_full_ff \in BOOLEAN /\ full_ff \in BOOLEAN /\ rst_d1 \in BOOLEAN
        /\ empty_ff \in BOOLEAN /\ almost_empty_ff \in BOOLEAN
        /\ wrptr_ff \in 0..(DEPTH - 1) /\ rdptr_ff \in 0..(DEPTH - 1)
        /\ usedw_ff \in Nat
        /\ values \in [0..(DEPTH - 1) -> Slot]
        /\ rst_hold \in 0..RESET_HOLD
    BY DEF IInv, TypeOK, FifoPtrsExTypeOK
  <1>2. /\ start # NoItem => CanStart(start)
        /\ rdreq => ~empty /\ ~rst
        /\ pipeline' = ChainShift(pipeline, A, start)
        /\ delay_wrreq_data' = ChainShift(delay_wrreq_data, F, wrItem)
        /\ delay_afull' = ChainShift(delay_afull, B, almost_full_ff)
        /\ FifoPtrsExEdge(rst, wr, rdreq)
        /\ values' = ValuesNext(inItem)
        /\ empty_ffc' = EmptyNext(rdreq)
        /\ overflow_out' = error_next(overflow_out, full_ff, wr)
        /\ underflow_out' = error_next(underflow_out, empty_ff, rdreq)
        /\ reset => ~rst /\ resets < MaxResets
        /\ resets' = resets + Bit(reset)
        /\ rst_hold' = IF rst THEN rst_hold - 1 ELSE IF reset THEN RESET_HOLD ELSE 0
    BY DEF Cycle, WrItem, InItem
  <1>3. /\ wrItem \in Slot /\ inItem \in Slot
        /\ pipeline' \in Chains(A, Slot)
        /\ delay_wrreq_data' \in Chains(F, Slot)
        /\ delay_afull' \in Chains(B, BOOLEAN)
    <2>1. wrItem \in Slot /\ pipeline' \in Chains(A, Slot)
      BY <1>1, <1>2, ChainShiftType DEF WrItem
    <2>2. inItem = ChainOut(delay_wrreq_data, F, wrItem)
      BY DEF InItem, WrItem
    <2> HIDE DEF wrItem, inItem
    <2> QED
      BY <1>1, <1>2, <2>1, <2>2, ChainShiftType
  <1>4. /\ inBlock \in 0..A /\ inChain \in 0..F /\ inBlock' \in 0..A /\ inChain' \in 0..F
        /\ inBlock' = inBlock + Bit(start # NoItem) - Bit(wrItem # NoItem)
        /\ inChain' = inChain + Bit(wrItem # NoItem) - Bit(wr)
        /\ Committed = usedw_ff + inChain + inBlock
        /\ Committed' = usedw_ff' + inChain' + inBlock'
        /\ start # NoItem => Committed < DEPTH
    BY Occupancy
  <1>6. /\ usedw_ff + Bit(wr) <= DEPTH
        /\ rdreq => ~empty_ff /\ ~rst_d1 /\ usedw_ff > 0
        /\ ~rst /\ rst_d1 => ~wr
        /\ usedw_ff' = IF rst THEN 0 ELSE usedw_ff + Bit(wr) - Bit(rdreq)
        /\ usedw_ff' \in 0..DEPTH
    BY Occupancy
  <1> HIDE DEF wrItem, inItem, inBlock, inChain
  <1>9. /\ wrptr_ff' \in 0..(DEPTH - 1) /\ rdptr_ff' \in 0..(DEPTH - 1)
    <2>1. /\ wrptr_ff' \in {0, NextPtr(wrptr_ff), wrptr_ff}
          /\ rdptr_ff' \in {0, NextPtr(rdptr_ff), rdptr_ff}
      BY Occupancy
    <2> QED BY <1>1, <2>1 DEF NextPtr
  <1>10. FlagsExact' /\ rst_d1' = rst
    <2>1. rst_d1' = rst /\ rst \in BOOLEAN
      BY <1>2 DEF FifoPtrsExEdge, rst
    <2>2. CASE rst
      BY <1>2, <2>1, <2>2 DEF FifoPtrsExEdge, FifoPtrsExReset, FlagsExact
    <2>3. CASE ~rst /\ reg_enable(wr, rdreq)
      <3>1. FifoPtrsExUpdate(wr, rdreq)
        BY <1>2, <2>3 DEF FifoPtrsExEdge
      <3> QED
        BY <2>1, <2>3, <3>1 DEF FifoPtrsExUpdate, FlagsExact, WRALMOST_FULL_THRESHOLD
    <2>4. CASE ~rst /\ ~reg_enable(wr, rdreq)
      <3>1. /\ UNCHANGED <<usedw_ff, full_ff, almost_full_ff, empty_ff, almost_empty_ff>>
            /\ ~rst_d1
        BY <1>2, <2>4 DEF FifoPtrsExEdge, reg_enable
      <3> QED
        BY <2>1, <2>4, <3>1 DEF IInv, FlagsExact, WRALMOST_FULL_THRESHOLD
    <2> QED BY <2>1, <2>2, <2>3, <2>4
  <1>11. /\ almost_full_ff' \in BOOLEAN /\ full_ff' \in BOOLEAN
         /\ empty_ff' \in BOOLEAN /\ almost_empty_ff' \in BOOLEAN
         /\ rst_d1' \in BOOLEAN
    <2>1. rst \in BOOLEAN
      BY DEF rst
    <2>2. CASE rst
      BY <1>2, <1>10, <2>1, <2>2 DEF FifoPtrsExEdge, FifoPtrsExReset
    <2>3. CASE ~rst /\ reg_enable(wr, rdreq)
      BY <1>2, <1>10, <2>1, <2>3 DEF FifoPtrsExEdge, FifoPtrsExUpdate
    <2>4. CASE ~rst /\ ~reg_enable(wr, rdreq)
      <3>1. UNCHANGED <<full_ff, almost_full_ff, empty_ff, almost_empty_ff>>
        BY <1>2, <2>4 DEF FifoPtrsExEdge
      <3> QED
        BY <1>1, <1>10, <2>1, <3>1
    <2> QED BY <2>2, <2>3, <2>4
  <1>12. /\ Committed' \in Nat
         /\ Committed' <= DEPTH
         /\ rst => Committed' <= A + F
         /\ ~rst => Committed' <= Committed + Bit(start # NoItem)
    BY <1>1, <1>4, <1>6 DEF IInv, Bit
  <1>13. Promise'
    <2> SUFFICES ASSUME NEW j \in 0..B, ~FullAt(j)'
                 PROVE  Committed' + (B - j) < DEPTH
      BY DEF Promise
    <2> DEFINE c == Committed'
    <2>0. /\ c \in Nat /\ j \in Nat /\ j <= B
          /\ rst => c <= A + F
          /\ ~rst => c <= Committed + Bit(start # NoItem)
      BY <1>12
    <2> HIDE DEF c
    <2>1. CASE rst
      <3>1. c + (B - j) < DEPTH
        BY <2>0, <2>1
      <3> QED BY <3>1 DEF c
    <2>2. CASE ~rst /\ j = 0
      <3>1. ~almost_full_ff'
        BY <2>2 DEF FullAt
      <3>2. (almost_full_ff <=> usedw_ff >= WRALMOST_FULL_THRESHOLD)'
        BY <1>10, <2>2, Zenon DEF FlagsExact
      <3>3. ~(usedw_ff' >= WRALMOST_FULL_THRESHOLD)
        BY <3>1, <3>2, Zenon DEF WRALMOST_FULL_THRESHOLD
      <3> QED
        BY <1>4, <1>6, <2>2, <3>3
    <2>3. CASE ~rst /\ j # 0
      <3>1. j - 1 \in 0..B /\ ~FullAt(j - 1)
        BY <1>2, <2>3 DEF FullAt, ChainShift
      <3>2. Committed + (B - (j - 1)) < DEPTH
        BY <3>1 DEF IInv, Promise
      <3>3. Committed \in Nat
        BY <1>1, <1>4
      <3>4. c + (B - j) < DEPTH
        BY <2>0, <2>3, <3>2, <3>3 DEF Bit
      <3> QED BY <3>4 DEF c
    <2> QED BY <2>1, <2>2, <2>3
  <1>14. TypeOK'
    <2>1. /\ values' \in [0..(DEPTH - 1) -> Slot]
          /\ q \in Slot
      BY <1>1, <1>2, <1>3 DEF ValuesNext, q
    <2>2. /\ rst_hold' \in 0..RESET_HOLD
          /\ resets' \in 0..MaxResets
      BY <1>1, <1>2 DEF IInv, TypeOK, rst, Bit
    <2>3. transaction_count_ff' \in 0..(USEDW_MODULUS - 1)
      <3>1. transaction_count_ff \in Nat
        BY DEF IInv, TypeOK
      <3>2. \A a, b : TransactionCountNext(a, b) \in 0..(USEDW_MODULUS - 1)
        BY <3>1, ModType DEF TransactionCountNext, Bit
      <3>3. \/ transaction_count_ff' = USEDW_MODULUS - 1
            \/ \E a, b : transaction_count_ff' = TransactionCountNext(a, b)
        BY DEF Cycle
      <3> QED
        BY <3>2, <3>3
    <2>4. opened' \in 0..(TRANSACTION_SIZE - 1)
      <3>1. opened \in 0..(TRANSACTION_SIZE - 1)
        BY DEF IInv, TypeOK
      <3>2. opened' = IF rst THEN 0
                      ELSE IF start = NoItem THEN opened
                      ELSE IF start.last THEN 0 ELSE opened + 1
        BY DEF Cycle
      <3>3. start # NoItem => start.last \/ opened + 1 < TRANSACTION_SIZE
        BY <1>2 DEF CanStart
      <3> QED
        BY <3>1, <3>2, <3>3
    <2>5. /\ sent' \in {0, 1} /\ received' \in {0, 1}
      <3>1. sent \in {0, 1} /\ received \in {0, 1}
        BY DEF IInv, TypeOK
      <3>2. /\ sent' = IF rst THEN 0 ELSE (sent + Bit(start # NoItem)) % 2
            /\ received' = IF rst THEN 0 ELSE (received + Bit(rdreq)) % 2
        BY DEF Cycle
      <3> QED
        BY <3>1, <3>2 DEF Bit
    <2>6. delivered' \in Slot
      <3>1. delivered \in Slot
        BY DEF IInv, TypeOK
      <3>2. delivered' = IF rst THEN NoItem ELSE IF rdreq THEN q ELSE delivered
        BY DEF Cycle
      <3> QED
        BY <2>1, <3>1, <3>2 DEF Slot
    <2>7. /\ empty_ffc' \in BOOLEAN /\ overflow_out' \in BOOLEAN
          /\ underflow_out' \in BOOLEAN
      BY <1>1, <1>2 DEF EmptyNext, error_next
    <2>8. midTransaction' \in BOOLEAN
      <3>1. midTransaction \in BOOLEAN
        BY DEF IInv, TypeOK
      <3>2. midTransaction' = IF rst THEN FALSE ELSE IF rdreq THEN ~IsLast(q)
                              ELSE midTransaction
        BY DEF Cycle
      <3> QED
        BY <3>1, <3>2
    <2>9. FifoPtrsExTypeOK'
      <3>1. usedw_ff' \in 0..(USEDW_MODULUS - 1)
        BY <1>6
      <3> QED
        BY <1>9, <1>11, <3>1 DEF FifoPtrsExTypeOK
    <2> QED
      BY <1>3, <2>1, <2>2, <2>3, <2>4, <2>5, <2>6, <2>7, <2>8, <2>9, Zenon DEF TypeOK
  <1>15. EmptyInTime'
    <2> SUFFICES ASSUME ALMOSTEMPTY_VAL >= 4, ~rst', empty_ff', ~empty_ffc'
                 PROVE  FALSE
      BY <1>11, <1>14 DEF EmptyInTime, TypeOK
    <2>1. ~almost_empty_ff \/ (~empty_ff /\ ~rdreq)
      BY <1>2 DEF EmptyNext
    <2>2. CASE rst
      <3>1. rst_hold = 1
        BY <1>1, <1>2, <2>2 DEF rst
      <3>2. rst_d1
        BY <2>2, <3>1 DEF IInv, ResetProgress, ResetEdges
      <3> QED
        BY <2>1, <3>2 DEF IInv, FlagsExact
    <2>3. CASE ~rst
      <3>1. usedw_ff' = 0
        BY <1>10, <2>3 DEF FlagsExact
      <3>2. ~rst_d1
        BY <2>1 DEF IInv, FlagsExact
      <3>3. /\ empty_ff <=> usedw_ff = 0
            /\ almost_empty_ff <=> usedw_ff <= ALMOSTEMPTY_VAL
        BY <3>2 DEF IInv, FlagsExact
      <3>4. usedw_ff + Bit(wr) - Bit(rdreq) = 0
        BY <1>6, <2>3, <3>1
      <3> QED
        BY <1>1, <2>1, <3>3, <3>4 DEF Bit
    <2> QED BY <2>2, <2>3
  <1>16. ResetProgress'
    <2> DEFINE E == ResetEdges
    <2>1. E \in 0..RESET_HOLD /\ E' = RESET_HOLD - rst_hold'
      BY <1>1 DEF ResetEdges
    <2>2. CASE ~rst
      <3>1. rst' => E' = 0
        BY <1>2, <2>1, <2>2 DEF rst
      <3> QED
        BY <1>10, <2>2, <3>1 DEF ResetProgress
    <2>3. CASE rst
      <3>1. E' = E + 1
        BY <1>1, <1>2, <2>1, <2>3 DEF ResetEdges
      <3>2. start # NoItem => E = 0
        BY <1>1, <1>2, <2>3 DEF CanStart, ResetEdges, rst
      <3>3. /\ \A i \in 1..A : i < E => pipeline[i] = NoItem
            /\ \A i \in 1..F : A + i < E => delay_wrreq_data[i] = NoItem
            /\ \A i \in 1..B : i < E => delay_afull[i]
            /\ E > 0 => almost_full_ff
        BY <2>3 DEF IInv, ResetProgress, FlagsExact
      <3> HIDE DEF E
      <3>4. ASSUME NEW i \in 1..A, i < E' PROVE pipeline'[i] = NoItem
        <4>1. pipeline'[i] = IF i = 1 THEN start ELSE pipeline[i - 1]
          BY <1>2 DEF ChainShift
        <4>2. i - 1 < E
          BY <2>1, <3>1, <3>4
        <4> QED
          BY <2>1, <3>2, <3>3, <4>1, <4>2
      <3>5. A < E => wrItem = NoItem
        BY <2>1, <3>2, <3>3 DEF wrItem, WrItem, ChainOut
      <3>6. ASSUME NEW i \in 1..F, A + i < E' PROVE delay_wrreq_data'[i] = NoItem
        BY <1>2, <2>1, <3>1, <3>3, <3>5, <3>6 DEF ChainShift
      <3>7. ASSUME NEW i \in 1..B, i < E' PROVE delay_afull'[i]
        BY <1>2, <2>1, <3>1, <3>3, <3>7 DEF ChainShift
      <3>8. /\ \A i \in 1..A : i < ResetEdges' => pipeline'[i] = NoItem
            /\ \A i \in 1..F : A + i < ResetEdges' => delay_wrreq_data'[i] = NoItem
            /\ \A i \in 1..B : i < ResetEdges' => delay_afull'[i]
        BY <3>4, <3>6, <3>7 DEF E
      <3> QED
        BY <1>10, <2>3, <3>8, Zenon DEF ResetProgress
    <2> QED BY <2>2, <2>3
  <1>17. NoOverflow'
    <2> SUFFICES ASSUME ~rst, full_ff, wr PROVE FALSE
      BY <1>2 DEF IInv, NoOverflow, error_next
    <2>1. ~rst_d1
      BY <1>6
    <2>2. usedw_ff = DEPTH
      BY <2>1 DEF IInv, FlagsExact
    <2> QED
      BY <1>1, <1>6, <2>2 DEF Bit
  <1>18. NoUnderflow'
    BY <1>2, <1>6 DEF IInv, NoUnderflow, error_next
  <1> QED
    BY <1>10, <1>12, <1>13, <1>14, <1>15, <1>16, <1>17, <1>18 DEF IInv
-----------------------------------------------------------------------------
(* IInv is an invariant of the FIFO. *)
THEOREM Invariance == ResetCoversDelays => (Spec => []IInv)
  <1> SUFFICES ASSUME ResetCoversDelays PROVE Spec => []IInv
    OBVIOUS
  <1>1. IInv /\ [Next]_vars => IInv'
    <2>1. IInv /\ Next => IInv'
      BY CycleInv DEF Next
    <2>2. IInv /\ UNCHANGED vars => IInv'
      BY DEF vars, ptrVars, IInv, TypeOK, FifoPtrsExTypeOK, Committed, UnderWay, Promise,
         FullAt, FlagsExact, EmptyInTime, ResetProgress, ResetEdges, rst, NoOverflow,
         NoUnderflow
    <2> QED BY <2>1, <2>2
  <1> QED BY InitInv, <1>1, PTL DEF Spec

(* The registers keep their types and the pointers stay inside the storage. *)
THEOREM TypeCorrect == ResetCoversDelays => (Spec => []TypeOK)
  <1>1. IInv => TypeOK
    BY DEF IInv
  <1> QED BY Invariance, <1>1, PTL

(* A write that started on a low full never finds the FIFO full, for every *)
(* depth, block length and pair of delays.                                 *)
THEOREM NoOverflowHolds == ResetCoversDelays => (Spec => []NoOverflow)
  <1>1. IInv => NoOverflow
    BY DEF IInv
  <1> QED BY Invariance, <1>1, PTL

(* A read that empty allowed never finds the FIFO empty, with either kind  *)
(* of empty and for every ALMOSTEMPTY_VAL.                                 *)
THEOREM NoUnderflowHolds == ResetCoversDelays => (Spec => []NoUnderflow)
  <1>1. IInv => NoUnderflow
    BY DEF IInv
  <1> QED BY Invariance, <1>1, PTL

(* No write from before a reset is under way after it. *)
THEOREM DrainedByResetHolds == ResetCoversDelays => (Spec => []DrainedByReset)
  <1> SUFFICES ASSUME ResetCoversDelays PROVE Spec => []DrainedByReset
    OBVIOUS
  <1>1. IInv => DrainedByReset
    BY NoWriteAfterReset DEF DrainedByReset
  <1> QED BY Invariance, <1>1, PTL
-----------------------------------------------------------------------------
(* The memory FIFO inside the internal buffer FIFO, which is read by the   *)
(* transfer to the register FIFO, is a write delay FIFO.                   *)
THEOREM BufferImplementsWriteDelayFifo == BufferSpec => Spec
  <1>1. BufferInit => Init
    BY DEF BufferInit
  <1>2. BufferNext => Next
    <2> SUFFICES ASSUME NEW start \in Slot, NEW rdreq \in BOOLEAN, NEW reset \in BOOLEAN,
                        BufferCycle(start, rdreq, reset)
                 PROVE  Next
      BY DEF BufferNext
    <2>1. (internal_transfer /\ ~rst) \in BOOLEAN
      OBVIOUS
    <2>2. Cycle(start, internal_transfer /\ ~rst, reset)
      BY DEF BufferCycle
    <2> QED
      BY <2>1, <2>2, Zenon DEF Next
  <1>3. UNCHANGED bufferVars => UNCHANGED vars
    BY DEF bufferVars
  <1>4. [BufferNext]_bufferVars => [Next]_vars
    BY <1>2, <1>3
  <1> QED BY <1>1, <1>4, PTL DEF BufferSpec, Spec

(* So the internal buffer FIFO does not overflow, and its reset drains it. *)
THEOREM BufferSafe ==
    ResetCoversDelays => (BufferSpec => [](NoOverflow /\ NoUnderflow /\ DrainedByReset))
  BY BufferImplementsWriteDelayFifo, NoOverflowHolds, NoUnderflowHolds,
     DrainedByResetHolds, PTL
-----------------------------------------------------------------------------
(* What the storage holds are items, the write pointer is where they end,  *)
(* and all that is under way or stored has been counted.                   *)
PointersExact == wrptr_ff = (rdptr_ff + usedw_ff) % DEPTH
StoredAreItems == \A k \in 1..usedw_ff : Stored[k] \in Item
ContentsCounted == ~rst => Len(Contents) = Committed
StoreInv == PointersExact /\ StoredAreItems /\ ContentsCounted

(* A sequence after a put and a take, entry by entry. *)
LEMMA AfterEntries ==
    ASSUME NEW S, NEW s \in Seq(S), NEW take \in BOOLEAN, NEW put \in BOOLEAN, NEW x,
           take => s # <<>>, put => x \in S, NEW t \in Seq(S),
           Len(t) = Len(s) + Bit(put) - Bit(take),
           \A k \in 1..Len(t) :
               t[k] = IF k + Bit(take) <= Len(s) THEN s[k + Bit(take)] ELSE x
    PROVE  t = After(s, take, put, x)
  <1> DEFINE a == IF take THEN Tail(s) ELSE s
             e == IF put THEN <<x>> ELSE <<>>
  <1>0. \A k \in 1..Len(t) :
            t[k] = IF k + Bit(take) <= Len(s) THEN s[k + Bit(take)] ELSE x
    OBVIOUS
  <1>1. /\ a \in Seq(S) /\ Len(a) = Len(s) - Bit(take)
        /\ \A k \in 1..Len(a) : a[k] = s[k + Bit(take)]
    BY DEF Bit
  <1>2. /\ e \in Seq(S) /\ Len(e) = Bit(put)
        /\ put => e[1] = x
    BY DEF Bit
  <1>3. After(s, take, put, x) = a \o e
    BY DEF After
  <1>4. Bit(take) \in {0, 1} /\ Bit(put) \in {0, 1} /\ (Bit(put) = 1 => put)
    BY DEF Bit
  <1> HIDE DEF a, e
  <1>5. /\ a \o e \in Seq(S) /\ Len(a \o e) = Len(a) + Len(e)
        /\ \A k \in 1..(Len(a) + Len(e)) :
              (a \o e)[k] = IF k <= Len(a) THEN a[k] ELSE e[k - Len(a)]
    BY <1>1, <1>2, ConcatProperties
  <1> DEFINE u == a \o e
  <1>6. u \in Seq(S) /\ Len(u) = Len(t)
    BY <1>1, <1>2, <1>4, <1>5
  <1>7. \A k \in 1..Len(t) : t[k] = u[k]
    <2> SUFFICES ASSUME NEW k \in 1..Len(t) PROVE t[k] = u[k]
      OBVIOUS
    <2>1. Len(s) \in Nat /\ Len(t) \in Nat /\ Len(a) \in Nat
      BY <1>1
    <2>2. CASE k <= Len(a)
      <3>1. /\ k \in 1..Len(a) /\ k \in 1..(Len(a) + Len(e))
            /\ k + Bit(take) <= Len(s)
        BY <1>1, <1>2, <1>4, <2>1, <2>2
      <3>2. t[k] = s[k + Bit(take)]
        BY ONLY <1>0, <3>1, k \in 1..Len(t)
      <3>3. u[k] = a[k]
        BY ONLY <1>5, <2>2, <3>1
      <3>4. a[k] = s[k + Bit(take)]
        BY ONLY <1>1, <3>1
      <3> QED BY ONLY <3>2, <3>3, <3>4
    <2>3. CASE k > Len(a)
      <3>1. k = Len(a) + 1 /\ put /\ k + Bit(take) > Len(s)
        BY <1>1, <1>4, <2>1, <2>3
      <3>2. t[k] = x
        <4>1. ~(k + Bit(take) <= Len(s))
          BY <1>4, <2>1, <3>1
        <4> QED BY ONLY <1>0, <4>1, k \in 1..Len(t)
      <3>3. k \in 1..(Len(a) + Len(e)) /\ ~(k <= Len(a)) /\ k - Len(a) = 1
        BY <1>2, <2>1, <3>1 DEF Bit
      <3>4. u[k] = e[1]
        BY <1>5, <3>3
      <3> QED BY <1>2, <3>1, <3>2, <3>4
    <2>4. k <= Len(a) \/ k > Len(a)
      BY <2>1
    <2> HIDE DEF u
    <2> QED BY ONLY <2>2, <2>3, <2>4
  <1> HIDE DEF u
  <1>8. t = u
    BY <1>6, <1>7, SeqEqual
  <1> QED BY <1>3, <1>8 DEF u

(* The position of the k-th stored item. *)
LEMMA Position ==
    ASSUME NEW p \in 0..(DEPTH - 1), NEW k \in 0..DEPTH
    PROVE  /\ (p + k) % DEPTH = IF p + k < DEPTH THEN p + k ELSE p + k - DEPTH
           /\ (p + k) % DEPTH \in 0..(DEPTH - 1)
  <1>1. DEPTH \in Nat /\ DEPTH > 0 /\ p + k \in 0..(2 * DEPTH - 1)
    BY Parameters
  <1> QED BY <1>1, Remainder

(* What an edge outside of reset does to the storage. *)
LEMMA StoredStep ==
    ASSUME ResetCoversDelays, IInv, PointersExact, StoredAreItems, NoItem \notin Item,
           NEW start \in Slot, NEW rdreq \in BOOLEAN, NEW reset \in BOOLEAN,
           Cycle(start, rdreq, reset), ~rst
    PROVE  /\ PointersExact' /\ StoredAreItems'
           /\ Stored \in Seq(Item) /\ Stored' \in Seq(Item) /\ Len(Stored) = usedw_ff
           /\ Stored' = After(Stored, rdreq, InItem(start) # NoItem, InItem(start))
           /\ rdreq => Stored # <<>> /\ Head(Stored) = q
  <1> DEFINE wr == InItem(start) # NoItem
             x == InItem(start)
             D == DEPTH
             p == rdptr_ff
             u == usedw_ff
             w == wrptr_ff
             at(k) == (p + k) % D
  <1> USE Parameters
  <1>1. /\ D \in Nat /\ D > 0 /\ p \in 0..(D - 1) /\ w \in 0..(D - 1) /\ u \in Nat
        /\ values \in [0..(D - 1) -> Slot]
    BY DEF IInv, TypeOK, FifoPtrsExTypeOK
  <1>2. /\ u + Bit(wr) <= D /\ (rdreq => u > 0)
        /\ u' = u + Bit(wr) - Bit(rdreq) /\ u' \in 0..D
        /\ w' = IF wr THEN NextPtr(w) ELSE w
        /\ p' = IF rdreq THEN NextPtr(p) ELSE p
        /\ x \in Slot
    BY Occupancy
  <1>3. values' = IF wr THEN [values EXCEPT ![w] = x] ELSE values
    BY DEF Cycle, InItem, WrItem, ValuesNext
  <1>4. wr => x \in Item
    BY <1>2 DEF Slot
  <1>5. Bit(wr) \in {0, 1} /\ Bit(rdreq) \in {0, 1}
        /\ (Bit(wr) = 1 <=> wr) /\ (Bit(rdreq) = 1 <=> rdreq)
    BY DEF Bit
  <1>6. w = at(u)
    BY DEF PointersExact
  <1> HIDE DEF wr, x
  <1>7. p' \in 0..(D - 1) /\ w' \in 0..(D - 1)
    BY <1>1, <1>2 DEF NextPtr
  <1>8. \A k \in 0..D : at(k) = IF p + k < D THEN p + k ELSE p + k - D
    BY <1>1, Position
  <1>9. \A k \in 0..D : (p' + k) % D = IF p' + k < D THEN p' + k ELSE p' + k - D
    BY <1>7, Position
  <1> HIDE DEF at
  <1>10. \A k \in 0..(D - 1) : (p' + k) % D = at(k + Bit(rdreq))
    <2> SUFFICES ASSUME NEW k \in 0..(D - 1) PROVE (p' + k) % D = at(k + Bit(rdreq))
      OBVIOUS
    <2>1. (p' + k) % D = IF p' + k < D THEN p' + k ELSE p' + k - D
      BY <1>9
    <2>2. k + Bit(rdreq) \in 0..D
      BY <1>1, <1>5
    <2>3. at(k + Bit(rdreq)) = IF p + (k + Bit(rdreq)) < D THEN p + (k + Bit(rdreq))
                               ELSE p + (k + Bit(rdreq)) - D
      BY <1>8, <2>2
    <2>4. p' = IF rdreq THEN (IF p = D - 1 THEN 0 ELSE p + 1) ELSE p
      BY <1>2 DEF NextPtr
    <2> QED BY <1>1, <1>5, <2>1, <2>3, <2>4
  <1>11. /\ Stored = [k \in 1..u |-> values[at(k - 1)]]
         /\ Stored' = [k \in 1..u' |-> values'[(p' + (k - 1)) % D]]
    <2>1. \A k \in 1..u : rdptr_ff + k - 1 = p + (k - 1)
      BY <1>1
    <2>2. \A k \in 1..u' : rdptr_ff' + k - 1 = p' + (k - 1)
      BY <1>2, <1>7
    <2> QED BY <2>1, <2>2 DEF Stored, at
  <1>12. \A k \in 0..(D - 1) : at(k) \in 0..(D - 1) /\ (wr /\ k < u => at(k) # w)
    <2> SUFFICES ASSUME NEW k \in 0..(D - 1)
                 PROVE  at(k) \in 0..(D - 1) /\ (wr /\ k < u => at(k) # w)
      OBVIOUS
    <2>1. at(k) = IF p + k < D THEN p + k ELSE p + k - D
      BY <1>8
    <2>2. at(u) = IF p + u < D THEN p + u ELSE p + u - D
      BY <1>1, <1>2, <1>5, <1>8
    <2> QED BY <1>1, <1>2, <1>5, <1>6, <2>1, <2>2
  <1>13. Stored \in Seq(Item) /\ Len(Stored) = u
    <2>1. \A k \in 1..u : values[at(k - 1)] \in Item
      BY <1>11 DEF StoredAreItems
    <2> QED BY <1>1, <1>11, <2>1
  <1>14. \A k \in 1..u' : Stored'[k] = IF k + Bit(rdreq) <= u THEN Stored[k + Bit(rdreq)] ELSE x
    <2> SUFFICES ASSUME NEW k \in 1..u'
                 PROVE  Stored'[k] = IF k + Bit(rdreq) <= u THEN Stored[k + Bit(rdreq)] ELSE x
      OBVIOUS
    <2> DEFINE j == (k - 1) + Bit(rdreq)
    <2>1. k - 1 \in 0..(D - 1) /\ j \in 0..u /\ k + Bit(rdreq) = j + 1 /\ (j = u => wr)
          /\ j \in Nat /\ (j < D \/ j = u)
      BY <1>1, <1>2, <1>5
    <2>2. Stored'[k] = values'[at(j)]
      BY <1>10, <1>11, <2>1
    <2> HIDE DEF j
    <2>3. CASE j < u
      <3>1. j \in 0..(D - 1) /\ j + 1 \in 1..u /\ (j + 1) - 1 = j
        BY <1>1, <1>2, <1>5, <2>1, <2>3
      <3>2. Stored[j + 1] = values[at(j)]
        BY <1>11, <3>1
      <3>3. values'[at(j)] = values[at(j)]
        BY <1>1, <1>3, <1>12, <2>3, <3>1
      <3> QED BY <2>1, <2>2, <2>3, <3>1, <3>2, <3>3
    <2>4. CASE j = u
      <3>1. values'[w] = x
        BY <1>1, <1>3, <2>1, <2>4
      <3> QED BY <1>1, <1>6, <2>1, <2>2, <2>4, <3>1
    <2> QED BY <1>1, <2>1, <2>3, <2>4
  <1>15. \A k \in 1..u' : Stored'[k] \in Item
    <2> SUFFICES ASSUME NEW k \in 1..u' PROVE Stored'[k] \in Item
      OBVIOUS
    <2>1. CASE k + Bit(rdreq) <= u
      <3>1. k + Bit(rdreq) \in 1..u
        BY <1>1, <1>2, <1>5, <2>1
      <3>2. Stored[k + Bit(rdreq)] \in Item
        BY <3>1 DEF StoredAreItems
      <3> QED BY <1>14, <2>1, <3>2
    <2>2. CASE ~(k + Bit(rdreq) <= u)
      <3>1. wr
        BY <1>1, <1>2, <1>5, <2>2
      <3> QED BY <1>4, <1>14, <2>2, <3>1
    <2> QED BY <2>1, <2>2
  <1>16. Stored' \in Seq(Item) /\ Len(Stored') = u'
    <2>1. \A k \in 1..u' : values'[(p' + (k - 1)) % D] \in Item
      BY <1>11, <1>15
    <2> QED BY <1>2, <1>11, <2>1
  <1>17. Stored' = After(Stored, rdreq, wr, x)
    <2> DEFINE t == Stored'
               s == Stored
    <2>1. /\ s \in Seq(Item) /\ t \in Seq(Item) /\ wr \in BOOLEAN /\ (wr => x \in Item)
          /\ rdreq => s # <<>>
          /\ Len(t) = Len(s) + Bit(wr) - Bit(rdreq)
          /\ \A k \in 1..Len(t) :
                t[k] = IF k + Bit(rdreq) <= Len(s) THEN s[k + Bit(rdreq)] ELSE x
      <3>1. wr \in BOOLEAN
        BY DEF wr
      <3>2. rdreq => s # <<>>
        BY <1>1, <1>2, <1>13
      <3> HIDE DEF s, t
      <3>3. /\ s \in Seq(Item) /\ t \in Seq(Item) /\ Len(s) = u /\ Len(t) = u'
        BY <1>13, <1>16 DEF s, t
      <3>4. \A k \in 1..Len(t) :
                t[k] = IF k + Bit(rdreq) <= Len(s) THEN s[k + Bit(rdreq)] ELSE x
        BY <1>14, <3>3 DEF s, t
      <3> QED BY <1>2, <1>4, <3>1, <3>2, <3>3, <3>4
    <2> HIDE DEF s, t
    <2>2. t = After(s, rdreq, wr, x)
      BY <2>1, AfterEntries
    <2> QED BY <2>2 DEF s, t
  <1>18. rdreq => Stored # <<>> /\ Head(Stored) = q
    <2> SUFFICES ASSUME rdreq PROVE Stored # <<>> /\ Head(Stored) = q
      OBVIOUS
    <2>1. u > 0 /\ 1 \in 1..u
      BY <1>1, <1>2
    <2>2. at(0) = p
      BY <1>1, <1>8
    <2>3. Stored[1] = q
      BY <1>11, <2>1, <2>2 DEF q
    <2> QED BY <1>1, <1>13, <2>1, <2>3
  <1>19. PointersExact'
    <2>1. w' = (p' + u') % D
      <3>1. (p' + u') % D = IF p' + u' < D THEN p' + u' ELSE p' + u' - D
        BY <1>2, <1>9
      <3>2. w = IF p + u < D THEN p + u ELSE p + u - D
        BY <1>1, <1>2, <1>5, <1>6, <1>8
      <3>3. /\ p' = IF rdreq THEN (IF p = D - 1 THEN 0 ELSE p + 1) ELSE p
            /\ w' = IF wr THEN (IF w = D - 1 THEN 0 ELSE w + 1) ELSE w
        BY <1>2 DEF NextPtr
      <3> DEFINE sum == (p' + u') % D
      <3>4. sum = IF p' + u' < D THEN p' + u' ELSE p' + u' - D
        BY <3>1
      <3>5. u' = u + (IF wr THEN 1 ELSE 0) - (IF rdreq THEN 1 ELSE 0)
            /\ u + (IF wr THEN 1 ELSE 0) <= D /\ (rdreq => u > 0)
        BY <1>2 DEF Bit
      <3> HIDE DEF sum
      <3>6. ASSUME wr /\ rdreq PROVE w' = sum
        BY <1>1, <3>2, <3>3, <3>4, <3>5, <3>6
      <3>7. ASSUME wr /\ ~rdreq PROVE w' = sum
        BY <1>1, <3>2, <3>3, <3>4, <3>5, <3>7
      <3>8. ASSUME ~wr /\ rdreq PROVE w' = sum
        BY <1>1, <3>2, <3>3, <3>4, <3>5, <3>8
      <3>9. ASSUME ~wr /\ ~rdreq PROVE w' = sum
        BY <1>1, <3>2, <3>3, <3>4, <3>5, <3>9
      <3>10. w' = sum
        BY <3>6, <3>7, <3>8, <3>9
      <3> QED BY <3>10 DEF sum
    <2> QED BY <2>1 DEF PointersExact
  <1> QED BY <1>13, <1>15, <1>16, <1>17, <1>18, <1>19 DEF StoredAreItems, wr, x

(* The library joins sequences as the lemmas on rows do. *)
LEMMA FlattenRow ==
    ASSUME NEW items, NEW n \in Nat, n > 0, Len(items) = n
    PROVE  FlattenSeq(items) = Joint(items, n)
  BY DEF FlattenSeq, Joint

(* A position of a chain: what it held moves on, what comes in stays. *)
LEMMA PlaceStep ==
    ASSUME NEW i, NEW j
    PROVE  Place(j) = After(Place(i), i # NoItem, j # NoItem, j)
  <1>1. CASE i = NoItem /\ j = NoItem
    BY <1>1, Short, Zenon DEF Place, After
  <1>2. CASE i = NoItem /\ j # NoItem
    BY <1>2, Short, Zenon DEF Place, After
  <1>3. CASE i # NoItem /\ j = NoItem
    BY <1>3, Short, Zenon DEF Place, After
  <1>4. CASE i # NoItem /\ j # NoItem
    BY <1>4, Short, Zenon DEF Place, After
  <1> QED BY <1>1, <1>2, <1>3, <1>4

LEMMA PlaceType ==
    ASSUME NEW i \in Slot
    PROVE  /\ Place(i) \in Seq(Item)
           /\ i # NoItem => i \in Item /\ Place(i) # <<>> /\ Head(Place(i)) = i
           /\ i = NoItem => Place(i) = <<>>
  BY DEF Place, Slot

(* The places an item takes on its way, nearest to the reader first, and   *)
(* what is in them; beyond the last one is what starts at this edge.       *)
Places == 1 + FORWARD_DELAY + ALMOSTFULL_ENTRIES
SlotAt(k, start) ==
    IF k = Places + 1 THEN start
    ELSE IF k <= 1 + FORWARD_DELAY THEN delay_wrreq_data[FORWARD_DELAY + 2 - k]
    ELSE pipeline[ALMOSTFULL_ENTRIES + FORWARD_DELAY + 2 - k]

(* At an edge everything moves on by one place. *)
LEMMA MovesOn ==
    ASSUME IInv, NEW start \in Slot, NEW rdreq \in BOOLEAN, NEW reset \in BOOLEAN,
           Cycle(start, rdreq, reset)
    PROVE  /\ Places \in Nat /\ Places > 0
           /\ SlotAt(2, start) = InItem(start) /\ SlotAt(Places + 1, start) = start
           /\ \A k \in 2..(Places + 1) : SlotAt(k, start) \in Slot
           /\ Way = [k \in 1..Places |-> IF k = 1 THEN Stored ELSE Place(SlotAt(k, start))]
           /\ Way' = [k \in 1..Places |->
                        IF k = 1 THEN Stored' ELSE Place(SlotAt(k + 1, start))]
  <1> DEFINE A == ALMOSTFULL_ENTRIES
             F == FORWARD_DELAY
             n == Places
  <1>0. A \in Nat /\ F \in Nat /\ n = 1 + F + A /\ n \in Nat /\ n > 0
    BY Parameters DEF Places
  <1>1. delay_wrreq_data \in [1..F -> Slot] /\ pipeline \in [1..A -> Slot]
    BY DEF IInv, TypeOK, Chains
  <1>2. /\ pipeline' = [i \in 1..A |-> IF i = 1 THEN start ELSE pipeline[i - 1]]
        /\ delay_wrreq_data' =
              [i \in 1..F |-> IF i = 1 THEN WrItem(start) ELSE delay_wrreq_data[i - 1]]
    BY DEF Cycle, ChainShift, WrItem
  <1>3. WrItem(start) = SlotAt(F + 2, start)
    BY <1>0 DEF WrItem, ChainOut, SlotAt
  <1>4. InItem(start) = SlotAt(2, start)
    <2>1. CASE F = 0
      BY <1>0, <1>3, <2>1 DEF InItem, ChainOut
    <2>2. CASE F # 0
      BY <1>0, <2>2 DEF InItem, ChainOut, SlotAt
    <2> QED BY <2>1, <2>2
  <1>5. \A k \in 2..(n + 1) : SlotAt(k, start) \in Slot
    BY <1>0, <1>1 DEF SlotAt
  <1>6. Way = [k \in 1..n |-> IF k = 1 THEN Stored ELSE Place(SlotAt(k, start))]
    <2>1. \A k \in 1..n : k # 1 =>
             (IF k <= 1 + F THEN Place(delay_wrreq_data[F + 2 - k])
              ELSE Place(pipeline[A + F + 2 - k])) = Place(SlotAt(k, start))
      BY <1>0 DEF SlotAt
    <2> QED BY <2>1 DEF Way, Places
  <1>7. ASSUME NEW k \in 2..n
        PROVE  (IF k <= 1 + F THEN Place(delay_wrreq_data'[F + 2 - k])
                ELSE Place(pipeline'[A + F + 2 - k])) = Place(SlotAt(k + 1, start))
    <2>1. CASE k <= F
      <3>1. F + 2 - k \in 1..F /\ F + 2 - k # 1 /\ (F + 2 - k) - 1 = F + 2 - (k + 1)
        BY <1>0, <2>1
      <3>2. delay_wrreq_data'[F + 2 - k] = delay_wrreq_data[F + 2 - (k + 1)]
        BY <1>2, <3>1
      <3>3. SlotAt(k + 1, start) = delay_wrreq_data[F + 2 - (k + 1)]
        BY <1>0, <2>1 DEF SlotAt
      <3> QED BY <1>0, <2>1, <3>2, <3>3
    <2>2. CASE k = F + 1
      <3>1. F + 2 - k = 1 /\ 1 \in 1..F
        BY <1>0, <2>2
      <3>2. delay_wrreq_data'[F + 2 - k] = SlotAt(k + 1, start)
        BY <1>0, <1>2, <1>3, <2>2, <3>1
      <3> QED BY <1>0, <2>2, <3>2
    <2>3. CASE k > F + 1
      <3>1. A + F + 2 - k \in 1..A /\ (A + F + 2 - k = 1 <=> k = n)
            /\ (A + F + 2 - k) - 1 = A + F + 2 - (k + 1)
        BY <1>0, <2>3
      <3>2. pipeline'[A + F + 2 - k]
              = IF k = n THEN start ELSE pipeline[A + F + 2 - (k + 1)]
        BY <1>2, <3>1
      <3>3. SlotAt(k + 1, start) = IF k = n THEN start ELSE pipeline[A + F + 2 - (k + 1)]
        BY <1>0, <2>3 DEF SlotAt
      <3> QED BY <1>0, <2>3, <3>2, <3>3
    <2> QED BY <1>0, <2>1, <2>2, <2>3
  <1>8. Way' = [k \in 1..n |-> IF k = 1 THEN Stored' ELSE Place(SlotAt(k + 1, start))]
    <2>1. Way' = [k \in 1..n |->
             IF k = 1 THEN Stored'
             ELSE IF k <= 1 + F THEN Place(delay_wrreq_data'[F + 2 - k])
             ELSE Place(pipeline'[A + F + 2 - k])]
      BY DEF Way, Places, Place
    <2>2. \A k \in 1..n : k = 1 \/ k \in 2..n
      BY <1>0
    <2> QED BY <1>7, <2>1, <2>2
  <1>9. SlotAt(n + 1, start) = start
    BY DEF SlotAt
  <1> QED BY <1>0, <1>4, <1>5, <1>6, <1>8, <1>9

(* An edge outside of reset puts the item that starts behind all others,   *)
(* and takes the one at the head of the storage.                           *)
LEMMA WayStep ==
    ASSUME ResetCoversDelays, IInv, PointersExact, StoredAreItems, NoItem \notin Item,
           NEW start \in Slot, NEW rdreq \in BOOLEAN, NEW reset \in BOOLEAN,
           Cycle(start, rdreq, reset), ~rst
    PROVE  /\ FlattenSeq(Way) \in Seq(Item)
           /\ FlattenSeq(Way') = After(FlattenSeq(Way), rdreq, start # NoItem, start)
           /\ rdreq => FlattenSeq(Way) # <<>> /\ Head(FlattenSeq(Way)) = q
  <1> DEFINE n == Places
             at(k) == SlotAt(k, start)
             x == InItem(start)
             old == Way
             new == Way'
             store == Stored
             store2 == Stored'
  <1>1. /\ n \in Nat /\ n > 0
        /\ at(2) = x /\ at(n + 1) = start
        /\ \A k \in 2..(n + 1) : at(k) \in Slot
        /\ old = [k \in 1..n |-> IF k = 1 THEN store ELSE Place(at(k))]
        /\ new = [k \in 1..n |-> IF k = 1 THEN store2 ELSE Place(at(k + 1))]
    BY MovesOn
  <1>2. /\ store \in Seq(Item) /\ store2 \in Seq(Item)
        /\ store2 = After(store, rdreq, x # NoItem, x)
        /\ rdreq => store # <<>> /\ Head(store) = q
    BY StoredStep
  <1> HIDE DEF n, at, x, old, new, store, store2
  <1> DEFINE take == [k \in 1..n |-> IF k = 1 THEN rdreq ELSE at(k) # NoItem]
             put == [k \in 1..n |-> at(k + 1) # NoItem]
             item == [k \in 1..n |-> at(k + 1)]
  <1>3. \A k \in 2..(n + 1) : /\ Place(at(k)) \in Seq(Item)
                              /\ at(k) # NoItem => /\ at(k) \in Item /\ Place(at(k)) # <<>>
                                                   /\ Head(Place(at(k))) = at(k)
    BY <1>1, PlaceType
  <1>4. /\ \A k \in 1..n : k + 1 \in 2..(n + 1) /\ (k # 1 => k \in 2..(n + 1))
        /\ \A k \in 2..n : k - 1 \in 1..n /\ (k - 1) + 1 = k /\ k \in 1..n /\ k # 1
    BY <1>1
  <1>5. old \in [1..n -> Seq(Item)] /\ new \in [1..n -> Seq(Item)]
    <2>1. \A k \in 1..n : /\ (IF k = 1 THEN store ELSE Place(at(k))) \in Seq(Item)
                          /\ (IF k = 1 THEN store2 ELSE Place(at(k + 1))) \in Seq(Item)
      BY <1>2, <1>3, <1>4
    <2> QED BY <1>1, <2>1
  <1>6. take \in [1..n -> BOOLEAN] /\ put \in [1..n -> BOOLEAN]
    OBVIOUS
  <1>7. ASSUME NEW k \in 1..n
        PROVE  /\ take[k] => old[k] # <<>>
               /\ put[k] => item[k] \in Item
               /\ new[k] = After(old[k], take[k], put[k], item[k])
    <2>1. CASE k = 1
      <3>1. /\ take[k] = rdreq /\ put[k] = (x # NoItem) /\ item[k] = x
            /\ old[k] = store /\ new[k] = store2
        BY <1>1, <2>1
      <3>2. x # NoItem => x \in Item
        BY <1>1, <1>3, <1>4, <2>1
      <3> QED BY <1>2, <3>1, <3>2
    <2>2. CASE k # 1
      <3>1. /\ take[k] = (at(k) # NoItem) /\ put[k] = (at(k + 1) # NoItem)
            /\ item[k] = at(k + 1)
            /\ old[k] = Place(at(k)) /\ new[k] = Place(at(k + 1))
        BY <1>1, <2>2
      <3>2. Place(at(k + 1)) = After(Place(at(k)), at(k) # NoItem, at(k + 1) # NoItem, at(k + 1))
        BY PlaceStep
      <3>3. /\ at(k) # NoItem => Place(at(k)) # <<>>
            /\ at(k + 1) # NoItem => at(k + 1) \in Item
        BY <1>3, <1>4, <2>2
      <3> HIDE DEF take, put, item
      <3> QED BY <3>1, <3>2, <3>3
    <2> QED BY <2>1, <2>2
  <1>8. ASSUME NEW k \in 2..n
        PROVE  put[k - 1] = take[k] /\ (put[k - 1] => item[k - 1] = Head(old[k]))
    <2>1. /\ put[k - 1] = (at(k) # NoItem) /\ take[k] = (at(k) # NoItem)
          /\ item[k - 1] = at(k) /\ old[k] = Place(at(k))
      BY <1>1, <1>4
    <2>2. at(k) # NoItem => Head(Place(at(k))) = at(k)
      BY <1>3, <1>4
    <2> HIDE DEF take, put, item
    <2> QED BY <2>1, <2>2
  <1>9. take[1] = rdreq /\ put[n] = (start # NoItem) /\ item[n] = start /\ old[1] = store
    <2>1. 1 \in 1..n /\ n \in 1..n
      BY <1>1
    <2> QED BY <1>1, <2>1
  <1> HIDE DEF take, put, item
  <1>10. HandsOn(old, new, take, put, item, n, Item)
    BY <1>5, <1>6, <1>7, <1>8 DEF HandsOn
  <1>11. RowChanges(old, new, take, put, item, n, Item)
    BY <1>1, <1>10, Row
  <1>12. FlattenSeq(old) = Joint(old, n) /\ FlattenSeq(new) = Joint(new, n)
    <2>1. Len(old) = n /\ Len(new) = n
      BY <1>1
    <2> QED BY <1>1, <2>1, FlattenRow
  <1>13. /\ FlattenSeq(old) \in Seq(Item)
         /\ FlattenSeq(new) = After(FlattenSeq(old), rdreq, start # NoItem, start)
         /\ rdreq => FlattenSeq(old) # <<>> /\ Head(FlattenSeq(old)) = q
    <2>1. /\ Joint(old, n) \in Seq(Item)
          /\ Joint(new, n) = After(Joint(old, n), rdreq, start # NoItem, start)
          /\ rdreq => Joint(old, n) # <<>> /\ Head(Joint(old, n)) = Head(store)
      BY <1>9, <1>11 DEF RowChanges
    <2> QED BY <1>2, <1>12, <2>1
  <1> QED BY <1>13 DEF old, new

(* Nothing is left of what was there before a reset. *)
LEMMA EmptyAfterReset ==
    ASSUME ResetCoversDelays, IInv, IInv', NEW start \in Slot, NEW rdreq \in BOOLEAN,
           NEW reset \in BOOLEAN, Cycle(start, rdreq, reset), rst, ~rst'
    PROVE  Contents' = <<>> /\ Committed' = 0
  <1> DEFINE A == ALMOSTFULL_ENTRIES
             F == FORWARD_DELAY
             n == Places
             new == Way'
  <1>0. A \in Nat /\ F \in Nat /\ n = 1 + F + A /\ n \in Nat /\ n > 0
    BY Parameters DEF Places
  <1>1. rst_hold' = 0 /\ rst_d1'
    <2>1. rst_hold' = rst_hold - 1 /\ rst_d1' = rst
      BY DEF Cycle, FifoPtrsExEdge
    <2>2. rst_hold \in Nat /\ rst_hold > 0 /\ ~(rst_hold' > 0)
      BY HoldType DEF IInv, TypeOK, rst
    <2> QED BY <2>1, <2>2
  <1>2. /\ \A i \in 1..A : pipeline'[i] = NoItem
        /\ \A i \in 1..F : delay_wrreq_data'[i] = NoItem
    <2>1. ResetEdges' = RESET_HOLD
      BY <1>1, HoldType DEF ResetEdges
    <2>2. ResetProgress'
      BY DEF IInv
    <2>3. /\ \A i \in 1..A : i < RESET_HOLD => pipeline'[i] = NoItem
          /\ \A i \in 1..F : A + i < RESET_HOLD => delay_wrreq_data'[i] = NoItem
      BY <1>1, <2>1, <2>2 DEF ResetProgress
    <2>4. /\ \A i \in 1..A : i < RESET_HOLD
          /\ \A i \in 1..F : A + i < RESET_HOLD
      BY Parameters, HoldType DEF ResetCoversDelays
    <2> QED BY <2>3, <2>4
  <1>3. usedw_ff' = 0
    BY Occupancy
  <1>4. Committed' = 0
    <2>1. Writes(pipeline', A) = [i \in 1..A |-> FALSE]
      BY <1>2 DEF Writes
    <2>2. Writes(delay_wrreq_data', F) = [i \in 1..F |-> FALSE]
      BY <1>2 DEF Writes
    <2>3. UnderWay(pipeline', A) = 0 /\ UnderWay(delay_wrreq_data', F) = 0
      BY <1>0, <2>1, <2>2, PulsesInit DEF UnderWay
    <2> QED BY <1>3, <2>3 DEF Committed
  <1>5. Stored' = <<>>
    BY <1>3 DEF Stored
  <1>6. new = [k \in 1..n |-> <<>>]
    <2>1. Way' = [k \in 1..n |->
             IF k = 1 THEN Stored'
             ELSE IF k <= 1 + F THEN Place(delay_wrreq_data'[F + 2 - k])
             ELSE Place(pipeline'[A + F + 2 - k])]
      BY DEF Way, Places, Place
    <2>2. Place(NoItem) = <<>>
      BY DEF Place
    <2>3. \A k \in 1..n : k # 1 =>
             /\ k <= 1 + F => delay_wrreq_data'[F + 2 - k] = NoItem
             /\ ~(k <= 1 + F) => pipeline'[A + F + 2 - k] = NoItem
      BY <1>0, <1>2
    <2> QED BY <1>5, <2>1, <2>2, <2>3
  <1>7. FlattenSeq(new) = <<>>
    <2>1. <<>> \in Seq(Item) /\ Len(<<>>) = 0
      OBVIOUS
    <2> HIDE DEF new
    <2>2. new \in [1..n -> Seq(Item)] /\ Len(new) = n /\ \A k \in 1..n : Len(new[k]) <= 0
      BY <1>0, <1>6, <2>1
    <2>3. Joint(new, n) \in Seq(Item) /\ Len(Joint(new, n)) <= 0 * n
      BY <1>0, <2>2, RowLength
    <2>4. Joint(new, n) = <<>>
      BY <1>0, <2>3, EmptySeq, LenProperties
    <2>5. FlattenSeq(new) = Joint(new, n)
      BY <1>0, <2>2, FlattenRow
    <2> QED BY <2>4, <2>5
  <1> QED BY <1>4, <1>7 DEF Contents

(* The power-up state. *)
LEMMA InitStore == Init => StoreInv
  <1> SUFFICES ASSUME Init PROVE StoreInv
    OBVIOUS
  <1>1. wrptr_ff = 0 /\ rdptr_ff = 0 /\ usedw_ff = 0 /\ rst
    BY HoldType DEF Init, FifoPtrsExInit, rst
  <1>2. (0 + 0) % DEPTH = 0
    BY Position, Parameters
  <1> QED BY <1>1, <1>2 DEF StoreInv, PointersExact, StoredAreItems, ContentsCounted

(* The FIFO keeps what it holds in order and counted. *)
LEMMA StoreStep ==
    ASSUME ResetCoversDelays, IInv, IInv', StoreInv, NoItem \notin Item,
           NEW start \in Slot, NEW rdreq \in BOOLEAN, NEW reset \in BOOLEAN,
           Cycle(start, rdreq, reset)
    PROVE  StoreInv'
  <1>1. CASE ~rst
    <2>1. PointersExact' /\ StoredAreItems'
      BY <1>1, StoredStep DEF StoreInv
    <2>2. ASSUME ~rst' PROVE Len(Contents') = Committed'
      <3> DEFINE old == FlattenSeq(Way)
                 new == FlattenSeq(Way')
                 put == start # NoItem
      <3>1. /\ old \in Seq(Item) /\ new = After(old, rdreq, put, start)
            /\ rdreq => old # <<>>
        BY <1>1, WayStep DEF StoreInv
      <3>2. put \in BOOLEAN /\ (put => start \in Item)
        BY DEF Slot
      <3>3. Contents = old /\ Contents' = new
        BY <1>1, <2>2 DEF Contents
      <3>4. Len(old) = Committed
        BY <1>1, <3>3 DEF StoreInv, ContentsCounted
      <3>5. Committed \in Nat /\ Committed' = Committed + Bit(put) - Bit(rdreq)
        <4>1. usedw_ff \in Nat
          BY DEF IInv, TypeOK, FifoPtrsExTypeOK
        <4>2. LET wr == InItem(start) # NoItem
                  inBlock == UnderWay(pipeline, ALMOSTFULL_ENTRIES)
                  inChain == UnderWay(delay_wrreq_data, FORWARD_DELAY)
              IN  /\ inBlock \in Nat /\ inChain \in Nat
                  /\ inBlock' = inBlock + Bit(put) - Bit(WrItem(start) # NoItem)
                  /\ inChain' = inChain + Bit(WrItem(start) # NoItem) - Bit(wr)
                  /\ Committed = usedw_ff + inChain + inBlock
                  /\ Committed' = usedw_ff' + inChain' + inBlock'
                  /\ usedw_ff' = usedw_ff + Bit(wr) - Bit(rdreq)
          BY <1>1, Occupancy, Parameters
        <4>3. \A b : Bit(b) \in {0, 1}
          BY DEF Bit
        <4> HIDE DEF put
        <4> QED BY <4>1, <4>2, <4>3
      <3> HIDE DEF old, new, put
      <3>6. Len(new) = Len(old) + Bit(put) - Bit(rdreq)
        BY <3>1, <3>2, AfterLength
      <3> QED BY <3>3, <3>4, <3>5, <3>6
    <2> QED BY <2>1, <2>2 DEF StoreInv, ContentsCounted
  <1>2. CASE rst
    <2>1. wrptr_ff' = 0 /\ rdptr_ff' = 0 /\ usedw_ff' = 0
      BY <1>2, Occupancy
    <2>2. (0 + 0) % DEPTH = 0
      BY Position, Parameters
    <2>3. ASSUME ~rst' PROVE Len(Contents') = Committed'
      BY <1>2, <2>3, EmptyAfterReset
    <2> QED BY <2>1, <2>2, <2>3 DEF StoreInv, PointersExact, StoredAreItems, ContentsCounted
  <1> QED BY <1>1, <1>2

(* The inductive invariant of the internal buffer FIFO. *)
BufferInv ==
    /\ IInv /\ StoreInv
    /\ RegistersAgree(register_fifo, Item)
    /\ reads \in {0, 1}

(* A put and a take seen from outside: an edge outside of reset changes    *)
(* what the two FIFOs hold together as one sequence.                       *)
LEMMA BufferStep ==
    ASSUME ResetCoversDelays, BufferInv, NoItem \notin Item,
           NEW start \in Slot, NEW rdreq \in BOOLEAN, NEW reset \in BOOLEAN,
           BufferCycle(start, rdreq, reset)
    PROVE  /\ BufferInv'
           /\ ~rst => LET old == Skid!SkidItems(register_fifo) \o FlattenSeq(Way)
                          new == Skid!SkidItems(register_fifo') \o FlattenSeq(Way')
                      IN  /\ old \in Seq(Item)
                          /\ new = After(old, rdreq, start # NoItem, start)
                          /\ rdreq => old # <<>> /\ consumed' = Head(old)
           /\ Len(Skid!SkidItems(register_fifo')) <= 2
           /\ Skid!SkidItems(register_fifo') \in Seq(Item)
           /\ rst => Skid!SkidItems(register_fifo') = <<>>
  <1> DEFINE transfer == internal_transfer /\ ~rst
             s == register_fifo
             e == Skid!SkidNext(register_fifo, internal_transfer, q, rdreq)
  <1>0. /\ IInv /\ PointersExact /\ StoredAreItems /\ StoreInv
        /\ RegistersAgree(s, Item)
    BY DEF BufferInv, StoreInv
  <1>1. /\ rdreq => ~s.empty /\ ~rst
        /\ Cycle(start, transfer, reset) /\ transfer \in BOOLEAN
        /\ register_fifo' = IF rst THEN Skid!SkidCleared(e) ELSE e
        /\ consumed' = IF rst THEN NoItem ELSE IF rdreq THEN s.output_data ELSE consumed
        /\ reads' = IF rst THEN 0 ELSE (reads + Bit(rdreq)) % 2
    BY DEF BufferCycle
  <1>2. IInv'
    <2> HIDE DEF transfer
    <2> QED BY <1>0, <1>1, CycleInv
  <1>3. StoreInv'
    <2> HIDE DEF transfer
    <2> QED BY <1>0, <1>1, <1>2, StoreStep
  <1>4. reads' \in {0, 1}
    BY <1>1 DEF BufferInv, Bit
  <1>5. \A r : Skid!SkidItems(r) = Entries(r)
    BY DEF Skid!SkidItems, Entries
  <1>6. RegisterEdge(s, e, internal_transfer, q, rdreq)
    BY DEF Skid!SkidNext, Skid!Direct, RegisterEdge
  <1>7. CASE rst
    <2>1. register_fifo' = Skid!SkidCleared(e)
      BY <1>1, <1>7
    <2>2. /\ register_fifo'.full = FALSE /\ register_fifo'.overflow = FALSE
          /\ register_fifo'.empty = TRUE /\ register_fifo'.internal_empty = TRUE
      BY <2>1 DEF Skid!SkidCleared, Skid!SkidNext
    <2>3. RegistersAgree(register_fifo', Item) /\ Skid!SkidItems(register_fifo') = <<>>
      BY <2>2 DEF RegistersAgree, Skid!SkidItems
    <2>4. <<>> \in Seq(Item) /\ Len(<<>>) = 0
      OBVIOUS
    <2> QED BY <1>2, <1>3, <1>4, <1>7, <2>3, <2>4 DEF BufferInv
  <1>8. CASE ~rst
    <2> DEFINE held == FlattenSeq(Way)
               held2 == FlattenSeq(Way')
               put == start # NoItem
               front == Entries(s)
               front2 == Entries(e)
    <2>1. transfer = internal_transfer /\ register_fifo' = e
      BY <1>1, <1>8 DEF internal_transfer
    <2>2. /\ held \in Seq(Item)
          /\ held2 = After(held, transfer, put, start)
          /\ transfer => held # <<>> /\ Head(held) = q
      <3> HIDE DEF transfer
      <3> QED BY <1>0, <1>1, <1>8, WayStep
    <2>3. put \in BOOLEAN /\ (put => start \in Item)
      BY DEF Slot
    <2>4. transfer => ~s.full /\ q \in Item
      <3>1. transfer => ~s.full
        BY DEF internal_transfer
      <3>2. transfer => Head(held) \in Item
        <4> HIDE DEF transfer, held
        <4> QED BY <2>2
      <3> QED BY <2>2, <3>1, <3>2
    <2>5. RegisterEdge(s, e, transfer, q, rdreq)
      BY <1>6, <2>1
    <2> HIDE DEF transfer, s, e, held, held2, put
    <2>6. RegistersAgree(e, Item) /\ front2 = After(front, rdreq, transfer, q)
      BY <1>0, <1>1, <2>4, <2>5, RegisterStep
    <2>7. /\ front \in Seq(Item) /\ front2 \in Seq(Item) /\ Len(front2) <= 2
          /\ rdreq => front # <<>> /\ Head(front) = s.output_data
      BY <1>0, <1>1, <2>6, EntriesType
    <2> HIDE DEF front, front2
    <2>8. front2 = After(front, rdreq, transfer, Head(held))
      BY <2>2, <2>6 DEF After
    <2>9. front2 \o held2 = After(front \o held, rdreq, put, start)
      <3>1. HandedOver(front, held, rdreq, transfer, put, start)
        BY ONLY <1>1, <2>2, <2>3, <2>7, rdreq \in BOOLEAN, HandOver
      <3> QED BY <2>2, <2>8, <3>1 DEF HandedOver
    <2>10. front \o held \in Seq(Item)
           /\ (rdreq => front \o held # <<>> /\ Head(front \o held) = Head(front))
      BY <2>2, <2>7, HeadTail
    <2>11. rdreq => consumed' = Head(front)
      BY <1>1, <1>8, <2>7
    <2>12. /\ Skid!SkidItems(register_fifo) = front
           /\ Skid!SkidItems(register_fifo') = front2
      BY <1>5, <2>1 DEF front, front2, s
    <2> QED BY <1>2, <1>3, <1>4, <1>8, <2>1, <2>6, <2>7, <2>9, <2>10, <2>11, <2>12
            DEF BufferInv, held, held2, put
  <1> QED BY <1>7, <1>8

(* The internal buffer FIFO is a FIFO with two entries more than its       *)
(* memory, for every depth, block length and pair of delays, transactional *)
(* or not: every edge is a put, a take, both, or none of them, and a reset *)
(* forgets everything.                                                     *)
THEOREM BufferImplementsFifoHolds == ResetCoversDelays => (BufferSpec => BufferImplementsFifo)
  <1> SUFFICES ASSUME ResetCoversDelays PROVE BufferSpec => BufferImplementsFifo
    OBVIOUS
  <1>0. NoItem \notin Item
    BY WriteDelayFifoAssumption DEF Item
  <1>1. BufferInit => BufferInv /\ AbstractBuffer!Init
    <2> SUFFICES ASSUME BufferInit PROVE BufferInv /\ AbstractBuffer!Init
      OBVIOUS
    <2>1. IInv /\ StoreInv
      BY InitInv, InitStore DEF BufferInit
    <2>2. RegistersAgree(register_fifo, Item) /\ reads \in {0, 1}
      BY DEF BufferInit, Skid!SkidReset, RegistersAgree
    <2>3. rst
      BY HoldType DEF BufferInit, Init, rst
    <2> QED BY <2>1, <2>2, <2>3 DEF BufferInv, AbstractBuffer!Init, BufferContents
  <1>2. BufferInv /\ [BufferNext]_bufferVars
          => BufferInv' /\ [AbstractBuffer!Next]_(AbstractBuffer!fifoVars)
    <2> SUFFICES ASSUME BufferInv, [BufferNext]_bufferVars
                 PROVE  BufferInv' /\ [AbstractBuffer!Next]_(AbstractBuffer!fifoVars)
      OBVIOUS
    <2>1. CASE UNCHANGED bufferVars
      <3>1. BufferInv'
        BY <2>1 DEF bufferVars, vars, ptrVars, BufferInv, IInv, TypeOK, FifoPtrsExTypeOK,
           Committed, UnderWay, Promise, FullAt, FlagsExact, EmptyInTime, ResetProgress,
           ResetEdges, rst, NoOverflow, NoUnderflow, StoreInv, PointersExact,
           StoredAreItems, ContentsCounted, Stored, Contents, Way
      <3> QED BY <2>1, <3>1 DEF bufferVars, vars, ptrVars, AbstractBuffer!fifoVars,
                 BufferContents, Contents, Way, Stored, rst
    <2>2. ASSUME NEW start \in Slot, NEW rdreq \in BOOLEAN, NEW reset \in BOOLEAN,
                 BufferCycle(start, rdreq, reset)
          PROVE  BufferInv' /\ [AbstractBuffer!Next]_(AbstractBuffer!fifoVars)
      <3> DEFINE old == Skid!SkidItems(register_fifo) \o FlattenSeq(Way)
                 new == Skid!SkidItems(register_fifo') \o FlattenSeq(Way')
                 put == start # NoItem
      <3>1. /\ BufferInv'
            /\ ~rst => /\ old \in Seq(Item) /\ new = After(old, rdreq, put, start)
                       /\ rdreq => old # <<>> /\ consumed' = Head(old)
            /\ Len(Skid!SkidItems(register_fifo')) <= 2
            /\ Skid!SkidItems(register_fifo') \in Seq(Item)
            /\ rst => Skid!SkidItems(register_fifo') = <<>>
        BY <1>0, <2>2, BufferStep
      <3>2. /\ sent' = IF rst THEN 0 ELSE (sent + Bit(put)) % 2
            /\ reads' = IF rst THEN 0 ELSE (reads + Bit(rdreq)) % 2
            /\ consumed' = IF rst THEN NoItem
                           ELSE IF rdreq THEN register_fifo.output_data ELSE consumed
            /\ rst_hold' = IF rst THEN rst_hold - 1 ELSE IF reset THEN RESET_HOLD ELSE 0
        BY <2>2 DEF BufferCycle, Cycle
      <3>3. put \in BOOLEAN /\ (put => start \in Item)
        BY DEF Slot
      <3>4. sent \in {0, 1} /\ reads \in {0, 1} /\ rst \in BOOLEAN /\ rst' \in BOOLEAN
        BY DEF BufferInv, IInv, TypeOK, rst
      <3>5. CASE rst /\ rst'
        <4>1. BufferContents = <<>> /\ BufferContents' = <<>>
          BY <3>5 DEF BufferContents
        <4> QED BY <3>1, <3>5, <4>1 DEF AbstractBuffer!fifoVars
      <3>6. CASE rst /\ ~rst'
        <4>1. BufferContents = <<>>
          BY <3>6 DEF BufferContents
        <4>2. Contents' = <<>>
          <5>1. IInv /\ IInv'
            BY <3>1 DEF BufferInv
          <5> DEFINE transfer == internal_transfer /\ ~rst
          <5>2. Cycle(start, transfer, reset) /\ transfer \in BOOLEAN
            BY <2>2 DEF BufferCycle
          <5> HIDE DEF transfer
          <5> QED BY <3>6, <5>1, <5>2, EmptyAfterReset
        <4>3. BufferContents' = <<>>
          <5>1. BufferContents' = Skid!SkidItems(register_fifo') \o Contents'
            BY <3>6 DEF BufferContents
          <5>2. Skid!SkidItems(register_fifo') = <<>>
            BY <3>1, <3>6
          <5>3. <<>> \o <<>> = <<>>
            BY Short
          <5> QED BY <4>2, <5>1, <5>2, <5>3
        <4> QED BY <3>1, <3>2, <3>6, <4>1, <4>3 DEF AbstractBuffer!fifoVars
      <3>7. CASE ~rst /\ rst'
        <4>1. BufferContents' = <<>>
          BY <3>7 DEF BufferContents
        <4>2. AbstractBuffer!Reset
          BY <3>7, <4>1 DEF AbstractBuffer!Reset
        <4> QED BY <3>1, <4>2 DEF AbstractBuffer!Next
      <3>8. CASE ~rst /\ ~rst'
        <4>1. BufferContents = old /\ BufferContents' = new
          BY <3>8 DEF BufferContents, Contents
        <4>2. /\ old \in Seq(Item) /\ new = After(old, rdreq, put, start)
              /\ rdreq => old # <<>> /\ consumed' = Head(old)
          BY <3>1, <3>8
        <4>3. Len(new) <= DEPTH + 2
          <5>1. Len(FlattenSeq(Way')) = Committed' /\ Committed' <= DEPTH
            BY <3>1, <3>8 DEF BufferInv, StoreInv, ContentsCounted, IInv, Contents
          <5>2. FlattenSeq(Way') \in Seq(Item)
            <6> DEFINE transfer == internal_transfer /\ ~rst
            <6>1. Cycle(start, transfer, reset) /\ transfer \in BOOLEAN
              BY <2>2 DEF BufferCycle
            <6>2. IInv /\ PointersExact /\ StoredAreItems
              BY DEF BufferInv, StoreInv
            <6> HIDE DEF transfer, put
            <6>3. /\ FlattenSeq(Way) \in Seq(Item)
                  /\ FlattenSeq(Way') = After(FlattenSeq(Way), transfer, put, start)
                  /\ transfer => FlattenSeq(Way) # <<>>
              BY <1>0, <3>8, <6>1, <6>2, WayStep DEF put
            <6> QED BY <3>3, <6>1, <6>3, AfterLength
          <5> DEFINE a == Skid!SkidItems(register_fifo')
                     b == FlattenSeq(Way')
          <5>3. a \in Seq(Item) /\ Len(a) <= 2 /\ b \in Seq(Item) /\ Len(b) <= DEPTH
            BY <3>1, <5>1, <5>2
          <5> HIDE DEF a, b
          <5>4. Len(a \o b) <= DEPTH + 2
            BY <5>3, Parameters, ConcatProperties
          <5> QED BY <5>4 DEF a, b
        <4>4. /\ sent' = IF put THEN 1 - sent ELSE sent
              /\ reads' = IF rdreq THEN 1 - reads ELSE reads
              /\ ~rdreq => consumed' = consumed
          BY <3>2, <3>4, <3>8 DEF Bit
        <4> HIDE DEF old, new, put
        <4>5. CASE rdreq /\ put
          <5>1. new = Append(Tail(old), start)
            BY <4>2, <4>5, AfterCases
          <5>2. AbstractBuffer!PutAndTake(start)
            BY <3>8, <4>1, <4>2, <4>4, <4>5, <5>1 DEF AbstractBuffer!PutAndTake
          <5> QED BY <3>1, <3>3, <4>5, <5>2 DEF AbstractBuffer!Next
        <4>6. CASE rdreq /\ ~put
          <5>1. new = After(old, TRUE, FALSE, start)
            BY <4>2, <4>6 DEF After
          <5>2. new = Tail(old)
            BY <4>2, <4>6, <5>1, AfterCases
          <5>3. AbstractBuffer!Take
            BY <3>8, <4>1, <4>2, <4>4, <4>6, <5>2 DEF AbstractBuffer!Take
          <5> QED BY <3>1, <5>3 DEF AbstractBuffer!Next
        <4>7. CASE ~rdreq /\ put
          <5>1. new = Append(old, start)
            BY <4>2, <4>7, AfterCases
          <5>2. AbstractBuffer!Put(start)
            BY <3>8, <4>1, <4>3, <4>4, <4>7, <5>1 DEF AbstractBuffer!Put
          <5> QED BY <3>1, <3>3, <4>7, <5>2 DEF AbstractBuffer!Next
        <4>8. CASE ~rdreq /\ ~put
          <5>1. new = After(old, FALSE, FALSE, start)
            BY <4>2, <4>8 DEF After
          <5>2. new = old
            BY <4>2, <5>1, AfterCases
          <5> QED BY <3>1, <3>8, <4>1, <4>4, <4>8, <5>2 DEF AbstractBuffer!fifoVars
        <4> QED BY <3>3, <4>5, <4>6, <4>7, <4>8
      <3> QED BY <3>4, <3>5, <3>6, <3>7, <3>8
    <2> QED BY <2>1, <2>2 DEF BufferNext
  <1> QED BY <1>1, <1>2, PTL DEF BufferSpec, BufferImplementsFifo, AbstractBuffer!Spec
-----------------------------------------------------------------------------
(* Which positions of a sequence hold last items. *)
LastsOf(s) == {k \in 1..Len(s) : s[k].last}

(* A put adds the last item it brings, a take drops the one it removes. *)
LastsMove(s, t, take, put, x) ==
    /\ Cardinality(LastsOf(s)) \in Nat /\ Cardinality(LastsOf(t)) \in Nat
    /\ Cardinality(LastsOf(t))
         = Cardinality(LastsOf(s)) + Bit(put /\ x.last) - Bit(take /\ Head(s).last)

LEMMA LastsAfter ==
    ASSUME NEW s \in Seq(Item), NEW take \in BOOLEAN, NEW put \in BOOLEAN, NEW x,
           take => s # <<>>, put => x \in Item, NEW t, t = After(s, take, put, x)
    PROVE  LastsMove(s, t, take, put, x)
  <1> DEFINE b == Bit(take)
             m == Len(s) - b
             L == LastsOf(s)
             R == {k \in L : k > b}
             U == {k \in 1..m : t[k].last}
             f == [k \in R |-> k - b]
  <1>1. b \in {0, 1} /\ (b = 1 <=> take) /\ Len(s) \in Nat /\ m \in Nat
    <2>1. b \in {0, 1} /\ (b = 1 <=> take) /\ Len(s) \in Nat
      BY DEF Bit
    <2>2. take => Len(s) > 0
      BY EmptySeq, <2>1
    <2> QED BY <2>1, <2>2
  <1>2. /\ Len(t) = m + Bit(put)
        /\ \A k \in 1..m : t[k] = s[k + b]
        /\ put => t[m + 1] = x
    <2>1. /\ Len(t) = Len(s) + Bit(put) - Bit(take)
          /\ \A k \in 1..(Len(s) - Bit(take)) : t[k] = s[k + Bit(take)]
          /\ put => t[Len(s) - Bit(take) + 1] = x
      BY AfterShows DEF MovesUp
    <2>2. Bit(put) \in {0, 1}
      BY DEF Bit
    <2> QED BY <1>1, <2>1, <2>2
  <1>3. take => s[1] = Head(s) /\ Len(s) > 0
    BY <1>1
  <1> HIDE DEF b, m
  <1>4. IsFiniteSet(L) /\ IsFiniteSet(R) /\ IsFiniteSet(U)
        /\ Cardinality(L) \in Nat /\ Cardinality(R) \in Nat /\ Cardinality(U) \in Nat
    <2>1. IsFiniteSet(1..Len(s)) /\ IsFiniteSet(1..m)
      BY <1>1, FS_Interval
    <2>2. L \subseteq 1..Len(s) /\ R \subseteq 1..Len(s) /\ U \subseteq 1..m
      BY DEF LastsOf
    <2> QED BY <2>1, <2>2, FS_Subset, FS_CardinalityType
  <1>5. Cardinality(L) = Cardinality(R) + Bit(take /\ Head(s).last)
    <2>1. CASE take /\ Head(s).last
      <3>1. 1 \notin R /\ L = R \cup {1}
        BY <1>1, <1>3, <2>1 DEF LastsOf
      <3> HIDE DEF L, R
      <3> QED BY <1>4, <2>1, <3>1, FS_AddElement DEF Bit
    <2>2. CASE ~(take /\ Head(s).last)
      <3>1. L = R
        BY <1>1, <1>3, <2>2 DEF LastsOf
      <3> HIDE DEF L, R
      <3> QED BY <1>4, <2>2, <3>1 DEF Bit
    <2> QED BY <2>1, <2>2
  <1>6. Cardinality(R) = Cardinality(U)
    <2>1. m = Len(s) - b
      BY DEF m
    <2>2. \A k \in R : k \in Nat /\ k - b \in 1..m /\ (k - b) + b = k /\ s[k].last
      BY <1>1, <2>1 DEF LastsOf
    <2>3. \A k \in U : k \in Nat /\ k + b \in R /\ (k + b) - b = k
      BY <1>1, <1>2, <2>1 DEF LastsOf
    <2>4. f \in [R -> U]
      <3>1. \A k \in R : k - b \in U
        BY <1>2, <2>2
      <3> HIDE DEF R, U
      <3> QED BY <3>1
    <2>5. \A i, j \in R : f[i] = f[j] => i = j
      <3>1. \A i \in R : f[i] = i - b
        OBVIOUS
      <3> HIDE DEF R, f
      <3> QED BY <1>1, <2>2, <3>1
    <2>6. \A k \in U : \E i \in R : f[i] = k
      <3> HIDE DEF R, U
      <3> QED BY <2>3
    <2>7. f \in Bijection(R, U)
      <3> HIDE DEF R, U, f
      <3> QED BY <2>4, <2>5, <2>6, Fun_IsBij
    <2> HIDE DEF R, U, f
    <2> QED BY <1>4, <2>7, FS_Bijection DEF ExistsBijection
  <1>7. /\ Cardinality(LastsOf(t)) = Cardinality(U) + Bit(put /\ x.last)
        /\ Cardinality(LastsOf(t)) \in Nat
    <2>1. CASE put /\ x.last
      <3>1. Bit(put) = 1 /\ Bit(put /\ x.last) = 1
        BY <2>1, Zenon DEF Bit
      <3>2. Len(t) = m + 1 /\ 1..Len(t) = (1..m) \cup {m + 1} /\ m + 1 \notin 1..m
        BY <1>1, <1>2, <3>1
      <3>3. t[m + 1].last
        BY <1>2, <2>1
      <3>4. m + 1 \notin U /\ LastsOf(t) = U \cup {m + 1}
        BY <3>2, <3>3 DEF LastsOf
      <3> HIDE DEF U
      <3>5. Cardinality(LastsOf(t)) = Cardinality(U) + 1
        BY <1>4, <3>4, FS_AddElement
      <3> QED BY <1>4, <3>1, <3>5
    <2>2. CASE ~(put /\ x.last)
      <3>1. LastsOf(t) = U
        BY <1>1, <1>2, <2>2 DEF LastsOf, Bit
      <3> HIDE DEF U
      <3> QED BY <1>4, <2>2, <3>1 DEF Bit
    <2> QED BY <2>1, <2>2
  <1>8. Bit(put /\ x.last) \in {0, 1} /\ Bit(take /\ Head(s).last) \in {0, 1}
    BY DEF Bit
  <1> HIDE DEF L, R, U
  <1> QED BY <1>4, <1>5, <1>6, <1>7, <1>8 DEF L, LastsMove

(* The last items under way in a chain are among the writes under way. *)
LEMMA LastsUnderWay ==
    ASSUME NEW depth \in Nat, NEW chain, NEW lasts,
           lasts = [i \in 1..depth |-> IsLast(chain[i])]
    PROVE  /\ lasts \in Chains(depth, BOOLEAN)
           /\ Pulses(lasts, depth, 0) \in Nat
           /\ Pulses(lasts, depth, 0) <= UnderWay(chain, depth)
           /\ Pulses(lasts, depth, 0) = 0 <=> \A i \in 1..depth : ~IsLast(chain[i])
  <1> DEFINE L == PulseStages(lasts, depth, 0)
             W == PulseStages(Writes(chain, depth), depth, 0)
  <1>1. lasts \in Chains(depth, BOOLEAN)
    BY DEF Chains, IsLast
  <1>2. IsFiniteSet(L) /\ IsFiniteSet(W) /\ Cardinality(L) \in Nat
    BY PulsesType, FS_CardinalityType
  <1>3. \A i \in 1..depth : /\ i \in L <=> IsLast(chain[i])
                            /\ i \in W <=> chain[i] # NoItem
    <2>1. 0 + 1 = 1
      OBVIOUS
    <2> QED BY <2>1, Zenon DEF PulseStages, Writes
  <1>4. L \subseteq 1..depth /\ L \subseteq W
    <2>1. L \subseteq 1..depth
      BY DEF PulseStages
    <2> HIDE DEF L, W
    <2> QED BY <1>3, <2>1, Zenon DEF IsLast
  <1> HIDE DEF L, W
  <1>5. Cardinality(L) <= Cardinality(W) /\ (Cardinality(L) = 0 <=> L = {})
    BY <1>2, <1>4, FS_Subset, FS_EmptySet
  <1>6. L = {} <=> \A i \in 1..depth : ~IsLast(chain[i])
    BY <1>3, <1>4, Zenon
  <1> QED BY <1>1, <1>2, <1>5, <1>6 DEF Pulses, UnderWay, L, W

(* The number of transactions that are complete in the FIFO or under way   *)
(* to it is within the range of the counter.                               *)
LEMMA TransactionsType ==
    ASSUME IInv
    PROVE  /\ Transactions \in 0..DEPTH
           /\ Transactions = 0 <=> /\ ~HasLast(Stored)
                                   /\ \A i \in 1..FORWARD_DELAY : ~IsLast(delay_wrreq_data[i])
  <1> DEFINE F == FORWARD_DELAY
             L == StoredLasts
  <1> USE Parameters
  <1>1. usedw_ff \in Nat
    BY DEF IInv, TypeOK, FifoPtrsExTypeOK
  <1>2. /\ Pulses(ChainLasts, F, 0) \in Nat
        /\ Pulses(ChainLasts, F, 0) <= UnderWay(delay_wrreq_data, F)
        /\ Pulses(ChainLasts, F, 0) = 0 <=> \A i \in 1..F : ~IsLast(delay_wrreq_data[i])
    BY LastsUnderWay DEF ChainLasts
  <1>3. L \subseteq 1..usedw_ff /\ (L = {} <=> ~HasLast(Stored))
    BY DEF StoredLasts, HasLast, Stored
  <1>4. IsFiniteSet(1..usedw_ff) /\ Cardinality(1..usedw_ff) = usedw_ff
    BY <1>1, FS_Interval
  <1> HIDE DEF L
  <1>5. /\ Cardinality(L) \in Nat /\ Cardinality(L) <= usedw_ff
        /\ Cardinality(L) = 0 <=> L = {}
    <2>1. IsFiniteSet(L) /\ Cardinality(L) <= usedw_ff
      <3> DEFINE S == 1..usedw_ff
      <3>1. IsFiniteSet(S) /\ Cardinality(S) = usedw_ff /\ L \in SUBSET S
        BY <1>3, <1>4
      <3> HIDE DEF S
      <3> QED BY <3>1, FS_Subset
    <2> QED BY <2>1, FS_EmptySet, FS_CardinalityType
  <1>6. /\ UnderWay(delay_wrreq_data, F) \in Nat
        /\ UnderWay(pipeline, ALMOSTFULL_ENTRIES) \in Nat
    BY UnderWayType
  <1>7. usedw_ff + UnderWay(delay_wrreq_data, F) <= DEPTH
    BY <1>1, <1>6 DEF IInv, Committed
  <1>8. Transactions = Cardinality(L) + Pulses(ChainLasts, F, 0)
    BY DEF Transactions, L
  <1> QED BY <1>1, <1>2, <1>3, <1>5, <1>6, <1>7, <1>8

LEMMA TransactionsBounded == IInv => Transactions \in 0..DEPTH
  BY TransactionsType

(* What an edge outside of reset does to that number. *)
LEMMA TransactionsStep ==
    ASSUME ResetCoversDelays, IInv, PointersExact, StoredAreItems, NoItem \notin Item,
           NEW start \in Slot, NEW rdreq \in BOOLEAN, NEW reset \in BOOLEAN,
           Cycle(start, rdreq, reset), ~rst
    PROVE  Transactions' = Transactions + Bit(IsLast(WrItem(start)))
                                        - Bit(rdreq /\ IsLast(q))
  <1> DEFINE F == FORWARD_DELAY
             s == Stored
             t == Stored'
             x == InItem(start)
             put == x # NoItem
             c == ChainLasts
             w == IsLast(WrItem(start))
             nS == Cardinality(LastsOf(s))
             nT == Cardinality(LastsOf(t))
  <1>1. /\ s \in Seq(Item) /\ t \in Seq(Item) /\ Len(s) = usedw_ff
        /\ t = After(s, rdreq, put, x)
        /\ rdreq => s # <<>> /\ Head(s) = q
    BY StoredStep
  <1>2. x \in Slot /\ (put => x \in Item) /\ put \in BOOLEAN
    BY Occupancy DEF Slot
  <1>3. StoredLasts = LastsOf(s) /\ StoredLasts' = LastsOf(t)
    <2>1. StoredLasts = LastsOf(s)
      BY <1>1 DEF StoredLasts, LastsOf
    <2>2. StoredLasts' = {k \in 1..usedw_ff' : t[k].last} /\ usedw_ff' \in Nat
      BY Occupancy, Parameters DEF StoredLasts
    <2>3. Len(t) = usedw_ff'
      BY <2>2 DEF Stored
    <2> QED BY <2>1, <2>2, <2>3 DEF LastsOf
  <1>4. /\ nS \in Nat /\ nT \in Nat
        /\ nT = nS + Bit(put /\ x.last) - Bit(rdreq /\ Head(s).last)
    <2> HIDE DEF s, t, put, x
    <2>1. /\ s \in Seq(Item) /\ rdreq \in BOOLEAN /\ put \in BOOLEAN
          /\ (rdreq => s # <<>>) /\ (put => x \in Item)
          /\ t = After(s, rdreq, put, x)
      BY <1>1, <1>2
    <2>2. LastsMove(s, t, rdreq, put, x)
      BY ONLY <2>1, LastsAfter
    <2> QED BY <2>2 DEF LastsMove
  <1>5. Bit(put /\ x.last) = Bit(IsLast(x))
    BY DEF IsLast
  <1>6. Bit(rdreq /\ Head(s).last) = Bit(rdreq /\ IsLast(q))
    <2>1. CASE rdreq
      <3>1. q # NoItem /\ Head(s) = q
        BY <1>1, <2>1
      <3> QED BY <2>1, <3>1 DEF IsLast, Bit
    <2>2. CASE ~rdreq
      BY <2>2 DEF Bit
    <2> QED BY <2>1, <2>2
  <1>7. c \in Chains(F, BOOLEAN) /\ Pulses(c, F, 0) \in Nat
    BY LastsUnderWay, Parameters DEF ChainLasts
  <1>8. c' = ChainShift(c, F, w)
    <2>1. delay_wrreq_data' = ChainShift(delay_wrreq_data, F, WrItem(start))
      BY DEF Cycle, WrItem
    <2>2. \A i \in 1..F : i # 1 => i - 1 \in 1..F
      BY Parameters
    <2>3. c' = [i \in 1..F |-> IsLast(delay_wrreq_data'[i])]
      BY DEF ChainLasts, IsLast
    <2> QED BY <2>1, <2>2, <2>3, Zenon DEF ChainLasts, ChainShift
  <1>9. ChainOut(c, F, w) = IsLast(x)
    <2>1. F # 0 => F \in 1..F
      BY Parameters
    <2> QED BY <2>1, Zenon DEF InItem, ChainOut, ChainLasts
  <1>10. Pulses(c', F, 0) = Pulses(c, F, 0) + Bit(w) - Bit(IsLast(x))
    <2>1. w \in BOOLEAN
      BY DEF IsLast
    <2> HIDE DEF c, w
    <2> QED BY <1>7, <1>8, <1>9, <2>1, Parameters, PulsesEdge
  <1>11. Transactions = nS + Pulses(c, F, 0) /\ Transactions' = nT + Pulses(c', F, 0)
    BY <1>3 DEF Transactions
  <1>12. \A b : Bit(b) \in {0, 1}
    BY DEF Bit
  <1> HIDE DEF s, t, x, put, c, w, nS, nT
  <1> DEFINE i1 == Bit(w)
             i2 == Bit(IsLast(x))
             i3 == Bit(rdreq /\ IsLast(q))
  <1>13. i1 \in {0, 1} /\ i2 \in {0, 1} /\ i3 \in {0, 1}
    BY <1>12
  <1>14. nT = nS + i2 - i3 /\ Pulses(c', F, 0) = Pulses(c, F, 0) + i1 - i2
    BY <1>4, <1>5, <1>6, <1>10
  <1> HIDE DEF i1, i2, i3
  <1>15. Transactions' = Transactions + i1 - i3
    BY <1>4, <1>7, <1>11, <1>13, <1>14
  <1> QED BY <1>15 DEF i1, i3, w

(* The counter wraps to its largest value when the last transaction leaves. *)
CounterFor(n) == IF n = 0 THEN USEDW_MODULUS - 1 ELSE n - 1

LEMMA CounterStep ==
    ASSUME NEW n \in 0..DEPTH, NEW m \in 0..DEPTH, NEW a \in {0, 1}, NEW b \in {0, 1},
           m = n + a - b
    PROVE  (CounterFor(n) + a - b) % USEDW_MODULUS = CounterFor(m)
  <1> DEFINE M == USEDW_MODULUS
             c == IF n = 0 THEN M - 1 ELSE n - 1
             d == c + a - b
  <1> USE Parameters
  <1>1. M \in Nat /\ DEPTH < M /\ n \in Nat /\ m \in Nat
    BY WidthFits
  <1> HIDE DEF M
  <1>2. CASE d \in 0..(M - 1)
    <2>1. d % M = d
      BY <1>1, <1>2
    <2>2. d = IF m = 0 THEN M - 1 ELSE m - 1
      BY <1>1, <1>2
    <2> QED BY <2>1, <2>2 DEF CounterFor, M
  <1>3. CASE d = M
    <2>1. M % M = 0
      BY <1>1, Remainder
    <2>2. m = 1
      BY <1>1, <1>3
    <2> QED BY <1>3, <2>1, <2>2 DEF CounterFor, M
  <1>4. CASE d = -1
    <2>1. (-1) % M = -1 + M
      BY <1>1, NegRemainder
    <2>2. m = 0
      BY <1>1, <1>4
    <2> QED BY <1>1, <1>4, <2>1, <2>2 DEF CounterFor, M
  <1>5. d \in 0..(M - 1) \/ d = M \/ d = -1
    BY <1>1
  <1> QED BY <1>2, <1>3, <1>4, <1>5

(* The counter stays exact. *)
LEMMA CountedStep ==
    ASSUME ResetCoversDelays, IInv, IInv', PointersExact, StoredAreItems,
           TransactionsCounted, NoItem \notin Item,
           NEW start \in Slot, NEW rdreq \in BOOLEAN, NEW reset \in BOOLEAN,
           Cycle(start, rdreq, reset)
    PROVE  TransactionsCounted'
  <1> SUFFICES ASSUME ~rst' PROVE transaction_count_ff' = CounterFor(Transactions')
    BY DEF TransactionsCounted, CounterFor, USEDW_MODULUS
  <1>0. (Transactions \in 0..DEPTH)'
    BY TransactionsBounded, PTL
  <1>1. CASE rst
    <2>1. transaction_count_ff' = USEDW_MODULUS - 1
      BY <1>1 DEF Cycle
    <2>2. usedw_ff' = 0 /\ Committed' = 0
      BY <1>1, Occupancy, EmptyAfterReset
    <2>3. Transactions' = 0
      <3> DEFINE chain == delay_wrreq_data'
                 lasts == [i \in 1..FORWARD_DELAY |-> IsLast(chain[i])]
      <3>1. ChainLasts' = lasts
        BY DEF ChainLasts, IsLast
      <3>2. /\ UnderWay(chain, FORWARD_DELAY) \in Nat
            /\ UnderWay(pipeline', ALMOSTFULL_ENTRIES) \in Nat
        BY UnderWayType, Parameters
      <3>3. UnderWay(chain, FORWARD_DELAY) = 0
        BY <2>2, <3>2 DEF Committed
      <3>4. Pulses(lasts, FORWARD_DELAY, 0) = 0
        BY <3>3, LastsUnderWay, Parameters
      <3>5. StoredLasts' = {}
        BY <2>2 DEF StoredLasts
      <3>6. Cardinality({}) = 0
        BY FS_EmptySet
      <3>7. Transactions' = Cardinality(StoredLasts') + Pulses(ChainLasts', FORWARD_DELAY, 0)
        BY DEF Transactions
      <3> HIDE DEF lasts
      <3> QED BY <3>1, <3>4, <3>5, <3>6, <3>7
    <2> QED BY <2>1, <2>3 DEF CounterFor
  <1>2. CASE ~rst
    <2> DEFINE a == Bit(IsLast(WrItem(start)))
               b == Bit(rdreq /\ IsLast(q))
    <2>1. transaction_count_ff' = (transaction_count_ff + a - b) % USEDW_MODULUS
      BY <1>2 DEF Cycle, WrItem, TransactionCountNext
    <2>2. transaction_count_ff = CounterFor(Transactions)
      BY <1>2 DEF TransactionsCounted, CounterFor
    <2>3. Transactions' = Transactions + a - b
      BY <1>2, TransactionsStep
    <2>4. Transactions \in 0..DEPTH /\ a \in {0, 1} /\ b \in {0, 1}
      BY TransactionsType DEF Bit
    <2> HIDE DEF a, b
    <2> QED BY <1>0, <2>1, <2>2, <2>3, <2>4, CounterStep
  <1> QED BY <1>1, <1>2

(* So its sign bit tells whether there is a complete transaction. *)
LEMMA SignExact ==
    ASSUME IInv, TransactionsCounted, ~rst
    PROVE  ~transaction_empty <=>
              \/ HasLast(Stored)
              \/ \E i \in 1..FORWARD_DELAY : IsLast(delay_wrreq_data[i])
  <1> DEFINE half == 2^LOG_DEPTH
             n == Transactions
  <1>1. /\ half \in Nat /\ half < USEDW_MODULUS /\ DEPTH <= half
        /\ USEDW_MODULUS \in Nat /\ DEPTH \in Nat
    BY WriteDelayFifoAssumption, WidthFits DEF USEDW_MODULUS
  <1>2. n \in 0..DEPTH
    BY TransactionsType
  <1>3. transaction_count_ff = IF n = 0 THEN USEDW_MODULUS - 1 ELSE n - 1
    BY DEF TransactionsCounted
  <1>4. transaction_empty <=> transaction_count_ff >= half
    BY DEF transaction_empty
  <1> HIDE DEF half, n
  <1>5. transaction_empty <=> n = 0
    BY <1>1, <1>2, <1>3, <1>4
  <1> QED BY <1>5, TransactionsType DEF n

(* A transaction that is being read can be read to its end. *)
LEMMA EndStoredStep ==
    ASSUME ResetCoversDelays, FORWARD_DELAY <= 1, IInv, PointersExact, StoredAreItems,
           TransactionsCounted, EndStored, NoItem \notin Item,
           NEW start \in Slot, NEW rdreq \in BOOLEAN, NEW reset \in BOOLEAN,
           Cycle(start, rdreq, reset)
    PROVE  EndStored'
  <1> DEFINE s == Stored
             t == Stored'
             x == InItem(start)
             put == x # NoItem
  <1> SUFFICES ASSUME ~rst', midTransaction' PROVE HasLast(t)
    BY DEF EndStored, HasLast, Stored
  <1>1. midTransaction' = IF rst THEN FALSE ELSE IF rdreq THEN ~IsLast(q)
                          ELSE midTransaction
    BY DEF Cycle
  <1>2. ~rst
    BY <1>1
  <1>3. /\ s \in Seq(Item) /\ t \in Seq(Item)
        /\ t = After(s, rdreq, put, x)
        /\ rdreq => s # <<>> /\ Head(s) = q
    BY <1>2, StoredStep
  <1>4. put \in BOOLEAN /\ (put => x \in Item)
    BY Occupancy DEF Slot
  <1>5. HasLast(s) \/ (put /\ x.last)
    <2>1. CASE ~rdreq
      BY <1>1, <1>2, <2>1 DEF EndStored
    <2>2. CASE rdreq
      <3>1. ~empty /\ ~IsLast(q) /\ q \in Item /\ q # NoItem
        <4>1. ~empty
          BY <2>2 DEF Cycle
        <4>2. ~IsLast(q)
          BY <1>1, <1>2, <2>2
        <4>3. q \in Item
          <5> HIDE DEF s, t, put, x
          <5> QED BY <1>3, <2>2
        <4> QED BY <4>1, <4>2, <4>3
      <3>2. IS_TRANSACTIONAL
        <4> SUFFICES ASSUME ~IS_TRANSACTIONAL PROVE FALSE
          OBVIOUS
        <4>1. q.last = TRUE
          BY <3>1 DEF Item
        <4> QED BY <3>1, <4>1 DEF IsLast
      <3>3. ~transaction_empty
        BY <3>1, <3>2 DEF empty
      <3>4. \/ HasLast(s)
            \/ \E i \in 1..FORWARD_DELAY : IsLast(delay_wrreq_data[i])
        BY <1>2, <3>3, SignExact
      <3>5. ASSUME NEW i \in 1..FORWARD_DELAY, IsLast(delay_wrreq_data[i])
            PROVE  put /\ x.last
        <4>1. i = 1 /\ FORWARD_DELAY = 1
          BY Parameters
        <4>2. x = delay_wrreq_data[i]
          BY <4>1 DEF InItem, ChainOut
        <4> QED BY <3>5, <4>2 DEF IsLast
      <3> QED BY <3>4, <3>5
    <2> QED BY <2>1, <2>2
  <1>6. /\ Len(t) = Len(s) + Bit(put) - Bit(rdreq)
        /\ \A k \in 1..(Len(s) - Bit(rdreq)) : t[k] = s[k + Bit(rdreq)]
        /\ put => t[Len(s) - Bit(rdreq) + 1] = x
    <2> HIDE DEF s, t, put, x
    <2>1. /\ s \in Seq(Item) /\ rdreq \in BOOLEAN /\ put \in BOOLEAN
          /\ (rdreq => s # <<>>) /\ (put => x \in Item)
          /\ t = After(s, rdreq, put, x)
      BY <1>3, <1>4
    <2>2. MovesUp(s, t, rdreq, put, x)
      BY ONLY <2>1, AfterShows
    <2> QED BY <2>2 DEF MovesUp
  <1>7. /\ Bit(put) \in {0, 1} /\ Bit(rdreq) \in {0, 1} /\ (put => Bit(put) = 1)
        /\ Bit(rdreq) = 1 <=> rdreq
    BY DEF Bit
  <1>8. Len(s) \in Nat /\ (rdreq => Len(s) > 0 /\ ~s[1].last)
    <2>1. Len(s) \in Nat /\ (rdreq => Len(s) > 0 /\ s[1] = q)
      BY <1>3
    <2>2. rdreq => ~q.last
      <3>1. rdreq => q \in Item
        BY <1>3
      <3> QED BY <1>1, <1>2, <3>1 DEF IsLast
    <2> QED BY <2>1, <2>2
  <1> HIDE DEF s, t, put, x
  <1>9. CASE HasLast(s)
    <2>1. PICK k \in 1..Len(s) : s[k].last
      BY <1>3, <1>9 DEF HasLast
    <2>2. ~rdreq \/ k # 1
      BY <1>8, <2>1
    <2> DEFINE j == k - Bit(rdreq)
    <2>3. j \in 1..(Len(s) - Bit(rdreq)) /\ j \in 1..Len(t) /\ j + Bit(rdreq) = k
      BY <1>6, <1>7, <1>8, <2>1, <2>2
    <2>4. t[j].last
      <3> HIDE DEF j
      <3> QED BY <1>6, <2>1, <2>3
    <2> QED BY <1>3, <2>3, <2>4 DEF HasLast
  <1>10. CASE put /\ x.last
    <2> DEFINE j == Len(s) - Bit(rdreq) + 1
    <2>0. put
      BY <1>10
    <2>1. j \in 1..Len(t)
      <3>1. Bit(put) = 1 /\ (Bit(rdreq) = 1 => Len(s) > 0)
        BY <1>7, <1>8, <2>0
      <3> QED BY <1>6, <1>7, <1>8, <3>1
    <2>2. t[j].last
      BY <1>6, <1>10
    <2> QED BY <1>3, <2>1, <2>2 DEF HasLast
  <1> QED BY <1>5, <1>9, <1>10
-----------------------------------------------------------------------------
(* The inductive invariant of the FIFO that the constants describe, when   *)
(* it is the one that is clocked.                                          *)
SingleInv == ~pipelined => IInv /\ StoreInv /\ TransactionsCounted

LEMMA SingleInit == MCInit => SingleInv
  <1> SUFFICES ASSUME MCInit, ~pipelined PROVE IInv /\ StoreInv /\ TransactionsCounted
    BY DEF SingleInv
  <1>1. Init
    BY DEF MCInit
  <1>2. rst
    BY <1>1, HoldType DEF Init, rst
  <1> QED BY <1>1, <1>2, InitInv, InitStore DEF TransactionsCounted

(* A stuttering step changes nothing of it. *)
LEMMA SingleStutter ==
    ASSUME IInv, StoreInv, TransactionsCounted, UNCHANGED vars
    PROVE  IInv' /\ StoreInv' /\ TransactionsCounted'
  <1>1. IInv'
    BY DEF vars, ptrVars, IInv, TypeOK, FifoPtrsExTypeOK,
       Committed, UnderWay, Promise, FullAt, FlagsExact, EmptyInTime, ResetProgress,
       ResetEdges, rst, NoOverflow, NoUnderflow
  <1>2. StoreInv'
    BY DEF vars, ptrVars, StoreInv, PointersExact, StoredAreItems, ContentsCounted,
       Stored, Contents, Way, Committed, UnderWay, rst
  <1>3. TransactionsCounted'
    BY DEF vars, ptrVars, TransactionsCounted, Transactions, StoredLasts, ChainLasts,
       Stored, rst
  <1> QED BY <1>1, <1>2, <1>3

LEMMA SingleStep ==
    ASSUME ResetCoversDelays, SingleInv, [MCNext]_mcVars
    PROVE  SingleInv'
  <1>0. NoItem \notin Item
    BY WriteDelayFifoAssumption DEF Item
  <1> SUFFICES ASSUME ~pipelined' PROVE (IInv /\ StoreInv /\ TransactionsCounted)'
    BY DEF SingleInv
  <1>1. pipelined' = pipelined /\ (Next \/ UNCHANGED vars)
    BY DEF MCNext, mcVars
  <1>2. IInv /\ StoreInv /\ TransactionsCounted
    BY <1>1 DEF SingleInv
  <1>3. CASE UNCHANGED vars
    BY <1>2, <1>3, SingleStutter
  <1>4. CASE Next
    <2>1. PICK start \in Slot, rdreq \in BOOLEAN, reset \in BOOLEAN :
                 Cycle(start, rdreq, reset)
      BY <1>4 DEF Next
    <2>2. IInv'
      BY <1>2, <2>1, CycleInv
    <2>3. StoreInv'
      BY <1>0, <1>2, <2>1, <2>2, StoreStep
    <2>4. TransactionsCounted'
      BY <1>0, <1>2, <2>1, <2>2, CountedStep DEF StoreInv
    <2> QED BY <2>2, <2>3, <2>4
  <1> QED BY <1>1, <1>3, <1>4

(* The sign bit of the transaction counter tells exactly whether there is  *)
(* a complete transaction in the FIFO or on its way from the write port,   *)
(* for every depth and every pair of delays, also when the FIFO is full of *)
(* one-item transactions.                                                  *)
THEOREM TransactionsExactHolds == ResetCoversDelays => (MCSpec => []TransactionsExact)
  <1> SUFFICES ASSUME ResetCoversDelays PROVE MCSpec => []TransactionsExact
    OBVIOUS
  <1>1. SingleInv /\ [MCNext]_mcVars => SingleInv'
    BY SingleStep
  <1>2. SingleInv => TransactionsExact
    BY SignExact DEF SingleInv, TransactionsExact, TransactionEmptyExact
  <1> QED BY SingleInit, <1>1, <1>2, PTL DEF MCSpec

(* A reader that has begun a transaction can read it to its end without    *)
(* waiting, if the writes pass through at most one register and empty is   *)
(* not pipelined.  Both conditions are needed: the counter counts a last   *)
(* item before it is stored, and the pipelined empty rises after every     *)
(* read when few entries are left.                                         *)
THEOREM NeverStallsInsideHolds ==
    ResetCoversDelays /\ FORWARD_DELAY <= 1 /\ ALMOSTEMPTY_VAL < 4
      => (MCSpec => []NeverStallsInside)
  <1> SUFFICES ASSUME ResetCoversDelays, FORWARD_DELAY <= 1, ALMOSTEMPTY_VAL < 4
               PROVE  MCSpec => []NeverStallsInside
    OBVIOUS
  <1> DEFINE Inv == SingleInv /\ (~pipelined => EndStored)
  <1>0. NoItem \notin Item
    BY WriteDelayFifoAssumption DEF Item
  <1>1. MCInit => Inv
    <2>1. MCInit /\ ~pipelined => EndStored
      BY DEF MCInit, Init, EndStored
    <2> QED BY <2>1, SingleInit
  <1>2. Inv /\ [MCNext]_mcVars => Inv'
    <2> SUFFICES ASSUME Inv, [MCNext]_mcVars, ~pipelined' PROVE EndStored'
      BY SingleStep
    <2>1. pipelined' = pipelined /\ (Next \/ UNCHANGED vars)
      BY DEF MCNext, mcVars
    <2>2. IInv /\ PointersExact /\ StoredAreItems /\ TransactionsCounted /\ EndStored
      BY <2>1 DEF SingleInv, StoreInv
    <2>3. CASE UNCHANGED vars
      BY <2>2, <2>3 DEF vars, ptrVars, EndStored, HasLast, Stored, rst
    <2>4. CASE Next
      <3>1. PICK start \in Slot, rdreq \in BOOLEAN, reset \in BOOLEAN :
                   Cycle(start, rdreq, reset)
        BY <2>4 DEF Next
      <3> QED BY <1>0, <2>2, <3>1, EndStoredStep
    <2> QED BY <2>1, <2>3, <2>4
  <1>3. Inv => NeverStallsInside
    <2> SUFFICES ASSUME Inv, ~pipelined, ~rst, midTransaction PROVE ~empty
      BY DEF NeverStallsInside, NoStallInsideTransaction
    <2>1. IInv /\ TransactionsCounted /\ HasLast(Stored)
      BY DEF SingleInv, EndStored
    <2>2. ~transaction_empty
      BY <2>1, SignExact
    <2>3. usedw_ff # 0
      BY <2>1 DEF HasLast, Stored
    <2>4. ~empty_ff
      BY <2>1, <2>3 DEF IInv, FlagsExact
    <2> QED BY <2>2, <2>4, Parameters DEF empty, empty_pre_transaction
  <1> QED BY <1>1, <1>2, <1>3, PTL DEF MCSpec

(* The FIFO by itself is a FIFO of DEPTH entries that counts what is in    *)
(* the writer's block and in the chain as accepted, for every depth, block *)
(* length and pair of delays, with either kind of empty, transactional or  *)
(* not.                                                                    *)
THEOREM SingleImplementsFifo == ResetCoversDelays => (MCSpec => AbstractSingle!Spec)
  <1> SUFFICES ASSUME ResetCoversDelays PROVE MCSpec => AbstractSingle!Spec
    OBVIOUS
  <1>0. NoItem \notin Item
    BY WriteDelayFifoAssumption DEF Item
  <1> DEFINE on == ~pipelined /\ ~rst
  <1>1. /\ on => /\ Single.queue = FlattenSeq(Way) /\ Single.delivered = delivered
                 /\ Single.sent = sent /\ Single.received = received
        /\ ~on => /\ Single.queue = <<>> /\ Single.delivered = NoItem
                  /\ Single.sent = 0 /\ Single.received = 0
    BY DEF Single, Observed, Contents
  <1>2. /\ on' => /\ Single'.queue = FlattenSeq(Way') /\ Single'.delivered = delivered'
                  /\ Single'.sent = sent' /\ Single'.received = received'
        /\ ~on' => /\ Single'.queue = <<>> /\ Single'.delivered = NoItem
                   /\ Single'.sent = 0 /\ Single'.received = 0
    BY DEF Single, Observed, Contents
  <1>3. MCInit => AbstractSingle!Init
    <2>1. MCInit => ~on
      BY HoldType DEF MCInit, Init, rst
    <2> QED BY <1>1, <2>1 DEF AbstractSingle!Init
  <1>4. SingleInv /\ [MCNext]_mcVars => [AbstractSingle!Next]_(AbstractSingle!fifoVars)
    <2> SUFFICES ASSUME SingleInv, [MCNext]_mcVars
                 PROVE  [AbstractSingle!Next]_(AbstractSingle!fifoVars)
      OBVIOUS
    <2>1. pipelined' = pipelined /\ (pipelined \/ Next \/ UNCHANGED vars)
      BY DEF MCNext, mcVars
    <2>2. CASE ~on /\ ~on'
      BY <1>1, <1>2, <2>2 DEF AbstractSingle!fifoVars
    <2>3. CASE on /\ ~on'
      <3>1. AbstractSingle!Reset
        BY <1>2, <2>3 DEF AbstractSingle!Reset
      <3> QED BY <3>1 DEF AbstractSingle!Next
    <2>4. CASE UNCHANGED vars
      BY <1>1, <1>2, <2>1, <2>4 DEF vars, ptrVars, AbstractSingle!fifoVars, Way, Stored, rst
    <2>5. ASSUME on', ~pipelined, NEW start \in Slot, NEW rdreq \in BOOLEAN,
                 NEW reset \in BOOLEAN, Cycle(start, rdreq, reset)
          PROVE  [AbstractSingle!Next]_(AbstractSingle!fifoVars)
      <3> DEFINE old == FlattenSeq(Way)
                 new == FlattenSeq(Way')
                 put == start # NoItem
      <3>1. IInv /\ StoreInv /\ PointersExact /\ StoredAreItems
        BY <2>5 DEF SingleInv, StoreInv
      <3>2. IInv'
        BY <2>5, <3>1, CycleInv
      <3>3. CASE rst
        <4>1. Contents' = <<>>
          BY <2>5, <3>1, <3>2, <3>3, EmptyAfterReset
        <4>2. new = <<>> /\ sent' = 0 /\ received' = 0 /\ delivered' = NoItem
          BY <2>5, <3>3, <4>1 DEF Contents, Cycle
        <4> QED BY <1>1, <1>2, <2>5, <3>3, <4>2 DEF AbstractSingle!fifoVars
      <3>4. CASE ~rst
        <4>1. /\ old \in Seq(Item) /\ new = After(old, rdreq, put, start)
              /\ rdreq => old # <<>> /\ Head(old) = q
          BY <1>0, <2>5, <3>1, <3>4, WayStep
        <4>2. put \in BOOLEAN /\ (put => start \in Item)
          BY DEF Slot
        <4>3. Len(new) <= DEPTH
          <5>1. StoreInv'
            BY <1>0, <2>5, <3>1, <3>2, StoreStep
          <5> QED BY <2>5, <3>2, <5>1 DEF StoreInv, ContentsCounted, IInv, Contents
        <4>4. /\ sent' = IF put THEN 1 - sent ELSE sent
              /\ received' = IF rdreq THEN 1 - received ELSE received
              /\ delivered' = IF rdreq THEN q ELSE delivered
          <5>1. sent \in {0, 1} /\ received \in {0, 1}
            BY <3>1 DEF IInv, TypeOK
          <5>2. /\ sent' = (sent + Bit(put)) % 2 /\ received' = (received + Bit(rdreq)) % 2
                /\ delivered' = IF rdreq THEN q ELSE delivered
            BY <2>5, <3>4 DEF Cycle
          <5> QED BY <5>1, <5>2 DEF Bit
        <4>5. /\ Single.queue = old /\ Single.delivered = delivered
              /\ Single.sent = sent /\ Single.received = received
              /\ Single'.queue = new /\ Single'.delivered = delivered'
              /\ Single'.sent = sent' /\ Single'.received = received'
          BY <1>1, <1>2, <2>5, <3>4
        <4> HIDE DEF old, new, put
        <4>6. CASE rdreq /\ put
          <5>1. new = Append(Tail(old), start)
            BY <4>1, <4>6, AfterCases
          <5>2. AbstractSingle!PutAndTake(start)
            BY <4>1, <4>4, <4>5, <4>6, <5>1 DEF AbstractSingle!PutAndTake
          <5> QED BY <4>2, <4>6, <5>2 DEF AbstractSingle!Next
        <4>7. CASE rdreq /\ ~put
          <5>1. new = After(old, TRUE, FALSE, start)
            BY <4>1, <4>7 DEF After
          <5>2. new = Tail(old)
            BY <4>1, <4>7, <5>1, AfterCases
          <5>3. AbstractSingle!Take
            BY <4>1, <4>4, <4>5, <4>7, <5>2 DEF AbstractSingle!Take
          <5> QED BY <5>3 DEF AbstractSingle!Next
        <4>8. CASE ~rdreq /\ put
          <5>1. new = Append(old, start)
            BY <4>1, <4>8, AfterCases
          <5>2. AbstractSingle!Put(start)
            BY <4>3, <4>4, <4>5, <4>8, <5>1 DEF AbstractSingle!Put
          <5> QED BY <4>2, <4>8, <5>2 DEF AbstractSingle!Next
        <4>9. CASE ~rdreq /\ ~put
          <5>1. new = After(old, FALSE, FALSE, start)
            BY <4>1, <4>9 DEF After
          <5>2. new = old
            BY <4>1, <5>1, AfterCases
          <5> QED BY <4>4, <4>5, <4>9, <5>2 DEF AbstractSingle!fifoVars
        <4> QED BY <4>2, <4>6, <4>7, <4>8, <4>9
      <3> QED BY <3>3, <3>4
    <2> QED BY <2>1, <2>2, <2>3, <2>4, <2>5 DEF Next
  <1>5. SingleInv /\ [MCNext]_mcVars => SingleInv'
    BY SingleStep
  <1> QED BY SingleInit, <1>3, <1>4, <1>5, PTL DEF MCSpec, AbstractSingle!Spec
=============================================================================
