--------------------------- MODULE WriteDelayFifo ---------------------------
(***************************************************************************)
(* KanagawaWriteDelayFifo (write_delay_fifo.sv) between a basic block that *)
(* writes it and one that reads it.                                        *)
(*                                                                         *)
(* Basic blocks have no stall logic: a thread that has started runs through*)
(* the ALMOSTFULL_ENTRIES stages of its block and then writes, whatever    *)
(* the FIFO says.  The block therefore looks at "full" when a thread       *)
(* starts, full is raised 2*WRITE_DELAY + ALMOSTFULL_ENTRIES entries early,*)
(* and the write request and full each travel through a flip-flop chain.   *)
(* With auto-pipelining the tools choose the real length of the two chains *)
(* (FORWARD_DELAY, BACKWARD_DELAY) up to WRITE_DELAY.                      *)
(*                                                                         *)
(* Neither the stages of a block nor the chains have a reset: rst is held  *)
(* for RESET_HOLD cycles so that they drain into a FIFO that ignores them. *)
(* At power-up they hold arbitrary values.                                 *)
(***************************************************************************)
EXTENDS FlipFlopChain, Sequences, FiniteSetsExt, SequencesExt

CONSTANTS Data,                \* payloads
          NoItem,              \* a stage or chain position without a write
          DEPTH, LOG_DEPTH, ALMOSTFULL_ENTRIES, ALMOSTEMPTY_VAL,
          WRITE_DELAY, FORWARD_DELAY, BACKWARD_DELAY,
          IS_TRANSACTIONAL,
          TRANSACTION_SIZE,    \* items of the longest transaction
          RESET_LATENCY,       \* cycles the options reserve for reset and back-pressure
          BYPASS_SLOTS,        \* of memories with a bypass
          MaxResets            \* bound: resets after power-up

VARIABLES wrptr_ff, rdptr_ff, usedw_ff, full_ff, almost_full_ff, empty_ff,
          almost_empty_ff, rst_d1,
          values,                  \* the storage of the show-ahead FIFO
          delay_wrreq_data,        \* writes under way to the FIFO
          delay_afull,             \* almost_full under way to the writer
          empty_ffc,               \* the pipelined empty
          transaction_count_ff,    \* complete transactions, minus one
          overflow_out, underflow_out,
          rst_hold,                \* cycles rst stays high
          resets,                  \* resets after power-up so far
          pipeline,                \* the stages of the writer's block
          opened,                  \* items the writer has put into its open transaction
          midTransaction,          \* the reader has begun a transaction and not ended it
          delivered,               \* what the reader read last
          sent, received           \* parity of the items started and read

ptrVars == <<wrptr_ff, rdptr_ff, usedw_ff, full_ff, almost_full_ff, empty_ff,
             almost_empty_ff, rst_d1>>
vars == <<ptrVars, values, delay_wrreq_data, delay_afull, empty_ffc,
          transaction_count_ff, overflow_out, underflow_out, rst_hold, resets,
          pipeline, opened, midTransaction, delivered, sent, received>>

MutMarginOneWay == ALMOSTFULL_ENTRIES + WRITE_DELAY

ALMOSTFULL_ENTRIES_INTERNAL == ALMOSTFULL_ENTRIES + 2 * WRITE_DELAY

INSTANCE FifoPtrsEx WITH ALMOST_FULL_MARGIN <- ALMOSTFULL_ENTRIES_INTERNAL,
                         ALMOST_EMPTY_MARGIN <- ALMOSTEMPTY_VAL

ASSUME WriteDelayFifoAssumption ==
    /\ DEPTH \in Nat \ {0} /\ ALMOSTFULL_ENTRIES \in Nat /\ WRITE_DELAY \in Nat
    /\ ALMOSTEMPTY_VAL \in Nat
    /\ FORWARD_DELAY \in 0..WRITE_DELAY /\ BACKWARD_DELAY \in 0..WRITE_DELAY
    \* The $error of the initial block.
    /\ ALMOSTFULL_ENTRIES_INTERNAL < DEPTH
    /\ LOG_DEPTH \in Nat /\ 2^LOG_DEPTH >= DEPTH
    /\ 2^LOG_DEPTH \in Nat /\ 2^(LOG_DEPTH + 1) \in Nat
    /\ 2^LOG_DEPTH < 2^(LOG_DEPTH + 1) /\ DEPTH < 2^(LOG_DEPTH + 1)
    /\ IS_TRANSACTIONAL \in BOOLEAN
    /\ NoItem \notin [data : Data, last : BOOLEAN]
    /\ TRANSACTION_SIZE \in Nat \ {0}
    /\ RESET_LATENCY \in Nat /\ BYPASS_SLOTS \in Nat \ {0, 1} /\ MaxResets \in Nat

(* Every item ends a transaction of a FIFO that is not transactional. *)
Item == [data : Data, last : IF IS_TRANSACTIONAL THEN BOOLEAN ELSE {TRUE}]
IsLast(i) == i # NoItem /\ i.last
Slot == Item \cup {NoItem}

MutHoldOneCycle == 1

(* GetResetHoldCycles of the compiler, for the writer's block. *)
RESET_HOLD == 2 * (Max({RESET_LATENCY, 1, ALMOSTFULL_ENTRIES}) + BYPASS_SLOTS)

rst == rst_hold > 0
-----------------------------------------------------------------------------
(* The output ports. *)
full == ChainOut(delay_afull, BACKWARD_DELAY, almost_full_ff)

(* The sign bit of the counter. *)
transaction_empty == transaction_count_ff >= 2^LOG_DEPTH

empty_pre_transaction == IF ALMOSTEMPTY_VAL < 4 THEN empty_ff ELSE empty_ffc

MutEmpty == empty_pre_transaction

empty == empty_pre_transaction \/ (IS_TRANSACTIONAL /\ transaction_empty)

q == values[rdptr_ff]
-----------------------------------------------------------------------------
MutEmptyNext(rdreq) == almost_empty_ff /\ empty_ff
(* What the pipelined empty is next: with few entries left a read may only *)
(* follow a cycle without a read.                                          *)
EmptyNext(rdreq) == almost_empty_ff /\ (empty_ff \/ rdreq)

MutReadEndLost(wrEnd, rdEnd) ==
    (transaction_count_ff + Bit(wrEnd) - Bit(rdEnd /\ ~wrEnd)) % USEDW_MODULUS

MutWriteEndLost(wrEnd, rdEnd) ==
    (transaction_count_ff + Bit(wrEnd /\ ~rdEnd) - Bit(rdEnd)) % USEDW_MODULUS

(* The transaction counter after a cycle in which the writer's last item   *)
(* enters the write port or the reader takes a last item.                  *)
TransactionCountNext(wrEnd, rdEnd) ==
    (transaction_count_ff + Bit(wrEnd) - Bit(rdEnd)) % USEDW_MODULUS

(* The storage after an edge at which "item" arrives (NoItem: nothing). *)
ValuesNext(item) ==
    IF item = NoItem THEN values ELSE [values EXCEPT ![wrptr_ff] = item]

(* The sticky error of the debug module: a request in a state forbidding it. *)
error_next(error_out, state, req) == ~rst /\ (error_out \/ (state /\ req))

(* Power-up: registers with a reset get it at the first edge, the others   *)
(* hold anything.                                                          *)
Init ==
    /\ rst_hold = RESET_HOLD /\ resets = 0
    /\ FifoPtrsExInit
    /\ values = [a \in 0..(DEPTH - 1) |-> NoItem]
    /\ delay_wrreq_data \in Chains(FORWARD_DELAY, Slot)
    /\ delay_afull \in Chains(BACKWARD_DELAY, BOOLEAN)
    /\ pipeline \in Chains(ALMOSTFULL_ENTRIES, Slot)
    /\ empty_ffc = TRUE
    /\ transaction_count_ff = USEDW_MODULUS - 1
    /\ overflow_out = FALSE /\ underflow_out = FALSE
    /\ opened = 0 /\ midTransaction = FALSE /\ delivered = NoItem
    /\ sent = 0 /\ received = 0

(* A thread may start a new write of item i: the FIFO's full is low, and   *)
(* the block's own input FIFO, in reset as well, still has a thread in the *)
(* first cycle of a reset.  Transactions have at most TRANSACTION_SIZE     *)
(* items.                                                                  *)
CanStart(i) ==
    /\ ~full
    /\ rst_hold \in {0, RESET_HOLD}
    /\ i.last \/ opened + 1 < TRANSACTION_SIZE

(* A clock edge at which the writer's block starts a thread that will      *)
(* write "start" (NoItem if none), the reader reads (rdreq) or not, and    *)
(* the design is put into reset (reset) or not.                            *)
Cycle(start, rdreq, reset) ==
    LET wrItem  == ChainOut(pipeline, ALMOSTFULL_ENTRIES, start)
        inItem  == ChainOut(delay_wrreq_data, FORWARD_DELAY, wrItem)
        wr      == inItem # NoItem
    IN  /\ start # NoItem => CanStart(start)
        /\ rdreq => ~empty /\ ~rst
        /\ pipeline' = ChainShift(pipeline, ALMOSTFULL_ENTRIES, start)
        /\ delay_wrreq_data' = ChainShift(delay_wrreq_data, FORWARD_DELAY, wrItem)
        /\ delay_afull' = ChainShift(delay_afull, BACKWARD_DELAY, almost_full_ff)
        /\ FifoPtrsExEdge(rst, wr, rdreq)
        /\ values' = ValuesNext(inItem)
        /\ empty_ffc' = EmptyNext(rdreq)
        /\ transaction_count_ff' =
              IF rst THEN USEDW_MODULUS - 1
              ELSE TransactionCountNext(IsLast(wrItem), rdreq /\ IsLast(q))
        /\ overflow_out' = error_next(overflow_out, full_ff, wr)
        /\ underflow_out' = error_next(underflow_out, empty_ff, rdreq)
        /\ delivered' = IF rst THEN NoItem ELSE IF rdreq THEN q ELSE delivered
        /\ midTransaction' =
              IF rst THEN FALSE ELSE IF rdreq THEN ~IsLast(q) ELSE midTransaction
        /\ opened' = IF rst THEN 0
                     ELSE IF start = NoItem THEN opened
                     ELSE IF start.last THEN 0 ELSE opened + 1
        /\ sent' = IF rst THEN 0 ELSE (sent + Bit(start # NoItem)) % 2
        /\ received' = IF rst THEN 0 ELSE (received + Bit(rdreq)) % 2
        /\ reset => ~rst /\ resets < MaxResets
        /\ resets' = resets + Bit(reset)
        /\ rst_hold' = IF rst THEN rst_hold - 1 ELSE IF reset THEN RESET_HOLD ELSE 0

Next == \E start \in Slot, rdreq, reset \in BOOLEAN : Cycle(start, rdreq, reset)

Spec == Init /\ [][Next]_vars

(* The clock runs: edges come as long as an edge without any request would *)
(* change a register.  Nobody is made to start a write by this.            *)
Tick == (ENABLED <<Cycle(NoItem, FALSE, FALSE)>>_vars) /\ Next

(* The reader reads again and again while there is something to read. *)
Read == \E start \in Slot : Cycle(start, TRUE, FALSE)
FairSpec == Spec /\ WF_vars(Tick) /\ WF_vars(Read)
-----------------------------------------------------------------------------
(* The items between the writer and the reader, oldest first. *)
Stored == [k \in 1..usedw_ff |-> values[(rdptr_ff + k - 1) % DEPTH]]
Place(i) == IF i = NoItem THEN <<>> ELSE <<i>>
Way == [k \in 1..(1 + FORWARD_DELAY + ALMOSTFULL_ENTRIES) |->
          IF k = 1 THEN Stored
          ELSE IF k <= 1 + FORWARD_DELAY THEN Place(delay_wrreq_data[FORWARD_DELAY + 2 - k])
          ELSE Place(pipeline[ALMOSTFULL_ENTRIES + FORWARD_DELAY + 2 - k])]
Contents == IF rst THEN <<>> ELSE FlattenSeq(Way)

HasLast(items) == \E k \in DOMAIN items : items[k].last
-----------------------------------------------------------------------------
(* The registers keep their types; the pointers, which wrap at a DEPTH that *)
(* need not be a power of two, stay inside the storage.                    *)
TypeOK ==
    /\ FifoPtrsExTypeOK
    /\ values \in [0..(DEPTH - 1) -> Slot]
    /\ delay_wrreq_data \in Chains(FORWARD_DELAY, Slot)
    /\ delay_afull \in Chains(BACKWARD_DELAY, BOOLEAN)
    /\ pipeline \in Chains(ALMOSTFULL_ENTRIES, Slot)
    /\ {empty_ffc, overflow_out, underflow_out, midTransaction} \subseteq BOOLEAN
    /\ transaction_count_ff \in 0..(USEDW_MODULUS - 1)
    /\ rst_hold \in 0..RESET_HOLD /\ resets \in 0..MaxResets
    /\ opened \in 0..(TRANSACTION_SIZE - 1)
    /\ delivered \in Slot /\ sent \in {0, 1} /\ received \in {0, 1}

(* A thread that started on a low full always finds room when it writes:   *)
(* the sticky overflow output of the debug module stays low.               *)
NoOverflow == ~overflow_out

(* No read that empty allowed hits an empty FIFO: the sticky underflow     *)
(* output of the debug module stays low.                                   *)
NoUnderflow == ~underflow_out

(* When rst falls, every write that was under way in the block and in the  *)
(* chain has drained: no thread from before the reset reaches the FIFO.    *)
DrainedByReset ==
    rst_d1 /\ ~rst => /\ \A i \in 1..FORWARD_DELAY : delay_wrreq_data[i] = NoItem
                     /\ \A i \in 1..ALMOSTFULL_ENTRIES : pipeline[i] = NoItem

(* The sign bit of the transaction counter is exact, also when the FIFO is *)
(* full of one-item transactions and the counter at its largest value.     *)
TransactionEmptyExact ==
    IS_TRANSACTIONAL /\ ~rst =>
        (~transaction_empty <=> \/ HasLast(Stored)
                                \/ \E i \in 1..FORWARD_DELAY : IsLast(delay_wrreq_data[i]))

(* "empty should only be de-asserted when a full transaction is in the     *)
(* FIFO": the last item of the transaction at the head has been stored.    *)
WholeTransactionStored == ~rst /\ ~empty => HasLast(Stored)

(* A reader that has begun a transaction is never made to wait inside it.  *)
NoStallInsideTransaction == ~rst /\ midTransaction => ~empty

(* A complete transaction is under way or stored. *)
Undelivered == ~rst /\ HasLast(Contents)
-----------------------------------------------------------------------------
(* The reset is held until the writer's block and a chain of the longest   *)
(* delay have drained.  Nothing in the compiler makes sure of it.          *)
ResetCoversDelays == ALMOSTFULL_ENTRIES + WRITE_DELAY < RESET_HOLD

(* Which positions of a chain or block hold a write. *)
Writes(chain, depth) == [i \in 1..depth |-> chain[i] # NoItem]
UnderWay(chain, depth) == Pulses(Writes(chain, depth), depth, 0)

(* Entries that are used or that a write under way will use. *)
Committed ==
    usedw_ff + UnderWay(delay_wrreq_data, FORWARD_DELAY)
             + UnderWay(pipeline, ALMOSTFULL_ENTRIES)

(* almost_full with j cycles of its way to the writer done. *)
FullAt(j) == IF j = 0 THEN almost_full_ff ELSE delay_afull[j]

(* A low full that the writer sees in n cycles is good for one write in    *)
(* each of the cycles until then and one more.                             *)
Promise ==
    \A j \in 0..BACKWARD_DELAY :
        ~FullAt(j) => Committed + (BACKWARD_DELAY - j) < DEPTH

(* The registered flags agree with the occupancy, except that in and right *)
(* after a reset the FIFO shows itself both full and empty.                *)
FlagsExact ==
    IF rst_d1 THEN usedw_ff = 0 /\ full_ff /\ almost_full_ff /\ empty_ff /\ almost_empty_ff
    ELSE /\ full_ff <=> usedw_ff = DEPTH
         /\ almost_full_ff <=> usedw_ff >= WRALMOST_FULL_THRESHOLD
         /\ empty_ff <=> usedw_ff = 0
         /\ almost_empty_ff <=> usedw_ff <= ALMOSTEMPTY_VAL

(* The pipelined empty is never low while the FIFO is empty. *)
EmptyInTime == ALMOSTEMPTY_VAL >= 4 /\ ~rst => (empty_ff => empty_ffc)

(* The edges of a reset so far push what is under way towards the FIFO,    *)
(* and the reset value of almost_full towards the writer.                  *)
ResetEdges == RESET_HOLD - rst_hold
ResetProgress ==
    /\ rst /\ ResetEdges > 0 => rst_d1
    /\ rst \/ rst_d1 =>
          /\ \A i \in 1..ALMOSTFULL_ENTRIES : i < ResetEdges => pipeline[i] = NoItem
          /\ \A i \in 1..FORWARD_DELAY :
                ALMOSTFULL_ENTRIES + i < ResetEdges => delay_wrreq_data[i] = NoItem
          /\ \A i \in 1..BACKWARD_DELAY : i < ResetEdges => delay_afull[i]

(* The last items that are stored or under way to the FIFO. *)
StoredLasts == {k \in 1..usedw_ff : Stored[k].last}
ChainLasts == [i \in 1..FORWARD_DELAY |-> IsLast(delay_wrreq_data[i])]
Transactions == Cardinality(StoredLasts) + Pulses(ChainLasts, FORWARD_DELAY, 0)

(* The counter is one less than that, modulo its width. *)
TransactionsCounted ==
    ~rst => transaction_count_ff = IF Transactions = 0 THEN USEDW_MODULUS - 1
                                   ELSE Transactions - 1

(* The end of a transaction that the reader has begun is stored, if the    *)
(* chain is no longer than one register.                                   *)
EndStored == ~rst /\ midTransaction => HasLast(Stored)

(* The inductive invariant behind NoOverflow, NoUnderflow and DrainedByReset. *)
IInv ==
    /\ TypeOK
    /\ Committed <= DEPTH
    /\ Promise
    /\ FlagsExact
    /\ EmptyInTime
    /\ ResetProgress
    /\ NoOverflow
    /\ NoUnderflow
=============================================================================
