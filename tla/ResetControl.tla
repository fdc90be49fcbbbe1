---------------------------- MODULE ResetControl ----------------------------
(***************************************************************************)
(* KanagawaResetControl (reset_control.sv): a reset pulse is stretched to  *)
(* HOLD_CYCLES cycles (KanagawaHoldReset), carried through the fan-out     *)
(* tree and a flip-flop chain of DELAY_CYCLES stages together, and a second*)
(* counter tells when the sequence is over.  The pulse may come again at   *)
(* any time, and start-up code and memory initialisation report their end  *)
(* at any time after the sequence.                                         *)
(***************************************************************************)
EXTENDS FlipFlopChain

CONSTANTS DELAY_CYCLES, HOLD_CYCLES, ADDTIONAL_LATENCY

(* The emitter computes a hold of at least two cycles (GetResetHoldCycles) *)
(* and at least one stage for the done signal.                             *)
ResetControlAssumption ==
    /\ DELAY_CYCLES \in Nat
    /\ HOLD_CYCLES \in Nat \ {0, 1}
    /\ ADDTIONAL_LATENCY \in Nat \ {0}

TOTAL_CYCLES == HOLD_CYCLES + DELAY_CYCLES

VARIABLES counter, counter_not_zero, delay_chain, sequence_counter,
          finished_this_cycle, finished_ff, done_chain,
          past     \* past[k]: rst_in was high k cycles ago

vars == <<counter, counter_not_zero, delay_chain, sequence_counter,
          finished_this_cycle, finished_ff, done_chain, past>>

(* Power-up: rst_in is assumed high, and the reset chains start with ones. *)
Init ==
    /\ counter = HOLD_CYCLES - 1 /\ counter_not_zero = TRUE
    /\ delay_chain = [i \in 1..DELAY_CYCLES |-> TRUE]
    /\ sequence_counter = TOTAL_CYCLES - 1
    /\ finished_this_cycle = FALSE /\ finished_ff = FALSE
    /\ done_chain = [i \in 1..ADDTIONAL_LATENCY |-> FALSE]
    /\ past = [k \in 1..TOTAL_CYCLES |-> TRUE]

MutCounterNotZero == counter # 0

counter_not_zero_next == counter # 1

(* The value the sequence counter is loaded with. *)
SequenceStart == TOTAL_CYCLES - 1

rst_delayed_out(rst_in) ==
    ChainOut(delay_chain, DELAY_CYCLES, rst_in \/ counter_not_zero)

rst_and_startup_done_out == ChainOut(done_chain, ADDTIONAL_LATENCY, FALSE)

(* A clock edge; "others" is has_others_completed_in. *)
Cycle(rst_in, others) ==
    /\ counter' = IF rst_in THEN HOLD_CYCLES - 1
                  ELSE IF counter_not_zero THEN counter - 1 ELSE 0
    /\ counter_not_zero' = (rst_in \/ (counter_not_zero /\ counter_not_zero_next))
    /\ delay_chain' = ChainShift(delay_chain, DELAY_CYCLES, rst_in \/ counter_not_zero)
    /\ sequence_counter' = IF rst_in THEN SequenceStart
                           ELSE IF sequence_counter # 0 THEN sequence_counter - 1 ELSE 0
    /\ finished_this_cycle' = (~rst_in /\ sequence_counter = 1)
    /\ finished_ff' = (~rst_in /\ (finished_this_cycle \/ finished_ff))
    /\ done_chain' = IF rst_in THEN [i \in 1..ADDTIONAL_LATENCY |-> FALSE]
                     ELSE ChainShift(done_chain, ADDTIONAL_LATENCY, finished_ff /\ others)
    /\ past' = ChainShift(past, TOTAL_CYCLES, rst_in)

Next == \E rst_in, others \in BOOLEAN : Cycle(rst_in, others)

Spec == Init /\ [][Next]_vars
-----------------------------------------------------------------------------
(* The design is in reset in exactly the cycles that lie DELAY_CYCLES to   *)
(* DELAY_CYCLES + HOLD_CYCLES - 1 cycles after a reset pulse, however often*)
(* the pulse comes back while it is stretched; and neither the end of the  *)
(* sequence nor the done signal is shown while a reset is still on its way.*)
ResetWindowExact ==
    \A rst_in \in BOOLEAN :
        LET pulse(k) == IF k = 0 THEN rst_in ELSE past[k]
        IN  /\ rst_delayed_out(rst_in) <=>
                  \E k \in DELAY_CYCLES..(TOTAL_CYCLES - 1) : pulse(k)
            /\ finished_this_cycle \/ finished_ff \/ rst_and_startup_done_out =>
                  \A k \in 1..(TOTAL_CYCLES - 1) : ~past[k]
-----------------------------------------------------------------------------
(* The inductive invariant behind ResetWindowExact.                        *)
TypeOK ==
    /\ counter \in 0..(HOLD_CYCLES - 1)
    /\ counter_not_zero \in BOOLEAN
    /\ delay_chain \in Chains(DELAY_CYCLES, BOOLEAN)
    /\ sequence_counter \in 0..(TOTAL_CYCLES - 1)
    /\ finished_this_cycle \in BOOLEAN
    /\ finished_ff \in BOOLEAN
    /\ done_chain \in Chains(ADDTIONAL_LATENCY, BOOLEAN)
    /\ past \in Chains(TOTAL_CYCLES, BOOLEAN)

(* Some pulse came between "first" and "last" cycles ago. *)
PulseSeen(first, last) == \E j \in first..last : past[j]

(* A counter that a pulse loads with length - 1 is the time left of a      *)
(* window of "length" cycles after the most recent pulse.                  *)
TimeLeft(c, length) ==
    \A k \in 0..(length - 1) : c >= length - k <=> PulseSeen(1, k)

(* Stage i of the delay chain holds what the stretched reset was i cycles  *)
(* ago.                                                                    *)
StretchedExact ==
    \A i \in 1..DELAY_CYCLES :
        delay_chain[i] <=> PulseSeen(i, i + HOLD_CYCLES - 1)

DoneIsQuiet ==
    finished_this_cycle \/ finished_ff
        \/ (\E i \in 1..ADDTIONAL_LATENCY : done_chain[i])
      => ~PulseSeen(1, TOTAL_CYCLES - 1)

IInv ==
    /\ TypeOK
    /\ counter_not_zero <=> counter # 0
    /\ TimeLeft(counter, HOLD_CYCLES)
    /\ TimeLeft(sequence_counter, TOTAL_CYCLES)
    /\ StretchedExact
    /\ DoneIsQuiet
=============================================================================
